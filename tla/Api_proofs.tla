----------------------------- MODULE Api_proofs -----------------------------
(***************************************************************************)
(* What holds of calls, lines and streams for all sizes of lines, calls    *)
(* and rings, and any number of keys and written bytes.                    *)
(***************************************************************************)
EXTENDS Api, SequenceTheorems, TLAPS

(***************************************************************************)
(* Types.  A call that has not been answered left its arguments as core 1  *)
(* and the 6502 do; a handler that is called after a start without a call  *)
(* finds what api_run() left.                                              *)
(***************************************************************************)
Arguments ==
  /\ busy = TRUE /\ reg_a \in {1, 2} => xstack \in Seq(1 .. MaxBytes) /\ Len(xstack) <= MaxCount
  /\ busy = TRUE /\ reg_a = 0 => xstack \in Seq(0 .. MaxCount)
  /\ active_op # "none" => busy = TRUE \/ (reg_a = 255 /\ xstack = <<>>)
LeftOver == (std_xram_count < 0 <=> out_rest = <<>>) /\ Len(out_rest) <= MaxCount
LineFits == callback = "cpu" => Len(com_buf) <= LineMax

RegsTyped ==
  /\ reg_op \in Ops \cup {"none"} /\ busy \in BOOLEAN /\ reg_a \in 0 .. 255
  /\ xstack \in Seq(Nat) /\ active_op \in Ops \cup {"none"} /\ served \in Ops \cup {"none"}
OutTyped ==
  /\ std_xram_count \in None .. MaxCount /\ out_rest \in Seq(1 .. MaxBytes)
  /\ std_out \in Seq(1 .. MaxBytes) /\ Len(std_out) <= OutRing /\ out \in Seq(1 .. MaxBytes)
LineTyped ==
  /\ std_in_count \in None .. MaxCount
  /\ readline_active \in BOOLEAN /\ needs_nl \in BOOLEAN
  /\ readline_length \in 0 .. LineMax /\ readline_pos \in 0 .. readline_length
  /\ callback \in {"none", "mon", "cpu"} /\ com_buf \in Seq(Key) /\ unread \in Seq(Key)
KeysTyped ==
  /\ rx_char \in {None} \cup Key /\ rx_fifo \in Seq(Key) /\ Len(rx_fifo) <= RxRing
  /\ keys \in Seq(Key) /\ pressed \in 0 .. MaxKeys
KernelTyped ==
  /\ prog \in {"reset", "held", "app", "wait"} /\ sent \in 0 .. MaxBytes
  /\ needs_prompt \in BOOLEAN /\ is_breaking \in BOOLEAN
  /\ main_state \in {"stopped", "starting", "running", "stopping"}
  /\ seen \in BOOLEAN /\ refresh_cnt \in 0 .. SampleDelay
  /\ turn \in {"main", "api", "com", "keys", "mon", "ext", "events"}

ApiSound ==
  /\ RegsTyped /\ Arguments /\ OutTyped /\ LeftOver /\ LineTyped /\ LineFits
  /\ KeysTyped /\ KernelTyped

LEMMA SoundIsTyped == ApiSound => TypeOK
BY DEF ApiSound, RegsTyped, OutTyped, LineTyped, KeysTyped, KernelTyped, TypeOK

LEMMA Constants ==
  /\ Ops \subseteq {"read", "write", "other", "boot"}
  /\ MaxKeys \in Nat /\ MaxBytes \in Nat /\ MaxCount \in Nat
  /\ LineMax \in Nat \ {0} /\ OutRing \in Nat \ {0} /\ RxRing \in Nat \ {0}
  /\ SampleDelay \in Nat
BY ApiAssumption

LEMMA SoundAtFirst == Init => ApiSound
<1> SUFFICES ASSUME Init PROVE ApiSound
  OBVIOUS
<1>0. /\ busy \in BOOLEAN /\ readline_active \in BOOLEAN /\ needs_nl \in BOOLEAN
      /\ needs_prompt \in BOOLEAN /\ is_breaking \in BOOLEAN /\ seen \in BOOLEAN
  BY Zenon DEF Init
<1>1. RegsTyped
  <2>1. xstack = <<>> /\ reg_a = 0 /\ reg_op = "none" /\ active_op = "none" /\ served = "none"
    BY DEF Init
  <2> QED BY <1>0, <2>1 DEF RegsTyped
<1>2. Arguments
  <2>1. busy = FALSE /\ active_op = "none"
    BY DEF Init
  <2> QED BY <2>1 DEF Arguments
<1>3. OutTyped /\ LeftOver
  BY Constants DEF Init, OutTyped, LeftOver, None
<1>4. LineTyped /\ LineFits
  <2>1. /\ std_in_count = None /\ readline_length = 0 /\ readline_pos = 0
        /\ callback = "none" /\ com_buf = <<>> /\ unread = <<>>
    BY DEF Init
  <2> QED BY <1>0, <2>1, Constants DEF LineTyped, LineFits, None
<1>5. KeysTyped
  BY Constants DEF Init, KeysTyped, None
<1>6. KernelTyped
  <2>1. /\ prog = "reset" /\ sent = 0 /\ main_state = "stopped"
        /\ refresh_cnt = SampleDelay /\ turn = "main"
    BY DEF Init
  <2> QED BY <1>0, <2>1, Constants DEF KernelTyped
<1> QED BY <1>1, <1>2, <1>3, <1>4, <1>5, <1>6 DEF ApiSound

(***************************************************************************)
(* Who changes what.                                                       *)
(***************************************************************************)
LEMMA WhoChangesRegs ==
  ASSUME [Next]_vars
  PROVE  Call \/ Return \/ ApiTask \/ Events \/ UNCHANGED <<regs, active_op, served>>
BY DEF Next, Core0, PressKey, PressEnter, Press, MainTask, FirstKey, NextKey, MonTask, ExtTask,
   Break, vars, regs

LEMMA WhoChangesOut ==
  ASSUME [Next]_vars
  PROVE  MainTask \/ ApiTask \/ Events \/ UNCHANGED <<out, std_out, out_rest, std_xram_count>>
BY DEF Next, Core0, Call, Return, PressKey, PressEnter, Press, FirstKey, NextKey, MonTask,
   ExtTask, Break, vars, stdio

LEMMA WhoChangesLine ==
  ASSUME [Next]_vars
  PROVE  \/ ApiTask \/ FirstKey \/ NextKey \/ MonTask \/ Events
         \/ UNCHANGED <<std_in_count, lines, com, unread>>
BY DEF Next, Core0, Call, Return, PressKey, PressEnter, Press, MainTask, ExtTask, Break, vars,
   stdio

LEMMA WhoChangesKeys ==
  ASSUME [Next]_vars
  PROVE  \/ PressKey \/ PressEnter \/ MainTask \/ FirstKey \/ NextKey \/ Break \/ Events
         \/ UNCHANGED <<rx, keys, pressed>>
BY DEF Next, Core0, Call, Return, ApiTask, MonTask, ExtTask, vars

(***************************************************************************)
(* What a read takes.                                                      *)
(***************************************************************************)
LEMMA LeastOfThree ==
  ASSUME NEW a \in Int, NEW b \in Int, NEW c \in Int
  PROVE  /\ Min({a, b, c}) \in {a, b, c}
         /\ Min({a, b, c}) <= a /\ Min({a, b, c}) <= b /\ Min({a, b, c}) <= c
<1>1. \E x \in {a, b, c} : \A y \in {a, b, c} : x <= y
  <2>1. CASE a <= b /\ a <= c
    BY <2>1
  <2>2. CASE b <= a /\ b <= c
    BY <2>2
  <2>3. CASE c <= a /\ c <= b
    BY <2>3
  <2> QED BY <2>1, <2>2, <2>3
<1> QED BY <1>1 DEF Min

LEMMA LeastOfTwo ==
  ASSUME NEW a \in Int, NEW b \in Int
  PROVE  Min({a, b}) = IF a <= b THEN a ELSE b
<1>1. \E x \in {a, b} : \A y \in {a, b} : x <= y
  OBVIOUS
<1> QED BY <1>1 DEF Min

LEMMA CharsOfLine ==
  ASSUME LineTyped, NEW n \in Nat
  PROVE  /\ Chars(n) \in Seq(Key) /\ Len(Chars(n)) <= n
         /\ readline_pos + Len(Chars(n)) \in 0 .. readline_length
         /\ Chars(n) = SubSeq(com_buf, readline_pos + 1, readline_pos + Len(Chars(n)))
         /\ readline_pos + n <= readline_length /\ readline_length <= Len(com_buf)
              => Len(Chars(n)) = n
         /\ readline_pos + n >= readline_length /\ readline_length <= Len(com_buf)
              => readline_pos + Len(Chars(n)) = readline_length
<1> DEFINE m == Min({readline_pos + n, readline_length, Len(com_buf)})
<1>1. /\ com_buf \in Seq(Key) /\ Len(com_buf) \in Nat /\ readline_pos \in Nat
      /\ readline_length \in Nat /\ readline_pos <= readline_length
  BY Constants DEF LineTyped
<1>2. /\ m \in {readline_pos + n, readline_length, Len(com_buf)}
      /\ m <= readline_pos + n /\ m <= readline_length /\ m <= Len(com_buf)
  <2>1. readline_pos + n \in Int /\ readline_length \in Int /\ Len(com_buf) \in Int
    BY <1>1
  <2> QED BY <2>1, LeastOfThree
<1>3. Chars(n) = SubSeq(com_buf, readline_pos + 1, m)
  BY DEF Chars
<1> HIDE DEF m
<1>4. m \in Int /\ readline_pos + 1 \in Int
  BY <1>1, <1>2
<1>5. \A i \in readline_pos + 1 .. m : com_buf[i] \in Key
  BY <1>1, <1>2, <1>4, ElementOfSeq
<1>6. /\ Chars(n) \in Seq(Key)
      /\ Len(Chars(n)) = IF readline_pos + 1 <= m THEN m - (readline_pos + 1) + 1 ELSE 0
  BY <1>3, <1>4, <1>5, SubSeqProperties
<1>7. Chars(n) = SubSeq(com_buf, readline_pos + 1, readline_pos + Len(Chars(n)))
  <2>1. CASE readline_pos + 1 <= m
    <3>1. readline_pos + Len(Chars(n)) = m
      BY <2>1, <1>1, <1>4, <1>6
    <3> QED BY <3>1, <1>3
  <2>2. CASE m < readline_pos + 1
    <3>1. Len(Chars(n)) = 0 /\ readline_pos + Len(Chars(n)) = readline_pos
      BY <2>2, <1>1, <1>4, <1>6
    <3>2. SubSeq(com_buf, readline_pos + 1, m) = <<>>
      BY <2>2, <1>4, SubSeqEmpty
    <3>3. SubSeq(com_buf, readline_pos + 1, readline_pos) = <<>>
      BY <1>1, SubSeqEmpty
    <3> QED BY <3>1, <3>2, <3>3, <1>3
  <2> QED BY <2>1, <2>2, <1>1, <1>4
<1> QED BY <1>1, <1>2, <1>4, <1>6, <1>7

LEMMA TakenOfLine ==
  ASSUME LineTyped, NEW n \in Nat
  PROVE  Taken(n) \in Seq(Key) /\ Len(Taken(n)) <= n /\ Len(Taken(n)) \in Nat
<1>1. Chars(n) \in Seq(Key) /\ Len(Chars(n)) <= n /\ Len(Chars(n)) \in Nat
  BY CharsOfLine
<1>2. Enter \in Key /\ <<Enter>> \in Seq(Key) /\ <<>> \in Seq(Key)
  BY Constants DEF Enter, Key
<1>3. CASE ReadsNl(n)
  <2>1. Taken(n) = Chars(n) \o <<Enter>>
    BY <1>3 DEF Taken
  <2>2. Taken(n) \in Seq(Key) /\ Len(Taken(n)) = Len(Chars(n)) + 1
    BY <2>1, <1>1, <1>2, ConcatProperties
  <2>3. Len(Chars(n)) < n
    <3>1. readline_pos + n > readline_length
      BY <1>3 DEF ReadsNl
    <3>2. readline_pos + Len(Chars(n)) <= readline_length
      BY CharsOfLine
    <3> QED BY <3>1, <3>2, <1>1, Constants DEF LineTyped
  <2> QED BY <2>2, <2>3, <1>1
<1>4. CASE ~ReadsNl(n)
  <2>1. Taken(n) = Chars(n)
    BY <1>4, <1>1, ConcatEmptySeq DEF Taken
  <2> QED BY <2>1, <1>1
<1> QED BY <1>3, <1>4

(***************************************************************************)
(* Types of the registers and the stack.                                   *)
(***************************************************************************)
LEMMA LowByte ==
  ASSUME NEW n \in Nat PROVE n % 256 \in 0 .. 255
OBVIOUS

LEMMA CallFillsStack ==
  ASSUME ApiSound, Call
  PROVE  RegsTyped' /\ Arguments'
<1>1. PICK op \in Ops, n \in 0 .. MaxCount :
         /\ op = "write" => sent + n <= MaxBytes
         /\ xstack' = CASE op = "read"  -> <<n>>
                        [] op = "write" -> [i \in 1 .. n |-> sent + i]
                        [] OTHER        -> <<>>
         /\ reg_a' = IF op = "write" THEN 1 ELSE 0
         /\ reg_op' = op
  BY DEF Call
<1>2. busy' = TRUE /\ UNCHANGED <<active_op, served>>
  BY DEF Call
<1>3. sent \in Nat /\ n \in Nat /\ n <= MaxCount /\ MaxBytes \in Nat
  BY Constants DEF ApiSound, KernelTyped
<1>4. CASE op = "read"
  <2>1. xstack' = <<n>> /\ reg_a' = 0
    BY <1>1, <1>4
  <2>2. <<n>> \in Seq(Nat) /\ <<n>> \in Seq(0 .. MaxCount)
    BY <1>3
  <2> QED BY <2>1, <2>2, <1>1, <1>2 DEF RegsTyped, Arguments, ApiSound
<1>5. CASE op = "write"
  <2>1. xstack' = [i \in 1 .. n |-> sent + i] /\ reg_a' = 1
    BY <1>1, <1>5
  <2>2. \A i \in 1 .. n : sent + i \in 1 .. MaxBytes
    BY <1>1, <1>3, <1>5
  <2>3. [i \in 1 .. n |-> sent + i] \in Seq(1 .. MaxBytes)
    BY <2>2, <1>3, IsASeq
  <2>4. [i \in 1 .. n |-> sent + i] \in Seq(Nat) /\ Len([i \in 1 .. n |-> sent + i]) = n
    BY <2>3, <1>3, SeqMonotonic
  <2> QED BY <2>1, <2>3, <2>4, <1>1, <1>2, <1>3 DEF RegsTyped, Arguments, ApiSound
<1>6. CASE op \in {"other", "boot"}
  <2>1. xstack' = <<>> /\ reg_a' = 0
    BY <1>1, <1>6
  <2> QED BY <2>1, <1>1, <1>2 DEF RegsTyped, Arguments, ApiSound
<1> QED BY <1>4, <1>5, <1>6, Constants

LEMMA LatchedIsCall ==
  ASSUME RegsTyped, Arguments
  PROVE  /\ Latched \in Ops \cup {"none"}
         /\ Latched # "none" => busy = TRUE \/ (reg_a = 255 /\ xstack = <<>>)
         /\ active_op # "none" => Latched = active_op
         /\ active_op = "none" /\ Latched # "none" => busy = TRUE /\ Latched = reg_op /\ seen
<1>1. CASE seen /\ active_op = "none" /\ busy /\ reg_op # "none"
  <2>1. Latched = reg_op
    BY <1>1 DEF Latched
  <2>2. busy = TRUE
    BY <1>1 DEF RegsTyped
  <2> QED BY <2>1, <2>2, <1>1 DEF RegsTyped
<1>2. CASE ~(seen /\ active_op = "none" /\ busy /\ reg_op # "none")
  <2>1. Latched = active_op
    BY <1>2 DEF Latched
  <2> QED BY <2>1 DEF RegsTyped, Arguments
<1> QED BY <1>1, <1>2

LEMMA TaskUnlatches ==
  ASSUME RegsTyped, Arguments, ApiTask, busy' \in BOOLEAN
  PROVE  /\ active_op' \in Ops \cup {"none"} /\ served' \in Ops \cup {"none"}
         /\ active_op' # "none" => busy' = TRUE /\ active_op' = Latched
<1>1. /\ active_op' = (IF ~busy' THEN "none" ELSE Latched)
      /\ served' = (IF busy /\ ~busy' THEN Latched ELSE served)
  BY DEF ApiTask, Unlatched
<1> QED BY <1>1, LatchedIsCall DEF RegsTyped

LEMMA TaskFillsStack ==
  ASSUME ApiSound, ApiTask
  PROVE  RegsTyped' /\ Arguments'
<1> USE DEF ApiSound
<1>0. ASSUME reg_op' \in Ops \cup {"none"}, busy' \in BOOLEAN, reg_a' \in 0 .. 255,
             xstack' \in Seq(Nat),
             busy' = TRUE /\ reg_a' \in {1, 2} =>
               xstack' \in Seq(1 .. MaxBytes) /\ Len(xstack') <= MaxCount,
             busy' = TRUE /\ reg_a' = 0 => xstack' \in Seq(0 .. MaxCount)
      PROVE  RegsTyped' /\ Arguments'
  BY <1>0, TaskUnlatches DEF RegsTyped, Arguments
<1>1. ASSUME UNCHANGED regs PROVE RegsTyped' /\ Arguments'
  <2>1. UNCHANGED <<reg_op, busy, reg_a, xstack>>
    BY <1>1 DEF regs
  <2> QED BY <2>1, <1>0 DEF RegsTyped, Arguments
<1>2. ASSUME UNCHANGED reg_op, busy' = FALSE, reg_a' \in 0 .. 255, xstack' \in Seq(Nat)
      PROVE  RegsTyped' /\ Arguments'
  <2>1. reg_op' \in Ops \cup {"none"} /\ busy' \in BOOLEAN
    BY <1>2, ZenonT(60) DEF RegsTyped
  <2> QED BY <2>1, <1>2, <1>0
<1>3. ASSUME UNCHANGED reg_op, ReturnErrno PROVE RegsTyped' /\ Arguments'
  <2>1. busy' = FALSE /\ reg_a' = 255 /\ xstack' = <<>>
    BY <1>3 DEF ReturnErrno
  <2>2. reg_a' \in 0 .. 255 /\ xstack' \in Seq(Nat)
    BY <2>1
  <2> QED BY <2>1, <2>2, <1>2, <1>3
<1>4. CASE Latched = "none" /\ UNCHANGED regs
  BY <1>4, <1>1
<1>5. CASE ApiRead
  <2>1. CASE UNCHANGED regs
    BY <2>1, <1>1
  <2>2. CASE /\ StdinPending /\ xstack' = Taken(std_in_count) /\ reg_a' = Len(xstack') % 256
             /\ busy' = FALSE /\ UNCHANGED reg_op
    <3>1. std_in_count \in Nat
      BY <2>2, Constants DEF StdinPending, LineTyped, None
    <3>2. xstack' \in Seq(Key) /\ Len(xstack') \in Nat
      BY <2>2, <3>1, TakenOfLine
    <3>3. xstack' \in Seq(Nat)
      BY <3>2, SeqMonotonic, Constants DEF Key
    <3>4. reg_a' \in 0 .. 255
      BY <2>2, <3>2, LowByte, ZenonT(60)
    <3> QED BY <2>2, <3>3, <3>4, <1>2
  <2>3. CASE ReturnErrno /\ UNCHANGED reg_op
    BY <2>3, <1>3
  <2>4. CASE xstack' = <<>> /\ UNCHANGED <<reg_op, busy, reg_a>>
    <3>1. /\ xstack' \in Seq(Nat) /\ xstack' \in Seq(1 .. MaxBytes)
          /\ xstack' \in Seq(0 .. MaxCount) /\ Len(xstack') <= MaxCount
      BY <2>4, Constants
    <3>2. reg_op' \in Ops \cup {"none"} /\ busy' \in BOOLEAN /\ reg_a' \in 0 .. 255
      BY <2>4 DEF RegsTyped
    <3> QED BY <3>1, <3>2, <1>0
  <2> QED BY <1>5, <2>1, <2>2, <2>3, <2>4 DEF ApiRead
<1>6. CASE ApiWrite
  <2>1. UNCHANGED reg_op
    BY <1>6 DEF ApiWrite
  <2>2. ASSUME NEW bytes, OutWrite(bytes) PROVE busy' \in BOOLEAN /\ (busy' = TRUE => busy = TRUE)
    BY <2>2 DEF OutWrite, RegsTyped
  <2>3. CASE OutWrite(out_rest) /\ UNCHANGED <<reg_a, xstack>>
    BY <2>1, <2>2, <2>3, <1>0 DEF RegsTyped, Arguments
  <2>4. CASE reg_a' = Len(xstack) % 256 /\ xstack' = <<>> /\ OutWrite(xstack)
    <3>1. Len(xstack) \in Nat
      BY DEF RegsTyped
    <3>2. reg_a' \in 0 .. 255
      BY <2>4, <3>1, LowByte, ZenonT(60)
    <3>3. xstack' \in Seq(1 .. MaxBytes) /\ Len(xstack') = 0 /\ xstack' \in Seq(0 .. MaxCount)
          /\ xstack' \in Seq(Nat)
      BY <2>4
    <3>4. reg_op' \in Ops \cup {"none"} /\ busy' \in BOOLEAN
      BY <2>1, <2>2, <2>4 DEF RegsTyped
    <3>5. Len(xstack') <= MaxCount
      BY <3>3, Constants
    <3> QED BY <3>2, <3>3, <3>4, <3>5, <1>0
  <2>5. CASE ReturnErrno
    BY <2>1, <2>5, <1>3
  <2> QED BY <1>6, <2>3, <2>4, <2>5 DEF ApiWrite
<1>7. CASE busy' = FALSE /\ reg_a' = 0 /\ UNCHANGED <<reg_op, xstack>>
  <2>1. reg_a' \in 0 .. 255 /\ xstack' \in Seq(Nat)
    BY <1>7 DEF RegsTyped
  <2> QED BY <2>1, <1>7, <1>2
<1>8. CASE ReturnErrno /\ UNCHANGED <<reg_op, main_state>>
  BY <1>8, <1>3
<1> QED BY <1>4, <1>5, <1>6, <1>7, <1>8 DEF ApiTask, ApiBoot

LEMMA RunOrStop ==
  ASSUME Events
  PROVE  \/ AfterBreak = "starting" /\ Run
         \/ AfterBreak = "stopping" /\ Stop
         \/ /\ AfterBreak \notin {"starting", "stopping"} /\ main_state' = AfterBreak
            /\ UNCHANGED <<prog, called, regs, stdio, lines, rx, unread>>
BY DEF Events

LEMMA RegsKept ==
  ASSUME ApiSound, [Next]_vars
  PROVE  RegsTyped' /\ Arguments'
<1>1. CASE UNCHANGED <<regs, active_op, served>>
  <2>1. UNCHANGED <<reg_op, busy, reg_a, xstack, active_op, served>>
    BY <1>1 DEF regs
  <2> QED BY <2>1 DEF ApiSound, RegsTyped, Arguments
<1>2. CASE Return
  <2>1. xstack' = <<>> /\ busy = FALSE /\ UNCHANGED <<reg_op, busy, reg_a, active_op, served>>
    BY <1>2 DEF Return, ApiSound, RegsTyped
  <2> QED BY <2>1 DEF ApiSound, RegsTyped, Arguments
<1>3. CASE Events
  <2>1. UNCHANGED <<active_op, served>>
    BY <1>3 DEF Events
  <2>2. CASE UNCHANGED regs
    BY <2>1, <2>2, <1>1
  <2>3. CASE Run
    <3>1. reg_op' = "none" /\ busy' = FALSE /\ reg_a' = 255 /\ xstack' = <<>>
      BY <2>3 DEF Run
    <3>2. reg_op' \in Ops \cup {"none"} /\ reg_a' \in 0 .. 255 /\ xstack' \in Seq(Nat)
      BY <3>1
    <3>3. busy' \in BOOLEAN
      BY <3>1, Zenon
    <3> QED BY <2>1, <3>1, <3>2, <3>3 DEF ApiSound, RegsTyped, Arguments
  <2> QED BY <1>3, <2>2, <2>3, RunOrStop DEF Stop
<1> QED BY <1>1, <1>2, <1>3, WhoChangesRegs, CallFillsStack, TaskFillsStack

(***************************************************************************)
(* Types of what is written, and where a write leaves its bytes.           *)
(***************************************************************************)
LEMMA OutWriteSplits ==
  ASSUME OutTyped, NEW bytes \in Seq(1 .. MaxBytes), OutWrite(bytes), Len(bytes) <= MaxCount,
         busy \in BOOLEAN
  PROVE  /\ std_out' \in Seq(1 .. MaxBytes) /\ Len(std_out') <= OutRing
         /\ out_rest' \in Seq(1 .. MaxBytes) /\ Len(out_rest') <= MaxCount
         /\ std_xram_count' \in None .. MaxCount /\ (std_xram_count' < 0 <=> out_rest' = <<>>)
         /\ std_out' \o out_rest' = std_out \o bytes
         /\ out_rest' # <<>> => busy' = busy
         /\ out_rest' = <<>> => busy' = FALSE
<1> DEFINE S == 1 .. MaxBytes
           n == Min({Len(bytes), Room})
           first == SubSeq(bytes, 1, n)
<1>1. /\ Len(bytes) \in Nat /\ Len(std_out) \in Nat /\ std_out \in Seq(S) /\ bytes \in Seq(S)
      /\ Room \in Nat /\ Room = OutRing - Len(std_out)
  BY Constants DEF OutTyped, Room
<1>2. n \in 0 .. Len(bytes) /\ n <= Room
  BY <1>1, LeastOfTwo
<1>3. /\ std_out' = std_out \o first
      /\ out_rest' = SubSeq(bytes, n + 1, Len(bytes))
      /\ std_xram_count' = IF out_rest' = <<>> THEN None ELSE Len(out_rest')
      /\ busy' = (busy /\ ~(out_rest' = <<>>))
  BY DEF OutWrite, Rest, Written
<1> HIDE DEF n
<1>4. \A i \in 1 .. Len(bytes) : bytes[i] \in S
  BY <1>1, ElementOfSeq
<1>5. first \in Seq(S) /\ Len(first) = n
  <2>1. \A i \in 1 .. n : bytes[i] \in S
    BY <1>2, <1>4
  <2>2. first \in Seq(S) /\ Len(first) = IF 1 <= n THEN n - 1 + 1 ELSE 0
    BY <2>1, <1>2, SubSeqProperties
  <2> QED BY <2>2, <1>2
<1>6. out_rest' \in Seq(S) /\ Len(out_rest') = Len(bytes) - n
  <2>1. \A i \in n + 1 .. Len(bytes) : bytes[i] \in S
    BY <1>2, <1>4
  <2>2. /\ out_rest' \in Seq(S)
        /\ Len(out_rest') = IF n + 1 <= Len(bytes) THEN Len(bytes) - (n + 1) + 1 ELSE 0
    BY <2>1, <1>1, <1>2, <1>3, SubSeqProperties
  <2> QED BY <2>2, <1>1, <1>2
<1>7. first \o out_rest' = bytes
  <2>1. SubSeq(bytes, 1, n) \o SubSeq(bytes, n + 1, Len(bytes)) = SubSeq(bytes, 1, Len(bytes))
    <3>1. 1 \in 1 .. Len(bytes) + 1 /\ n \in 1 - 1 .. Len(bytes) /\ Len(bytes) \in n .. Len(bytes)
      BY <1>1, <1>2
    <3> QED BY <3>1, <1>1, ConcatAdjacentSubSeq
  <2> QED BY <2>1, <1>1, <1>3, SubSeqFull
<1> HIDE DEF first, S
<1>8. std_out' \in Seq(S) /\ Len(std_out') = Len(std_out) + n
  BY <1>1, <1>3, <1>5, ConcatProperties
<1>9. std_out' \o out_rest' = std_out \o bytes
  <2>1. (std_out \o first) \o out_rest' = std_out \o (first \o out_rest')
    <3>1. std_out \in Seq(S) /\ first \in Seq(S) /\ out_rest' \in Seq(S)
      BY <1>1, <1>5, <1>6
    <3> QED BY <3>1, ConcatAssociative, SMTT(60)
  <2> QED BY <2>1, <1>3, <1>7
<1>10. std_xram_count' \in None .. MaxCount /\ (std_xram_count' < 0 <=> out_rest' = <<>>)
  <2>1. CASE out_rest' = <<>>
    <3>1. std_xram_count' = None
      BY <1>3, <2>1
    <3> QED BY <2>1, <3>1, Constants DEF None
  <2>2. CASE out_rest' # <<>>
    <3>1. std_xram_count' = Len(out_rest')
      BY <1>3, <2>2
    <3> QED BY <2>2, <3>1, <1>1, <1>2, <1>6, Constants, SMTT(60) DEF None
  <2> QED BY <2>1, <2>2
<1>11. (out_rest' # <<>> => busy' = busy) /\ (out_rest' = <<>> => busy' = FALSE)
  BY <1>3, Zenon
<1>12. Len(std_out') <= OutRing /\ Len(out_rest') <= MaxCount
  BY <1>1, <1>2, <1>6, <1>8, Constants
<1> QED BY <1>6, <1>8, <1>9, <1>10, <1>11, <1>12 DEF S

LEMMA OutKept ==
  ASSUME ApiSound, [Next]_vars
  PROVE  OutTyped' /\ LeftOver'
<1> USE DEF ApiSound
<1>1. ASSUME UNCHANGED <<out, std_out, out_rest, std_xram_count>> PROVE OutTyped' /\ LeftOver'
  BY <1>1 DEF OutTyped, LeftOver
<1>2. CASE MainTask
  <2>1. UNCHANGED <<out_rest, std_xram_count>>
    BY <1>2 DEF MainTask, stdio
  <2>2. CASE std_out # <<>> /\ out' = Append(out, Head(std_out)) /\ std_out' = Tail(std_out)
    <3>1. out \in Seq(1 .. MaxBytes) /\ std_out \in Seq(1 .. MaxBytes) /\ Len(std_out) <= OutRing
      BY DEF OutTyped
    <3>2. out' \in Seq(1 .. MaxBytes)
      BY <2>2, <3>1, HeadTailProperties, AppendProperties
    <3>3. std_out' \in Seq(1 .. MaxBytes) /\ Len(std_out') = Len(std_out) - 1
      BY <2>2, <3>1, HeadTailProperties
    <3>4. Len(std_out') <= OutRing
      BY <3>1, <3>3, Constants
    <3> QED BY <2>1, <3>2, <3>3, <3>4 DEF OutTyped, LeftOver
  <2>3. CASE UNCHANGED <<out, std_out>>
    BY <2>1, <2>3, <1>1
  <2> QED BY <1>2, <2>2, <2>3 DEF MainTask
<1>3. CASE ApiTask
  <2>1. out' = out
    BY <1>3 DEF ApiTask
  <2>2. CASE UNCHANGED <<stdio, std_out>>
    BY <2>1, <2>2, <1>1 DEF stdio
  <2>3. CASE ApiRead /\ UNCHANGED std_out
    <3>1. UNCHANGED <<out_rest, std_xram_count>>
      BY <2>3 DEF ApiRead, stdio
    <3> QED BY <2>1, <2>3, <3>1, <1>1
  <2>4. CASE Latched = "write" /\ ApiWrite
    <3>1. CASE OutWrite(out_rest)
      <4>1. out_rest \in Seq(1 .. MaxBytes) /\ Len(out_rest) <= MaxCount
        BY DEF OutTyped, LeftOver
      <4> QED BY <2>1, <3>1, <4>1, OutWriteSplits DEF OutTyped, LeftOver, RegsTyped
    <3>2. CASE reg_a \in {1, 2} /\ OutWrite(xstack)
      <4>1. busy = TRUE
        <5>1. reg_a # 255 /\ Latched # "none"
          BY <2>4, <3>2
        <5> QED BY <5>1, LatchedIsCall
      <4>2. xstack \in Seq(1 .. MaxBytes) /\ Len(xstack) <= MaxCount
        BY <3>2, <4>1 DEF Arguments
      <4> QED BY <2>1, <3>2, <4>2, OutWriteSplits DEF OutTyped, LeftOver, RegsTyped
    <3>3. CASE UNCHANGED <<std_out, out_rest, std_xram_count>>
      BY <2>1, <3>3, <1>1
    <3> QED BY <2>4, <3>1, <3>2, <3>3 DEF ApiWrite
  <2> QED BY <1>3, <2>2, <2>3, <2>4 DEF ApiTask
<1>4. CASE Events
  <2>1. UNCHANGED <<std_out, out>>
    BY <1>4 DEF Events
  <2>2. CASE UNCHANGED stdio
    BY <2>1, <2>2, <1>1 DEF stdio
  <2>3. CASE Stop
    <3>1. std_xram_count' = None /\ out_rest' = <<>>
      BY <2>3 DEF Stop
    <3> QED BY <2>1, <3>1, Constants DEF OutTyped, LeftOver, None
  <2> QED BY <1>4, <2>2, <2>3, RunOrStop DEF Run
<1> QED BY <1>1, <1>2, <1>3, <1>4, WhoChangesOut

(***************************************************************************)
(* Types of the line and of what waits for it.                             *)
(***************************************************************************)
LEMMA LineUnchanged ==
  ASSUME LineTyped, LineFits, UNCHANGED <<std_in_count, lines, com, unread>>
  PROVE  LineTyped' /\ LineFits'
<1>1. UNCHANGED <<std_in_count, readline_active, needs_nl, readline_pos, readline_length,
                  callback, com_buf, unread>>
  BY DEF lines, com
<1> QED BY <1>1 DEF LineTyped, LineFits

LEMMA KeyIsTaken ==
  ASSUME LineTyped, LineFits, seen \in BOOLEAN, NEW k \in Key,
         NEW fifo \in Seq(Key), Len(fifo) <= RxRing, TakeKey(k, fifo), UNCHANGED std_in_count
  PROVE  LineTyped' /\ LineFits' /\ rx_fifo' \in Seq(Key) /\ Len(rx_fifo') <= RxRing
<1>1. CASE callback # "none" /\ k = Enter /\ LineEntered /\ rx_fifo' = fifo
  <2>1. callback' = "none" /\ com_buf' = com_buf
    BY <1>1 DEF LineEntered
  <2>2. CASE callback = "cpu"
    <3>1. /\ readline_active' = FALSE /\ needs_nl' = TRUE /\ readline_pos' = 0
          /\ readline_length' = Len(com_buf) /\ unread' = unread \o com_buf \o <<Enter>>
      BY <1>1, <2>2 DEF LineEntered
    <3>2. readline_active' \in BOOLEAN /\ needs_nl' \in BOOLEAN
      BY <3>1, Zenon
    <3>3. unread \in Seq(Key) /\ com_buf \in Seq(Key) /\ <<Enter>> \in Seq(Key)
      BY Constants DEF LineTyped, Enter, Key
    <3>4. unread' \in Seq(Key)
      BY <3>1, <3>3, ConcatProperties
    <3>5. readline_length' \in 0 .. LineMax /\ readline_pos' \in 0 .. readline_length'
      BY <2>2, <3>1, <3>3, Constants DEF LineFits
    <3>6. callback' \in {"none", "mon", "cpu"} /\ com_buf' \in Seq(Key)
          /\ std_in_count' \in None .. MaxCount
      BY <2>1 DEF LineTyped
    <3> QED BY <1>1, <2>1, <3>2, <3>4, <3>5, <3>6 DEF LineTyped, LineFits
  <2>3. CASE callback # "cpu"
    <3>1. UNCHANGED <<readline_active, needs_nl, readline_pos, readline_length, unread>>
      BY <1>1, <2>3 DEF LineEntered, lines
    <3> QED BY <1>1, <2>1, <3>1 DEF LineTyped, LineFits
  <2> QED BY <2>2, <2>3
<1>2. CASE Edit(k) /\ rx_fifo' = fifo /\ UNCHANGED <<callback, lines, unread, needs_prompt>>
  <2>1. UNCHANGED <<callback, readline_active, needs_nl, readline_pos, readline_length, unread>>
    BY <1>2 DEF lines
  <2>2. com_buf' \in Seq(Key) /\ (callback = "cpu" => Len(com_buf') <= LineMax)
    <3>1. com_buf \in Seq(Key) /\ Len(com_buf) \in Nat
      BY DEF LineTyped
    <3>2. CASE com_buf' = com_buf
      BY <3>1, <3>2 DEF LineFits
    <3>3. CASE /\ Len(com_buf) < (IF callback = "cpu" THEN LineMax ELSE MaxKeys)
               /\ com_buf' = Append(com_buf, k)
      BY <3>1, <3>3, AppendProperties, Constants
    <3> QED BY <1>2, <3>2, <3>3 DEF Edit
  <2> QED BY <1>2, <2>1, <2>2 DEF LineTyped, LineFits
<1>3. CASE /\ rx_fifo' = IF seen /\ Len(fifo) < RxRing THEN Append(fifo, k) ELSE fifo
           /\ UNCHANGED <<com, lines, unread, needs_prompt>>
  <2>1. rx_fifo' \in Seq(Key) /\ Len(rx_fifo') <= RxRing
    <3>1. CASE rx_fifo' = fifo
      BY <3>1
    <3>2. CASE Len(fifo) < RxRing /\ rx_fifo' = Append(fifo, k)
      BY <3>2, AppendProperties, Constants
    <3> QED BY <1>3, <3>1, <3>2
  <2> QED BY <1>3, <2>1, LineUnchanged
<1> QED BY <1>1, <1>2, <1>3 DEF TakeKey

LEMMA FirstKeyIs ==
  ASSUME KeysTyped, FirstKey
  PROVE  \/ /\ seen /\ callback # "none" /\ rx_char # None
            /\ rx_char \in Key /\ TakeKey(rx_char, rx_fifo) /\ rx_char' = None
            /\ keys' = Left(rx_char, keys)
         \/ /\ seen /\ callback # "none" /\ rx_char = None /\ rx_fifo # <<>>
            /\ Head(rx_fifo) \in Key /\ Tail(rx_fifo) \in Seq(Key)
            /\ Len(Tail(rx_fifo)) = Len(rx_fifo) - 1
            /\ TakeKey(Head(rx_fifo), Tail(rx_fifo)) /\ rx_char' = rx_char
            /\ keys' = Left(Head(rx_fifo), keys)
         \/ /\ ~(seen /\ callback # "none") \/ (rx_char = None /\ rx_fifo = <<>>)
            /\ UNCHANGED <<com, lines, rx, unread, needs_prompt, keys>>
<1>1. rx_fifo \in Seq(Key) /\ rx_char \in {None} \cup Key
  BY DEF KeysTyped
<1>2. rx_fifo # <<>> => /\ Head(rx_fifo) \in Key /\ Tail(rx_fifo) \in Seq(Key)
                        /\ Len(Tail(rx_fifo)) = Len(rx_fifo) - 1
  BY <1>1, HeadTailProperties
<1> QED BY <1>1, <1>2 DEF FirstKey, CharFirst

LEMMA NextKeyIs ==
  ASSUME KeysTyped, NextKey
  PROVE  \/ keys = <<>> /\ turn' = "mon" /\ UNCHANGED <<com, lines, rx, unread, needs_prompt, keys>>
         \/ /\ keys # <<>> /\ Head(keys) \in Key /\ Tail(keys) \in Seq(Key)
            /\ Len(Tail(keys)) = Len(keys) - 1
            /\ TakeKey(Head(keys), rx_fifo) /\ keys' = Left(Head(keys), Tail(keys))
            /\ UNCHANGED <<turn, rx_char>>
<1>1. keys \in Seq(Key)
  BY DEF KeysTyped
<1>2. keys # <<>> => /\ Head(keys) \in Key /\ Tail(keys) \in Seq(Key)
                     /\ Len(Tail(keys)) = Len(keys) - 1
  BY <1>1, HeadTailProperties
<1> QED BY <1>1, <1>2 DEF NextKey

LEMMA KeysLeft ==
  ASSUME NEW rest \in Seq(Key), NEW k \in Key
  PROVE  Left(k, rest) \in Seq(Key) /\ Left(k, rest) \in {<<>>, rest}
BY DEF Left

LEMMA FirstKeySound ==
  ASSUME ApiSound, FirstKey
  PROVE  LineTyped' /\ LineFits' /\ KeysTyped'
<1>1. /\ seen \in BOOLEAN /\ rx_fifo \in Seq(Key) /\ Len(rx_fifo) <= RxRing /\ Len(rx_fifo) \in Nat
      /\ keys \in Seq(Key) /\ LineTyped /\ LineFits /\ KeysTyped /\ RxRing \in Nat
  BY Constants DEF ApiSound, KernelTyped, KeysTyped
<1>2. std_in_count' = std_in_count /\ pressed' = pressed
  BY DEF FirstKey, stdio
<1>3. CASE /\ rx_char \in Key /\ TakeKey(rx_char, rx_fifo) /\ rx_char' = None
           /\ keys' = Left(rx_char, keys)
  <2>1. LineTyped' /\ LineFits' /\ rx_fifo' \in Seq(Key) /\ Len(rx_fifo') <= RxRing
    BY <1>1, <1>2, <1>3, KeyIsTaken
  <2>2. keys' \in Seq(Key)
    BY <1>1, <1>3, KeysLeft
  <2> QED BY <1>2, <1>3, <2>1, <2>2 DEF ApiSound, KeysTyped
<1>4. CASE /\ Head(rx_fifo) \in Key /\ Tail(rx_fifo) \in Seq(Key)
           /\ Len(Tail(rx_fifo)) = Len(rx_fifo) - 1
           /\ TakeKey(Head(rx_fifo), Tail(rx_fifo)) /\ rx_char' = rx_char
           /\ keys' = Left(Head(rx_fifo), keys)
  <2>0. Len(Tail(rx_fifo)) <= RxRing
    BY <1>1, <1>4
  <2>1. LineTyped' /\ LineFits' /\ rx_fifo' \in Seq(Key) /\ Len(rx_fifo') <= RxRing
    BY <1>1, <1>2, <1>4, <2>0, KeyIsTaken
  <2>2. keys' \in Seq(Key)
    BY <1>1, <1>4, KeysLeft
  <2> QED BY <1>2, <1>4, <2>1, <2>2 DEF ApiSound, KeysTyped
<1>5. CASE UNCHANGED <<com, lines, rx, unread, needs_prompt, keys>>
  BY <1>1, <1>2, <1>5, LineUnchanged DEF KeysTyped, rx
<1> QED BY <1>1, <1>3, <1>4, <1>5, FirstKeyIs

LEMMA NextKeySound ==
  ASSUME ApiSound, NextKey
  PROVE  LineTyped' /\ LineFits' /\ KeysTyped'
<1>1. /\ seen \in BOOLEAN /\ rx_fifo \in Seq(Key) /\ Len(rx_fifo) <= RxRing
      /\ keys \in Seq(Key) /\ LineTyped /\ LineFits /\ KeysTyped
  BY DEF ApiSound, KernelTyped, KeysTyped
<1>2. std_in_count' = std_in_count /\ pressed' = pressed
  BY DEF NextKey, stdio
<1>3. CASE UNCHANGED <<com, lines, rx, unread, needs_prompt, keys>>
  BY <1>1, <1>2, <1>3, LineUnchanged DEF KeysTyped, rx
<1>4. CASE /\ Head(keys) \in Key /\ Tail(keys) \in Seq(Key)
           /\ TakeKey(Head(keys), rx_fifo) /\ keys' = Left(Head(keys), Tail(keys))
           /\ UNCHANGED <<turn, rx_char>>
  <2>1. LineTyped' /\ LineFits' /\ rx_fifo' \in Seq(Key) /\ Len(rx_fifo') <= RxRing
    BY <1>1, <1>2, <1>4, KeyIsTaken
  <2>2. keys' \in Seq(Key)
    BY <1>4, KeysLeft
  <2> QED BY <1>1, <1>2, <1>4, <2>1, <2>2 DEF KeysTyped
<1> QED BY <1>1, <1>3, <1>4, NextKeyIs

LEMMA ReadLineIsTyped ==
  ASSUME LineTyped, NEW owner \in {"mon", "cpu"}, ReadLine(owner)
  PROVE  /\ callback' = owner /\ com_buf' = <<>>
         /\ callback' \in {"none", "mon", "cpu"} /\ com_buf' \in Seq(Key) /\ LineFits'
<1>1. callback' = owner /\ com_buf' = <<>> /\ Len(com_buf') = 0
  BY DEF ReadLine
<1> QED BY <1>1, Constants DEF LineFits

(* A read is asked for with one number at most.                            *)
LEMMA FirstArgument ==
  ASSUME ApiSound, Latched = "read", reg_a = 0
  PROVE  (IF xstack = <<>> THEN 0 ELSE xstack[1]) \in 0 .. MaxCount
<1>1. RegsTyped /\ Arguments /\ Latched # "none" /\ reg_a # 255
  BY DEF ApiSound
<1>2. busy = TRUE
  BY <1>1, LatchedIsCall
<1>3. xstack \in Seq(0 .. MaxCount)
  BY <1>2, <1>1 DEF Arguments
<1>4. CASE xstack = <<>>
  BY <1>4, Constants
<1>5. CASE xstack # <<>>
  <2>1. 1 \in 1 .. Len(xstack)
    BY <1>3, <1>5, EmptySeq
  <2> QED BY <2>1, <1>3, <1>5, ElementOfSeq
<1> QED BY <1>4, <1>5

LEMMA ReadIsTyped ==
  ASSUME ApiSound, ApiRead, Latched = "read"
  PROVE  LineTyped' /\ LineFits'
<1> USE DEF ApiSound
<1>1. CASE UNCHANGED <<stdio, lines, com, unread>>
  BY <1>1, LineUnchanged DEF stdio
<1>2. CASE /\ StdinPending /\ ~readline_active /\ std_in_count' = None
           /\ xstack' = Taken(std_in_count) /\ reg_a' = Len(xstack') % 256 /\ busy' = FALSE
           /\ readline_pos' = readline_pos + Len(Chars(std_in_count))
           /\ needs_nl' = (needs_nl /\ ~ReadsNl(std_in_count))
           /\ unread' = SubSeq(unread, Len(xstack') + 1, Len(unread))
           /\ UNCHANGED <<reg_op, std_xram_count, out_rest, readline_active, readline_length, com>>
  <2>1. std_in_count \in Nat
    BY <1>2, Constants DEF StdinPending, LineTyped, None
  <2>2. readline_pos' \in 0 .. readline_length /\ readline_length' = readline_length
    BY <1>2, <2>1, CharsOfLine
  <2>3. needs_nl' \in BOOLEAN /\ readline_active' = readline_active
    BY <1>2, Zenon
  <2>4. unread' \in Seq(Key)
    <3>1. xstack' \in Seq(Key) /\ Len(xstack') \in Nat
      BY <1>2, <2>1, TakenOfLine
    <3>2. unread \in Seq(Key) /\ Len(unread) \in Nat
      BY DEF LineTyped
    <3>3. \A i \in Len(xstack') + 1 .. Len(unread) : unread[i] \in Key
      BY <3>1, <3>2, ElementOfSeq
    <3> QED BY <1>2, <3>1, <3>2, <3>3, SubSeqProperties
  <2>5. UNCHANGED <<callback, com_buf>> /\ std_in_count' \in None .. MaxCount
    BY <1>2, Constants DEF com, None
  <2> QED BY <2>2, <2>3, <2>4, <2>5 DEF LineTyped, LineFits
<1>3. CASE /\ ~StdinPending /\ Len(xstack) <= 1 /\ reg_a = 0
           /\ std_in_count' = (IF xstack = <<>> THEN 0 ELSE xstack[1])
           /\ xstack' = <<>>
           /\ IF needs_nl THEN UNCHANGED <<readline_active, com>>
                          ELSE readline_active' = TRUE /\ ReadLine("cpu")
           /\ UNCHANGED <<reg_op, busy, reg_a, std_xram_count, out_rest, needs_nl, readline_pos,
                          readline_length, unread>>
  <2>1. /\ callback' \in {"none", "mon", "cpu"} /\ com_buf' \in Seq(Key) /\ LineFits'
        /\ readline_active' \in BOOLEAN
    <3>1. CASE UNCHANGED <<readline_active, com>>
      BY <3>1 DEF LineTyped, LineFits, com
    <3>2. CASE readline_active' = TRUE /\ ReadLine("cpu")
      <4>1. readline_active' \in BOOLEAN
        BY <3>2, Zenon
      <4> QED BY <3>2, <4>1, ReadLineIsTyped
    <3> QED BY <1>3, <3>1, <3>2
  <2>2. UNCHANGED <<needs_nl, readline_pos, readline_length, unread>>
    BY <1>3
  <2>3. std_in_count' \in None .. MaxCount
    <3>1. std_in_count' \in 0 .. MaxCount
      BY <1>3, FirstArgument
    <3> QED BY <3>1, Constants DEF None
  <2> QED BY <2>1, <2>2, <2>3 DEF LineTyped
<1> QED BY <1>1, <1>2, <1>3 DEF ApiRead, regs, stdio

LEMMA LineKept ==
  ASSUME ApiSound, [Next]_vars
  PROVE  LineTyped' /\ LineFits'
<1> USE DEF ApiSound
<1>1. CASE UNCHANGED <<std_in_count, lines, com, unread>>
  BY <1>1, LineUnchanged
<1>2. CASE ApiTask
  <2>1. CASE UNCHANGED <<stdio, lines, com, unread>>
    BY <2>1, LineUnchanged DEF stdio
  <2>2. CASE ApiWrite /\ UNCHANGED <<lines, com, unread>>
    BY <2>2, LineUnchanged DEF ApiWrite
  <2> QED BY <1>2, <2>1, <2>2, ReadIsTyped DEF ApiTask
<1>3. CASE MonTask
  <2>1. UNCHANGED <<std_in_count, lines, unread>>
    BY <1>3 DEF MonTask, stdio
  <2>2. CASE ReadLine("mon")
    <3>1. UNCHANGED <<readline_active, needs_nl, readline_pos, readline_length>>
      BY <2>1 DEF lines
    <3> QED BY <2>1, <2>2, <3>1, ReadLineIsTyped DEF LineTyped
  <2> QED BY <1>3, <2>1, <2>2, <1>1 DEF MonTask
<1>4. CASE Events
  <2>1. com_buf' = com_buf /\ callback' \in {"none", callback}
    BY <1>4 DEF Events
  <2>2. ASSUME UNCHANGED <<std_in_count, unread>>, UNCHANGED lines PROVE LineTyped' /\ LineFits'
    BY <2>1, <2>2 DEF LineTyped, LineFits, lines
  <2>3. CASE Stop
    <3>1. /\ std_in_count' = None /\ readline_active' = FALSE /\ needs_nl' = FALSE
          /\ readline_pos' = 0 /\ readline_length' = 0 /\ unread' = <<>>
      BY <2>3 DEF Stop, CpuStop
    <3>2. readline_active' \in BOOLEAN /\ needs_nl' \in BOOLEAN
      BY <3>1, Zenon
    <3> QED BY <2>1, <3>1, <3>2, Constants DEF LineTyped, LineFits, None
  <2> QED BY <1>4, <2>2, <2>3, RunOrStop DEF Run, stdio
<1> QED BY <1>1, <1>2, <1>3, <1>4, FirstKeySound, NextKeySound, WhoChangesLine

LEMMA PressIsTyped ==
  ASSUME KeysTyped, NEW k \in Key, Press(k), pressed' \in 0 .. MaxKeys
  PROVE  KeysTyped'
<1>1. keys \in Seq(Key) /\ keys' = Append(keys, k) /\ UNCHANGED rx
  BY DEF Press, KeysTyped
<1>2. keys' \in Seq(Key)
  BY <1>1, AppendProperties
<1> QED BY <1>1, <1>2 DEF KeysTyped, rx

LEMMA KeysKept ==
  ASSUME ApiSound, [Next]_vars
  PROVE  KeysTyped'
<1> USE DEF ApiSound
<1>1. CASE UNCHANGED <<rx, keys, pressed>>
  BY <1>1 DEF KeysTyped, rx
<1>2. CASE PressKey
  <2>1. pressed' = pressed + 1 /\ pressed < MaxKeys /\ pressed \in 0 .. MaxKeys
    BY <1>2 DEF PressKey, KeysTyped
  <2>2. pressed + 1 \in Key /\ pressed' \in 0 .. MaxKeys
    BY <2>1, Constants DEF Key
  <2> QED BY <1>2, <2>2, PressIsTyped DEF PressKey
<1>3. CASE PressEnter
  <2>1. Enter \in Key /\ pressed' \in 0 .. MaxKeys
    BY <1>3, Constants DEF PressEnter, KeysTyped, Enter, Key
  <2> QED BY <1>3, <2>1, PressIsTyped DEF PressEnter
<1>4. CASE MainTask
  <2>1. UNCHANGED <<keys, pressed>>
    BY <1>4 DEF MainTask
  <2>2. CASE rx_fifo # <<>> /\ rx_char' = Head(rx_fifo) /\ rx_fifo' = Tail(rx_fifo)
    <3>1. rx_fifo \in Seq(Key) /\ Len(rx_fifo) <= RxRing
      BY DEF KeysTyped
    <3>2. /\ rx_char' \in Key /\ rx_fifo' \in Seq(Key) /\ Len(rx_fifo') = Len(rx_fifo) - 1
          /\ Len(rx_fifo) \in Nat
      BY <2>2, <3>1, HeadTailProperties
    <3>3. Len(rx_fifo') <= RxRing
      BY <3>1, <3>2, Constants
    <3> QED BY <2>1, <3>2, <3>3 DEF KeysTyped
  <2> QED BY <1>4, <2>1, <2>2, <1>1 DEF MainTask
<1>5. CASE Break
  <2>1. UNCHANGED <<rx_char, rx_fifo, pressed>> /\ (keys' = <<>> \/ keys' = keys)
    BY <1>5 DEF Break, rx
  <2>2. keys \in Seq(Key) /\ <<>> \in Seq(Key)
    BY DEF KeysTyped
  <2>3. keys' \in Seq(Key)
    BY <2>1, <2>2, Zenon
  <2> QED BY <2>1, <2>3 DEF KeysTyped
<1>6. CASE Events
  <2>1. UNCHANGED <<keys, pressed>>
    BY <1>6 DEF Events
  <2>2. CASE rx_char' = None /\ rx_fifo' = <<>>
    BY <2>1, <2>2, Constants DEF KeysTyped
  <2> QED BY <1>6, <2>1, <2>2, <1>1, RunOrStop DEF Run, Stop, CpuStop
<1> QED BY <1>1, <1>2, <1>3, <1>4, <1>5, <1>6, FirstKeySound, NextKeySound, WhoChangesKeys

(***************************************************************************)
(* Types of the rest.                                                      *)
(***************************************************************************)
LEMMA FlagsKept ==
  ASSUME KernelTyped, [Next]_vars
  PROVE  needs_prompt' \in BOOLEAN /\ is_breaking' \in BOOLEAN /\ seen' \in BOOLEAN
<1>0. needs_prompt \in BOOLEAN /\ is_breaking \in BOOLEAN /\ seen \in BOOLEAN
  BY DEF KernelTyped
<1>1. needs_prompt' = needs_prompt \/ needs_prompt' = TRUE \/ needs_prompt' = FALSE
  BY DEF Next, Core0, Call, Return, PressKey, PressEnter, Press, MainTask, ApiTask, FirstKey,
     NextKey, TakeKey, LineEntered, MonTask, ExtTask, Events, Break, vars
<1>2. is_breaking' = is_breaking \/ is_breaking' = TRUE \/ is_breaking' = FALSE
  BY DEF Next, Core0, Call, Return, PressKey, PressEnter, Press, MainTask, ApiTask, FirstKey,
     NextKey, MonTask, ExtTask, Events, Break, vars, kernel
<1>3. seen' = seen \/ seen' = TRUE \/ seen' = FALSE
  BY DEF Next, Core0, Call, Return, PressKey, PressEnter, Press, MainTask, ApiTask, FirstKey,
     NextKey, MonTask, ExtTask, Events, Break, vars, ext
<1>4. needs_prompt' \in BOOLEAN
  BY <1>0, <1>1, Zenon
<1>5. is_breaking' \in BOOLEAN
  BY <1>0, <1>2, Zenon
<1>6. seen' \in BOOLEAN
  BY <1>0, <1>3, Zenon
<1> QED BY <1>4, <1>5, <1>6

LEMMA KernelKept ==
  ASSUME ApiSound, [Next]_vars
  PROVE  KernelTyped'
<1>0. /\ KernelTyped /\ MaxBytes \in Nat /\ SampleDelay \in Nat
      /\ prog \in {"reset", "held", "app", "wait"} /\ sent \in 0 .. MaxBytes
      /\ main_state \in {"stopped", "starting", "running", "stopping"}
      /\ refresh_cnt \in 0 .. SampleDelay
      /\ turn \in {"main", "api", "com", "keys", "mon", "ext", "events"}
  BY Constants DEF ApiSound, KernelTyped
<1>1. prog' \in {"reset", "held", "app", "wait"}
  BY <1>0 DEF Next, Core0, Call, Return, PressKey, PressEnter, Press, MainTask, ApiTask, FirstKey,
     NextKey, MonTask, ExtTask, Events, Run, Stop, Break, vars, cpu6502
<1>2. sent' \in 0 .. MaxBytes
  <2>1. CASE Call
    <3>1. PICK op \in Ops, n \in 0 .. MaxCount :
            (op = "write" => sent + n <= MaxBytes)
            /\ sent' = IF op = "write" THEN sent + n ELSE sent
      BY <2>1 DEF Call
    <3> QED BY <3>1, <1>0, Constants
  <2>2. CASE ~Call
    BY <2>2, <1>0 DEF Next, Core0, Return, PressKey, PressEnter, Press, MainTask, ApiTask, FirstKey,
       NextKey, MonTask, ExtTask, Events, Break, vars, cpu6502
  <2> QED BY <2>1, <2>2
<1>3. main_state' \in {"stopped", "starting", "running", "stopping"}
  <2>1. CASE ApiTask
    BY <2>1, <1>0 DEF ApiTask, ApiBoot
  <2>2. CASE Events
    BY <2>2, <1>0 DEF Events, Run, Stop, AfterBreak
  <2>3. CASE ~ApiTask /\ ~Events
    BY <2>3, <1>0 DEF Next, Core0, Call, Return, PressKey, PressEnter, Press, MainTask, FirstKey,
       NextKey, MonTask, ExtTask, Break, vars, kernel
  <2> QED BY <2>1, <2>2, <2>3
<1>4. refresh_cnt' \in 0 .. SampleDelay
  <2>1. refresh_cnt' = refresh_cnt \/ (refresh_cnt > 0 /\ refresh_cnt' = refresh_cnt - 1)
        \/ refresh_cnt' = SampleDelay
    BY DEF Next, Core0, Call, Return, PressKey, PressEnter, Press, MainTask, ApiTask, FirstKey,
       NextKey, MonTask, ExtTask, Events, Break, vars, ext
  <2> QED BY <2>1, <1>0
<1>5. turn' \in {"main", "api", "com", "keys", "mon", "ext", "events"}
  BY <1>0 DEF Next, Core0, Call, Return, PressKey, PressEnter, Press, MainTask, ApiTask, FirstKey,
     NextKey, MonTask, ExtTask, Events, Break, vars
<1> QED BY <1>0, <1>1, <1>2, <1>3, <1>4, <1>5, FlagsKept DEF KernelTyped

LEMMA SoundKept ==
  ASSUME ApiSound, [Next]_vars
  PROVE  ApiSound'
BY RegsKept, OutKept, LineKept, KeysKept, KernelKept DEF ApiSound

(* The types and what they rest on are an invariant.                       *)
THEOREM SoundAlways == Spec => []ApiSound
<1>1. Init => ApiSound
  BY SoundAtFirst
<1>2. ApiSound /\ [Next]_vars => ApiSound'
  BY SoundKept
<1> QED BY <1>1, <1>2, PTL DEF Spec

(* Every variable keeps its type and the rings their bounds, whatever the  *)
(* programs call, the user types and breaks (std.c:31-43, cpu.c:15-27,     *)
(* com.c:414-463).                                                         *)
THEOREM TypeCorrect == Spec => []TypeOK
BY SoundAlways, SoundIsTyped, PTL

(***************************************************************************)
(* What programs write.  All that has left a program and was not thrown    *)
(* away by a stop is one stream: what was printed, the ring, and the rest  *)
(* of the write that is being carried out.  The bytes of a new call are    *)
(* all younger than the stream.                                            *)
(***************************************************************************)
Stream == out \o std_out \o out_rest
UpTo(s, n) == \A i \in DOMAIN s : s[i] <= n
Fresh ==
  busy = TRUE /\ reg_a \in {1, 2} =>
    /\ \A i \in DOMAIN xstack : xstack[i] = sent - Len(xstack) + i
    /\ UpTo(Stream, sent - Len(xstack))
StreamInv == Increasing(Stream) /\ UpTo(Stream, sent) /\ Fresh

LEMMA MovedHead ==
  ASSUME NEW S, NEW s \in Seq(S), NEW t \in Seq(S), t # <<>>
  PROVE  Append(s, Head(t)) \o Tail(t) = s \o t
<1>1. /\ Head(t) \in S /\ Tail(t) \in Seq(S) /\ Len(Tail(t)) = Len(t) - 1
      /\ \A i \in 1 .. Len(Tail(t)) : Tail(t)[i] = t[i + 1]
  BY HeadTailProperties
<1>2. /\ Append(s, Head(t)) \in Seq(S) /\ Len(Append(s, Head(t))) = Len(s) + 1
      /\ \A i \in 1 .. Len(s) : Append(s, Head(t))[i] = s[i]
      /\ Append(s, Head(t))[Len(s) + 1] = Head(t)
  BY <1>1, AppendProperties
<1> DEFINE u == Append(s, Head(t)) \o Tail(t)
           v == s \o t
<1>3. /\ u \in Seq(S) /\ Len(u) = Len(s) + 1 + Len(t) - 1
      /\ \A i \in 1 .. Len(s) + 1 + Len(Tail(t)) : u[i] =
           IF i <= Len(s) + 1 THEN Append(s, Head(t))[i] ELSE Tail(t)[i - (Len(s) + 1)]
  BY <1>1, <1>2, ConcatProperties
<1>4. /\ v \in Seq(S) /\ Len(v) = Len(s) + Len(t)
      /\ \A i \in 1 .. Len(s) + Len(t) : v[i] = IF i <= Len(s) THEN s[i] ELSE t[i - Len(s)]
  BY ConcatProperties
<1> HIDE DEF u, v
<1>5. Len(s) \in Nat /\ Len(t) \in Nat /\ Head(t) = t[1] /\ Len(t) > 0
  BY EmptySeq
<1>6. Len(u) = Len(v)
  BY <1>3, <1>4, <1>5
<1>7. ASSUME NEW i \in 1 .. Len(u) PROVE u[i] = v[i]
  <2>1. CASE i <= Len(s)
    BY <2>1, <1>1, <1>2, <1>3, <1>4, <1>5, SMTT(60)
  <2>2. CASE i = Len(s) + 1
    BY <2>2, <1>1, <1>2, <1>3, <1>4, <1>5
  <2>3. CASE i > Len(s) + 1
    <3>1. u[i] = Tail(t)[i - (Len(s) + 1)] /\ v[i] = t[i - Len(s)]
      BY <2>3, <1>1, <1>3, <1>4, <1>5
    <3>2. i - (Len(s) + 1) \in 1 .. Len(Tail(t)) /\ i - (Len(s) + 1) + 1 = i - Len(s)
      BY <2>3, <1>1, <1>3, <1>5
    <3> QED BY <3>1, <3>2, <1>1
  <2> QED BY <2>1, <2>2, <2>3, <1>3, <1>5
<1>8. u = v
  BY <1>3, <1>4, <1>6, <1>7, SeqEqual
<1> QED BY <1>8 DEF u, v

LEMMA StreamGrows ==
  ASSUME NEW s \in Seq(Nat), NEW t \in Seq(Nat), NEW n \in Int, Increasing(s), UpTo(s, n),
         \A i \in DOMAIN t : t[i] = n + i
  PROVE  Increasing(s \o t) /\ UpTo(s \o t, n + Len(t))
<1>1. Len(s) \in Nat /\ Len(t) \in Nat /\ DOMAIN s = 1 .. Len(s) /\ DOMAIN t = 1 .. Len(t)
  BY LenProperties
<1> DEFINE u == s \o t
<1>2. /\ u \in Seq(Nat) /\ Len(u) = Len(s) + Len(t)
      /\ \A i \in 1 .. Len(s) + Len(t) : u[i] = IF i <= Len(s) THEN s[i] ELSE t[i - Len(s)]
  BY ConcatProperties
<1>3. DOMAIN u = 1 .. Len(s) + Len(t)
  BY <1>2, LenProperties
<1> HIDE DEF u
<1>4. ASSUME NEW i \in 1 .. Len(s) + Len(t)
      PROVE  (i <= Len(s) => u[i] = s[i] /\ s[i] <= n) /\ (i > Len(s) => u[i] = n + (i - Len(s)))
  <2>1. CASE i <= Len(s)
    <3>1. u[i] = s[i]
      BY <2>1, <1>1, <1>2
    <3>2. i \in DOMAIN s
      BY <2>1, <1>1
    <3>3. s[i] <= n
      BY <3>2 DEF UpTo
    <3> QED BY <2>1, <3>1, <3>3
  <2>2. CASE i > Len(s)
    <3>1. i - Len(s) \in DOMAIN t /\ u[i] = t[i - Len(s)]
      BY <2>2, <1>1, <1>2
    <3>2. t[i - Len(s)] = n + (i - Len(s))
      BY <3>1
    <3> QED BY <2>2, <3>1, <3>2, <1>1
  <2> QED BY <2>1, <2>2, <1>1
<1>5. \A i \in 1 .. Len(s) : s[i] \in Nat
  BY ElementOfSeq
<1>6. ASSUME NEW i \in 1 .. Len(s) + Len(t) PROVE u[i] <= n + Len(t)
  <2>1. CASE i <= Len(s)
    <3>1. s[i] \in Nat
      BY <2>1, <1>1, <1>5
    <3>2. u[i] = s[i] /\ s[i] <= n
      BY <2>1, <1>4
    <3> QED BY <3>1, <3>2, <1>1
  <2>2. CASE i > Len(s)
    <3>1. u[i] = n + (i - Len(s))
      BY <2>2, <1>4
    <3> QED BY <3>1, <1>1
  <2> QED BY <2>1, <2>2, <1>1
<1>7. ASSUME NEW i \in DOMAIN u, NEW j \in DOMAIN u, i < j PROVE u[i] < u[j]
  <2>0. i \in 1 .. Len(s) + Len(t) /\ j \in 1 .. Len(s) + Len(t) /\ i < j
    BY <1>3, <1>7
  <2>1. CASE j <= Len(s)
    <3>1. u[i] = s[i] /\ u[j] = s[j] /\ i \in DOMAIN s /\ j \in DOMAIN s
      BY <2>0, <2>1, <1>1, <1>4
    <3> QED BY <3>1, <2>0 DEF Increasing
  <2>2. CASE i <= Len(s) /\ j > Len(s)
    <3>1. u[i] <= n /\ u[i] \in Nat /\ u[j] = n + (j - Len(s))
      BY <2>0, <2>2, <1>1, <1>4, <1>5
    <3> QED BY <3>1, <2>2, <2>0, <1>1
  <2>3. CASE i > Len(s)
    <3>1. u[i] = n + (i - Len(s)) /\ u[j] = n + (j - Len(s))
      BY <2>0, <2>3, <1>1, <1>4, SMTT(60)
    <3> QED BY <3>1, <2>0, <1>1
  <2> QED BY <2>1, <2>2, <2>3, <2>0, <1>1
<1>8. Increasing(u)
  BY <1>7 DEF Increasing
<1>9. UpTo(u, n + Len(t))
  BY <1>3, <1>6 DEF UpTo
<1> QED BY <1>8, <1>9 DEF u

LEMMA StreamCut ==
  ASSUME NEW s \in Seq(Nat), NEW t \in Seq(Nat)
  PROVE  /\ Increasing(s \o t) => Increasing(s)
         /\ \A n \in Int : UpTo(s \o t, n) => UpTo(s, n)
<1>1. Len(s) \in Nat /\ Len(t) \in Nat /\ DOMAIN s = 1 .. Len(s)
  BY LenProperties
<1> DEFINE u == s \o t
<1>2. /\ u \in Seq(Nat) /\ Len(u) = Len(s) + Len(t)
      /\ \A i \in 1 .. Len(s) + Len(t) : u[i] = IF i <= Len(s) THEN s[i] ELSE t[i - Len(s)]
  BY ConcatProperties
<1>3. DOMAIN u = 1 .. Len(s) + Len(t)
  BY <1>2, LenProperties
<1> HIDE DEF u
<1>4. \A i \in DOMAIN s : i \in DOMAIN u /\ u[i] = s[i]
  BY <1>1, <1>2, <1>3, SMTT(60)
<1>5. Increasing(u) => Increasing(s)
  BY <1>4 DEF Increasing
<1>6. \A n \in Int : UpTo(u, n) => UpTo(s, n)
  BY <1>4 DEF UpTo
<1> QED BY <1>5, <1>6 DEF u

LEMMA Associative == \A s, t, u \in Seq(Nat) : (s \o t) \o u = s \o (t \o u)
BY ConcatAssociative, SMTT(60)

LEMMA StreamIsTyped ==
  ASSUME OutTyped
  PROVE  /\ out \in Seq(Nat) /\ std_out \in Seq(Nat) /\ out_rest \in Seq(Nat)
         /\ out \o std_out \in Seq(Nat) /\ Stream \in Seq(Nat)
         /\ Stream = out \o (std_out \o out_rest)
<1>1. out \in Seq(Nat) /\ std_out \in Seq(Nat) /\ out_rest \in Seq(Nat)
  <2>1. 1 .. MaxBytes \subseteq Nat
    BY Constants
  <2> QED BY <2>1, SeqMonotonic DEF OutTyped
<1>2. out \o std_out \in Seq(Nat)
  BY <1>1, ConcatProperties
<1>3. (out \o std_out) \o out_rest = out \o (std_out \o out_rest)
  BY <1>1, Associative
<1> QED BY <1>1, <1>2, <1>3, ConcatProperties, SMTT(60) DEF Stream

LEMMA NextStream ==
  ASSUME OutTyped'
  PROVE  /\ out' \in Seq(Nat) /\ std_out' \in Seq(Nat) /\ out_rest' \in Seq(Nat)
         /\ Stream' = out' \o (std_out' \o out_rest')
<1>1. 1 .. MaxBytes \subseteq Nat
  BY Constants
<1>2. out' \in Seq(Nat) /\ std_out' \in Seq(Nat) /\ out_rest' \in Seq(Nat)
  BY <1>1, SeqMonotonic DEF OutTyped
<1> QED BY <1>2, Associative DEF Stream

LEMMA WriteBegins ==
  ASSUME ApiSound, ApiTask, Latched = "write", std_xram_count < 0, reg_a \in {1, 2},
         OutWrite(xstack)
  PROVE  busy = TRUE /\ Stream' = Stream \o xstack
<1>0. OutTyped /\ LeftOver /\ RegsTyped /\ Arguments /\ OutTyped' /\ out' = out
  BY OutKept DEF ApiSound, Next, Core0, ApiTask
<1>1. busy = TRUE
  <2>1. reg_a # 255 /\ Latched # "none"
    OBVIOUS
  <2> QED BY <1>0, <2>1, LatchedIsCall
<1>2. xstack \in Seq(1 .. MaxBytes) /\ Len(xstack) <= MaxCount
  BY <1>0, <1>1 DEF Arguments
<1>3. std_out' \o out_rest' = std_out \o xstack
  BY <1>0, <1>2, OutWriteSplits DEF RegsTyped
<1>4. Stream = out \o std_out /\ out \in Seq(Nat) /\ std_out \in Seq(Nat)
  <2>1. out_rest = <<>>
    BY <1>0 DEF LeftOver
  <2>2. /\ out \in Seq(Nat) /\ std_out \in Seq(Nat) /\ out_rest \in Seq(Nat)
        /\ Stream = out \o (std_out \o out_rest)
    BY <1>0, StreamIsTyped
  <2> QED BY <2>1, <2>2, ConcatEmptySeq
<1>5. Stream' = out \o (std_out \o xstack)
  BY <1>0, <1>3, NextStream
<1>6. xstack \in Seq(Nat)
  BY <1>0 DEF RegsTyped
<1>7. (out \o std_out) \o xstack = out \o (std_out \o xstack)
  BY <1>4, <1>6, Associative, ZenonT(60)
<1> QED BY <1>1, <1>4, <1>5, <1>7

(* Nothing but a new write makes the stream longer, and only a stop cuts   *)
(* it, behind the ring.                                                    *)
LEMMA StreamMoves ==
  ASSUME ApiSound, [Next]_vars
  PROVE  \/ Stream' = Stream
         \/ /\ Events /\ Stop /\ Stream' = out \o std_out /\ UNCHANGED <<out, std_out>>
         \/ /\ ApiTask /\ Latched = "write" /\ busy = TRUE /\ std_xram_count < 0 /\ reg_a \in {1, 2}
            /\ OutWrite(xstack) /\ xstack' = <<>> /\ Stream' = Stream \o xstack
<1>0. OutTyped /\ LeftOver /\ RegsTyped /\ Arguments /\ OutTyped' /\ LeftOver'
  BY OutKept DEF ApiSound
<1>1. /\ out \in Seq(Nat) /\ std_out \in Seq(Nat) /\ out_rest \in Seq(Nat)
      /\ Stream = out \o (std_out \o out_rest)
  BY <1>0, StreamIsTyped
<1>2. /\ out' \in Seq(Nat) /\ std_out' \in Seq(Nat) /\ out_rest' \in Seq(Nat)
      /\ Stream' = out' \o (std_out' \o out_rest')
  BY <1>0, NextStream
<1>3. CASE UNCHANGED <<out, std_out, out_rest, std_xram_count>>
  BY <1>3 DEF Stream
<1>4. CASE MainTask
  <2>1. out_rest' = out_rest
    BY <1>4 DEF MainTask, stdio
  <2>2. CASE std_out # <<>> /\ out' = Append(out, Head(std_out)) /\ std_out' = Tail(std_out)
    <3>1. out' \o std_out' = out \o std_out
      BY <2>2, <1>1, MovedHead
    <3> QED BY <2>1, <3>1 DEF Stream
  <2> QED BY <1>4, <2>1, <2>2 DEF MainTask, Stream
<1>5. CASE ApiTask
  <2>1. out' = out
    BY <1>5 DEF ApiTask
  <2>2. CASE UNCHANGED <<std_out, out_rest>>
    BY <2>1, <2>2 DEF Stream
  <2>3. CASE Latched = "write" /\ ApiWrite
    <3>1. CASE OutWrite(out_rest)
      <4>1. out_rest \in Seq(1 .. MaxBytes) /\ Len(out_rest) <= MaxCount
        BY <1>0 DEF OutTyped, LeftOver
      <4>2. std_out' \o out_rest' = std_out \o out_rest
        BY <1>0, <3>1, <4>1, OutWriteSplits DEF RegsTyped
      <4> QED BY <2>1, <4>2, <1>1, <1>2
    <3>2. CASE /\ std_xram_count < 0 /\ reg_a \in {1, 2} /\ xstack' = <<>> /\ OutWrite(xstack)
      <4>1. busy = TRUE /\ Stream' = Stream \o xstack
        BY <1>5, <2>3, <3>2, WriteBegins
      <4> QED BY <1>5, <2>3, <3>2, <4>1
    <3>3. CASE UNCHANGED <<std_out, out_rest, std_xram_count>>
      BY <3>3, <2>2
    <3> QED BY <2>3, <3>1, <3>2, <3>3 DEF ApiWrite
  <2>4. CASE ApiRead /\ UNCHANGED std_out
    BY <2>2, <2>4 DEF ApiRead, stdio
  <2> QED BY <1>5, <2>2, <2>3, <2>4 DEF ApiTask, stdio
<1>6. CASE Events
  <2>1. UNCHANGED <<std_out, out>>
    BY <1>6 DEF Events
  <2>2. CASE UNCHANGED stdio
    BY <2>1, <2>2 DEF Stream, stdio
  <2>3. CASE Stop
    <3>1. out_rest' = <<>>
      BY <2>3 DEF Stop
    <3>2. std_out' \o out_rest' = std_out
      BY <2>1, <3>1, <1>1, ConcatEmptySeq
    <3> QED BY <1>6, <2>1, <2>3, <3>2, <1>2
  <2> QED BY <1>6, <2>2, <2>3, RunOrStop DEF Run
<1> QED BY <1>3, <1>4, <1>5, <1>6, WhoChangesOut

LEMMA SentGrows ==
  ASSUME ApiSound, [Next]_vars
  PROVE  sent \in Nat /\ sent' \in Nat /\ sent' >= sent /\ (Call \/ sent' = sent)
<1>1. CASE Call
  <2>1. PICK op \in Ops, n \in 0 .. MaxCount :
          sent' = IF op = "write" THEN sent + n ELSE sent
    BY <1>1 DEF Call
  <2> QED BY <2>1, <1>1, Constants DEF ApiSound, KernelTyped
<1>2. CASE ~Call
  <2>1. sent' = sent
    BY <1>2 DEF Next, Core0, Return, PressKey, PressEnter, Press, MainTask, ApiTask, FirstKey,
       NextKey, MonTask, ExtTask, Events, Break, vars, cpu6502
  <2> QED BY <2>1, Constants DEF ApiSound, KernelTyped
<1> QED BY <1>1, <1>2

LEMMA CallIsFresh ==
  ASSUME ApiSound, StreamInv, Call
  PROVE  StreamInv'
<1>1. PICK op \in Ops, n \in 0 .. MaxCount :
         /\ xstack' = CASE op = "read"  -> <<n>>
                        [] op = "write" -> [i \in 1 .. n |-> sent + i]
                        [] OTHER        -> <<>>
         /\ reg_a' = IF op = "write" THEN 1 ELSE 0
         /\ sent' = IF op = "write" THEN sent + n ELSE sent
  BY DEF Call
<1>2. Stream' = Stream
  BY DEF Call, stdio, Stream
<1>3. sent \in Nat /\ n \in Nat /\ Stream \in Seq(Nat)
  BY Constants, StreamIsTyped DEF ApiSound, KernelTyped
<1>4. \A i \in DOMAIN Stream : Stream[i] \in Nat /\ Stream[i] <= sent
  BY <1>3, ElementOfSeq, LenProperties DEF StreamInv, UpTo
<1>5. CASE op = "write"
  <2>1. xstack' = [i \in 1 .. n |-> sent + i] /\ sent' = sent + n
    BY <1>1, <1>5
  <2>2. Len(xstack') = n /\ DOMAIN xstack' = 1 .. n
    BY <2>1, <1>3
  <2>3. sent' - Len(xstack') = sent
    BY <2>1, <2>2, <1>3
  <2>4. UpTo(Stream', sent') /\ UpTo(Stream', sent' - Len(xstack'))
    BY <2>1, <2>3, <1>2, <1>3, <1>4 DEF UpTo
  <2>5. \A i \in DOMAIN xstack' : xstack'[i] = sent' - Len(xstack') + i
    BY <2>1, <2>2, <2>3
  <2> QED BY <2>4, <2>5, <1>2 DEF StreamInv, Fresh
<1>6. CASE op # "write"
  <2>1. reg_a' = 0 /\ sent' = sent
    BY <1>1, <1>6
  <2> QED BY <2>1, <1>2 DEF StreamInv, Fresh
<1> QED BY <1>5, <1>6

LEMMA TaskStaysFresh ==
  ASSUME ApiSound, StreamInv, ApiTask, Stream' = Stream, sent' = sent
  PROVE  Fresh'
<1>1. busy \in BOOLEAN
  BY DEF ApiSound, RegsTyped
<1>2. CASE UNCHANGED <<busy, reg_a, xstack>>
  BY <1>2 DEF StreamInv, Fresh
<1>3. CASE busy' = FALSE
  BY <1>3 DEF Fresh
<1>4. CASE xstack' = <<>>
  <2>1. Len(xstack') = 0 /\ DOMAIN xstack' = {}
    BY <1>4
  <2>2. UpTo(Stream', sent' - Len(xstack'))
    BY <2>1 DEF StreamInv, ApiSound, KernelTyped
  <2> QED BY <2>1, <2>2 DEF Fresh
<1>5. CASE ApiRead
  BY <1>5, <1>2, <1>3, <1>4 DEF ApiRead, regs, ReturnErrno
<1>6. CASE ApiWrite
  <2>1. CASE OutWrite(out_rest) /\ UNCHANGED <<reg_a, xstack>>
    <3>1. busy' = FALSE \/ busy' = busy
      BY <2>1, <1>1 DEF OutWrite
    <3> QED BY <2>1, <3>1, <1>2, <1>3
  <2> QED BY <1>6, <2>1, <1>4 DEF ApiWrite, ReturnErrno
<1> QED BY <1>2, <1>3, <1>5, <1>6 DEF ApiTask, ApiBoot, ReturnErrno, regs

LEMMA StreamKept ==
  ASSUME ApiSound, StreamInv, [Next]_vars
  PROVE  StreamInv'
<1>1. sent \in Nat /\ sent' \in Nat /\ sent' >= sent /\ (Call \/ sent' = sent)
  BY SentGrows
<1>2. /\ out \o std_out \in Seq(Nat) /\ out_rest \in Seq(Nat) /\ Stream \in Seq(Nat)
      /\ busy \in BOOLEAN /\ xstack \in Seq(Nat) /\ Len(xstack) \in Nat
  BY StreamIsTyped DEF ApiSound, RegsTyped
<1>3. CASE Call
  BY <1>3, CallIsFresh
<1>4. CASE ~Call /\ Events /\ Stop /\ Stream' = out \o std_out
  <2>1. Increasing(Stream') /\ \A n \in Int : UpTo(Stream, n) => UpTo(Stream', n)
    BY <1>2, <1>4, StreamCut DEF StreamInv, Stream
  <2>2. UNCHANGED <<busy, reg_a, xstack, sent>>
    BY <1>1, <1>4 DEF Stop, regs
  <2>3. sent - Len(xstack) \in Int
    BY <1>1, <1>2
  <2> QED BY <2>1, <2>2, <2>3, <1>1 DEF StreamInv, Fresh
<1>5. CASE ~Call /\ Latched = "write" /\ busy = TRUE /\ reg_a \in {1, 2} /\ xstack' = <<>>
           /\ Stream' = Stream \o xstack
  <2> DEFINE n == sent - Len(xstack)
  <2>1. n \in Int /\ n + Len(xstack) = sent
    BY <1>1, <1>2
  <2>2. UpTo(Stream, n) /\ \A i \in DOMAIN xstack : xstack[i] = n + i
    BY <1>5 DEF StreamInv, Fresh
  <2> HIDE DEF n
  <2>3. Increasing(Stream \o xstack) /\ UpTo(Stream \o xstack, n + Len(xstack))
    BY <1>2, <2>1, <2>2, StreamGrows DEF StreamInv
  <2>4. Increasing(Stream') /\ UpTo(Stream', sent) /\ sent' = sent
    BY <2>1, <2>3, <1>1, <1>5
  <2>5. Len(xstack') = 0 /\ DOMAIN xstack' = {}
    BY <1>5
  <2>6. UpTo(Stream', sent' - Len(xstack'))
    BY <2>4, <2>5, <1>1
  <2> QED BY <2>4, <2>5, <2>6 DEF StreamInv, Fresh
<1>6. CASE ~Call /\ Stream' = Stream
  <2>1. Increasing(Stream') /\ UpTo(Stream', sent') /\ sent' = sent
    BY <1>1, <1>6 DEF StreamInv
  <2>2. Fresh'
    <3>1. CASE UNCHANGED <<busy, reg_a, xstack>>
      BY <3>1, <2>1, <1>6 DEF StreamInv, Fresh
    <3>2. CASE busy' = FALSE
      BY <3>2 DEF Fresh
    <3>3. CASE ApiTask
      BY <3>3, <1>6, <2>1, TaskStaysFresh
    <3>4. CASE Return
      <4>1. busy' = FALSE
        BY <3>4, <1>2 DEF Return
      <4> QED BY <4>1, <3>2
    <3>5. CASE Events
      BY <3>5, <3>1, <3>2, RunOrStop DEF Run, Stop, regs
    <3> QED BY <1>6, <3>1, <3>3, <3>4, <3>5, WhoChangesRegs DEF regs
  <2> QED BY <2>1, <2>2 DEF StreamInv
<1> QED BY <1>3, <1>4, <1>5, <1>6, StreamMoves

LEMMA StreamAtFirst == Init => StreamInv
<1> SUFFICES ASSUME Init PROVE StreamInv
  OBVIOUS
<1>1. Stream = <<>> /\ busy = FALSE
  BY DEF Init, Stream
<1>2. DOMAIN Stream = {}
  BY <1>1
<1> QED BY <1>1, <1>2 DEF StreamInv, Fresh, Increasing, UpTo

(* What programs write reaches the console in the order written, whatever  *)
(* breaks, stops and starts come between (std.c:286-334, main.c:100-118).  *)
THEOREM WritesInOrder == Spec => []Increasing(out \o std_out \o out_rest)
<1>1. Init => StreamInv
  BY StreamAtFirst
<1>2. ApiSound /\ StreamInv /\ [Next]_vars => StreamInv'
  BY StreamKept
<1>3. StreamInv => Increasing(out \o std_out \o out_rest)
  BY DEF StreamInv, Stream
<1> QED BY <1>1, <1>2, <1>3, SoundAlways, PTL DEF Spec

(***************************************************************************)
(* With breaks between calls.  While a call is pending its program waits   *)
(* and nothing but its handler touches the registers; the latch is the     *)
(* call.                                                                   *)
(***************************************************************************)
Calling ==
  /\ busy = TRUE => /\ prog = "wait" /\ main_state = "running"
                    /\ reg_op = called.op /\ reg_op # "none"
  /\ prog = "wait" => is_breaking = FALSE
  /\ active_op # "none" => busy = TRUE /\ active_op = reg_op /\ seen = TRUE

LEMMA FlagsAreBoolean ==
  ASSUME ApiSound
  PROVE  busy \in BOOLEAN /\ is_breaking \in BOOLEAN /\ seen \in BOOLEAN
         /\ readline_active \in BOOLEAN /\ needs_nl \in BOOLEAN
BY DEF ApiSound, RegsTyped, KernelTyped, LineTyped

LEMMA LatchIsTheCall ==
  ASSUME ApiSound, Calling, Latched # "none"
  PROVE  busy = TRUE /\ Latched = reg_op /\ seen = TRUE /\ prog = "wait"
         /\ (active_op = "none" \/ active_op = Latched)
<1>1. RegsTyped /\ Arguments
  BY DEF ApiSound
<1>2. seen \in BOOLEAN
  BY FlagsAreBoolean
<1>3. CASE active_op # "none"
  BY <1>1, <1>3, LatchedIsCall DEF Calling
<1>4. CASE active_op = "none"
  <2>1. busy = TRUE /\ Latched = reg_op /\ seen
    BY <1>1, <1>4, LatchedIsCall
  <2> QED BY <2>1, <1>2, <1>4 DEF Calling
<1> QED BY <1>3, <1>4

LEMMA TaskReleasesOnly ==
  ASSUME busy \in BOOLEAN, ApiTask
  PROVE  /\ reg_op' = reg_op
         /\ busy' = FALSE \/ (busy' = busy /\ UNCHANGED main_state)
         /\ UNCHANGED <<prog, sent, called, is_breaking, seen>>
<1>1. UNCHANGED <<prog, sent, called, is_breaking, seen>>
  BY DEF ApiTask, cpu6502, ext
<1>2. CASE UNCHANGED <<regs, main_state>>
  BY <1>1, <1>2 DEF regs
<1>3. CASE ApiRead /\ UNCHANGED main_state
  BY <1>1, <1>3 DEF ApiRead, regs, ReturnErrno
<1>4. CASE ApiWrite /\ UNCHANGED main_state
  <2>1. ASSUME NEW bytes, OutWrite(bytes) PROVE busy' = FALSE \/ busy' = busy
    BY <2>1 DEF OutWrite
  <2> QED BY <1>1, <1>4, <2>1 DEF ApiWrite, ReturnErrno
<1>5. CASE busy' = FALSE /\ reg_op' = reg_op
  BY <1>1, <1>5
<1> QED BY <1>2, <1>3, <1>4, <1>5 DEF ApiTask, ApiBoot, ReturnErrno

LEMMA PendingCallIsLeft ==
  ASSUME ApiSound, Calling, busy = TRUE, Events
  PROVE  /\ UNCHANGED <<prog, called, regs, stdio, lines, rx, unread, main_state>>
         /\ UNCHANGED <<callback, com_buf>>
<1>1. prog = "wait" /\ main_state = "running" /\ is_breaking = FALSE
  BY DEF Calling
<1>2. AfterBreak = "running"
  BY <1>1 DEF AfterBreak
<1> QED BY <1>1, <1>2, RunOrStop DEF Events

LEMMA CallingKept ==
  ASSUME Breaks = "calm", ApiSound, Calling, [Next]_vars
  PROVE  Calling'
<1>0. busy \in BOOLEAN /\ is_breaking \in BOOLEAN /\ seen \in BOOLEAN
  BY FlagsAreBoolean
<1>1. CASE Call
  <2>1. /\ prog = "app" /\ is_breaking = FALSE /\ main_state = "running" /\ UNCHANGED main_state
        /\ UNCHANGED is_breaking
    BY <1>0, <1>1 DEF Call, kernel
  <2>2. busy # TRUE /\ active_op = "none" /\ active_op' = active_op
    BY <2>1, <1>1 DEF Calling, Call
  <2>3. reg_op' = called'.op /\ reg_op' # "none"
    <3>1. PICK op \in Ops, n \in 0 .. MaxCount : reg_op' = op /\ called' = [op |-> op, n |-> n]
      BY <1>1 DEF Call
    <3> QED BY <3>1, Constants
  <2> QED BY <1>1, <2>1, <2>2, <2>3 DEF Calling, Call
<1>2. CASE Return
  <2>1. /\ busy = FALSE /\ busy' = busy /\ prog' = "app" /\ active_op' = active_op
    BY <1>0, <1>2 DEF Return
  <2> QED BY <2>1 DEF Calling
<1>3. CASE ApiTask
  <2>1. /\ reg_op' = reg_op /\ (busy' = FALSE \/ (busy' = busy /\ UNCHANGED main_state))
        /\ UNCHANGED <<prog, sent, called, is_breaking, seen>>
    BY <1>0, <1>3, TaskReleasesOnly
  <2>2. busy' \in BOOLEAN /\ RegsTyped /\ Arguments
    BY <1>0, <2>1 DEF ApiSound
  <2>3. active_op' # "none" => busy' = TRUE /\ active_op' = Latched
    BY <2>2, <1>3, TaskUnlatches
  <2>4. active_op' # "none" => busy' = TRUE /\ active_op' = reg_op' /\ seen' = TRUE
    BY <2>1, <2>3, LatchIsTheCall
  <2>5. busy' = TRUE => prog' = "wait" /\ main_state' = "running" /\ reg_op' = called'.op
                        /\ reg_op' # "none"
    BY <2>1 DEF Calling
  <2>6. prog' = "wait" => is_breaking' = FALSE
    BY <2>1 DEF Calling
  <2> QED BY <2>4, <2>5, <2>6 DEF Calling
<1>4. CASE MainTask
  <2>1. /\ prog' = (IF prog = "held" THEN "app" ELSE prog)
        /\ UNCHANGED <<busy, main_state, reg_op, called, is_breaking, active_op, seen>>
    BY <1>4 DEF MainTask, regs, kernel, ext
  <2> QED BY <2>1 DEF Calling
<1>5. CASE ExtTask
  <2>1. UNCHANGED <<prog, busy, reg_op, called, is_breaking, active_op>>
    BY <1>5 DEF ExtTask, cpu6502, regs
  <2>2. main_state = "running" => main_state' = "running"
    BY <1>5 DEF ExtTask
  <2>3. seen' = seen \/ seen' = (prog \in {"app", "wait"})
    BY <1>5 DEF ExtTask
  <2>4. prog = "wait" /\ seen = TRUE => seen' = TRUE
    BY <2>3
  <2> QED BY <2>1, <2>2, <2>4 DEF Calling
<1>6. CASE Events
  <2>1. is_breaking' = FALSE /\ active_op' = active_op /\ seen' = seen
    BY <1>6 DEF Events, ext
  <2>2. CASE busy = TRUE
    BY <2>1, <2>2, <1>6, PendingCallIsLeft DEF Calling, regs
  <2>3. CASE busy = FALSE
    <3>1. busy' = FALSE
      BY <1>6, <2>3, RunOrStop DEF Run, Stop, regs
    <3>2. active_op' = "none"
      BY <2>1, <2>3 DEF Calling
    <3> QED BY <2>1, <3>1, <3>2 DEF Calling
  <2> QED BY <1>0, <2>2, <2>3
<1>7. CASE Break
  <2>1. prog # "wait" /\ UNCHANGED <<prog, busy, reg_op, called, main_state, active_op, seen>>
    BY <1>7 DEF Break, cpu6502, regs, ext
  <2> QED BY <2>1 DEF Calling
<1>8. CASE UNCHANGED <<prog, busy, reg_op, called, main_state, is_breaking, active_op, seen>>
  BY <1>8 DEF Calling
<1> QED BY <1>1, <1>2, <1>3, <1>4, <1>5, <1>6, <1>7, <1>8
   DEF Next, Core0, PressKey, PressEnter, Press, FirstKey, NextKey, MonTask, cpu6502, regs, kernel,
   ext, vars

(***************************************************************************)
(* A read that has begun knows its count, and waits for a line or has one. *)
(***************************************************************************)
Reading ==
  /\ std_in_count >= 0 => active_op = "read" /\ std_in_count = called.n
  /\ busy = TRUE /\ reg_op = "read" /\ std_in_count < 0 => reg_a = 0 /\ xstack = <<called.n>>
  /\ callback = "cpu" => readline_active = TRUE
  /\ readline_active = TRUE => std_in_count >= 0
  /\ std_in_count >= 0 /\ readline_active = FALSE => needs_nl = TRUE

LEMMA LineIsForPending ==
  ASSUME Calling, Reading, std_in_count >= 0
  PROVE  /\ active_op = "read" /\ reg_op = "read" /\ busy = TRUE /\ main_state = "running"
         /\ prog = "wait" /\ is_breaking = FALSE /\ seen = TRUE
BY DEF Calling, Reading

LEMMA NoneReads ==
  ASSUME ApiSound, Calling, Reading, busy = FALSE
  PROVE  std_in_count < 0 /\ readline_active = FALSE /\ callback # "cpu" /\ active_op = "none"
<1>1. readline_active \in BOOLEAN /\ std_in_count \in Int
  BY Constants DEF ApiSound, LineTyped, None
<1>2. active_op = "none"
  BY DEF Calling
<1>3. std_in_count < 0
  BY <1>1, <1>2 DEF Reading
<1> QED BY <1>1, <1>2, <1>3 DEF Reading

LEMMA ReadIs ==
  ASSUME ApiSound, Calling, Reading, Latched = "read", ApiRead
  PROVE  \/ /\ std_in_count >= 0 /\ readline_active = TRUE
            /\ UNCHANGED <<regs, stdio, lines, com, unread>>
         \/ /\ std_in_count >= 0 /\ readline_active = FALSE /\ needs_nl = TRUE
            /\ std_in_count' = None /\ xstack' = Taken(std_in_count) /\ busy' = FALSE
            /\ readline_pos' = readline_pos + Len(Chars(std_in_count))
            /\ needs_nl' = (needs_nl /\ ~ReadsNl(std_in_count))
            /\ unread' = SubSeq(unread, Len(xstack') + 1, Len(unread))
            /\ UNCHANGED <<reg_op, readline_active, readline_length, callback, com_buf>>
         \/ /\ std_in_count < 0 /\ readline_active = FALSE
            /\ std_in_count' = called.n /\ std_in_count' >= 0 /\ xstack' = <<>>
            /\ \/ needs_nl = TRUE /\ UNCHANGED <<readline_active, callback, com_buf>>
               \/ /\ needs_nl = FALSE /\ readline_active' = TRUE
                  /\ callback' = "cpu" /\ com_buf' = <<>>
            /\ UNCHANGED <<reg_op, busy, reg_a, needs_nl, readline_pos, readline_length, unread>>
<1>0. /\ readline_active \in BOOLEAN /\ needs_nl \in BOOLEAN
      /\ std_in_count \in Int /\ (StdinPending <=> std_in_count >= 0)
  BY FlagsAreBoolean, Constants DEF ApiSound, LineTyped, None, StdinPending
<1>1. busy = TRUE /\ reg_op = "read"
  BY LatchIsTheCall
<1>2. std_in_count < 0 => /\ reg_a = 0 /\ xstack = <<called.n>> /\ readline_active = FALSE
                          /\ xstack # <<>> /\ xstack[1] = called.n /\ Len(xstack) = 1
  <2> SUFFICES ASSUME std_in_count < 0
               PROVE  /\ reg_a = 0 /\ xstack = <<called.n>> /\ readline_active = FALSE
                      /\ xstack # <<>> /\ xstack[1] = called.n /\ Len(xstack) = 1
    OBVIOUS
  <2>1. reg_a = 0 /\ xstack = <<called.n>>
    BY <1>1 DEF Reading
  <2>2. readline_active = FALSE
    <3>1. ~(std_in_count >= 0)
      BY <1>0
    <3> QED BY <1>0, <3>1 DEF Reading
  <2> QED BY <2>1, <2>2
<1>3. CASE StdinPending /\ readline_active /\ UNCHANGED <<regs, stdio, lines, com, unread>>
  BY <1>0, <1>3
<1>4. CASE /\ StdinPending /\ ~readline_active
           /\ std_in_count' = None
           /\ xstack' = Taken(std_in_count) /\ reg_a' = Len(xstack') % 256 /\ busy' = FALSE
           /\ readline_pos' = readline_pos + Len(Chars(std_in_count))
           /\ needs_nl' = (needs_nl /\ ~ReadsNl(std_in_count))
           /\ unread' = SubSeq(unread, Len(xstack') + 1, Len(unread))
           /\ UNCHANGED <<reg_op, std_xram_count, out_rest, readline_active, readline_length, com>>
  <2>1. readline_active = FALSE /\ needs_nl = TRUE /\ std_in_count >= 0
    BY <1>0, <1>4 DEF Reading
  <2>2. UNCHANGED <<callback, com_buf>>
    BY <1>4 DEF com
  <2> QED BY <1>4, <2>1, <2>2
<1>5. CASE ~StdinPending /\ (Len(xstack) > 1 \/ reg_a # 0)
  <2>1. std_in_count < 0
    BY <1>0, <1>5
  <2>2. reg_a = 0 /\ Len(xstack) = 1
    BY <2>1, <1>2
  <2> QED BY <1>5, <2>2
<1>6. CASE /\ ~StdinPending /\ Len(xstack) <= 1 /\ reg_a = 0
           /\ std_in_count' = (IF xstack = <<>> THEN 0 ELSE xstack[1])
           /\ xstack' = <<>>
           /\ IF needs_nl THEN UNCHANGED <<readline_active, com>>
                          ELSE readline_active' = TRUE /\ ReadLine("cpu")
           /\ UNCHANGED <<reg_op, busy, reg_a, std_xram_count, out_rest, needs_nl, readline_pos,
                          readline_length, unread>>
  <2>1. std_in_count < 0 /\ readline_active = FALSE /\ std_in_count' = called.n
    BY <1>0, <1>2, <1>6
  <2>2. std_in_count' \in 0 .. MaxCount
    BY <1>6, FirstArgument
  <2>3. std_in_count' >= 0
    BY <2>2, Constants
  <2>4. CASE needs_nl = TRUE
    <3>1. UNCHANGED <<readline_active, callback, com_buf>>
      BY <1>6, <2>4 DEF com
    <3> QED BY <1>6, <2>1, <2>3, <2>4, <3>1
  <2>5. CASE needs_nl = FALSE
    <3>1. readline_active' = TRUE /\ callback' = "cpu" /\ com_buf' = <<>>
      BY <1>6, <2>5 DEF ReadLine
    <3> QED BY <1>6, <2>1, <2>3, <2>5, <3>1
  <2> QED BY <1>0, <2>4, <2>5
<1> QED BY <1>3, <1>4, <1>5, <1>6 DEF ApiRead

LEMMA KeyMoves ==
  ASSUME NEW k, NEW fifo, TakeKey(k, fifo)
  PROVE  \/ /\ callback = "cpu" /\ k = Enter /\ callback' = "none" /\ com_buf' = com_buf
            /\ readline_active' = FALSE /\ needs_nl' = TRUE /\ readline_pos' = 0
            /\ readline_length' = Len(com_buf) /\ unread' = unread \o com_buf \o <<Enter>>
            /\ rx_fifo' = fifo
         \/ /\ callback # "none" /\ callback # "cpu" /\ k = Enter /\ callback' = "none"
            /\ UNCHANGED <<com_buf, lines, unread>> /\ rx_fifo' = fifo
         \/ /\ callback # "none" /\ k # Enter /\ Edit(k)
            /\ UNCHANGED <<callback, lines, unread>> /\ rx_fifo' = fifo
         \/ /\ callback = "none" /\ UNCHANGED <<callback, com_buf, lines, unread>>
            /\ rx_fifo' = IF seen /\ Len(fifo) < RxRing THEN Append(fifo, k) ELSE fifo
BY DEF TakeKey, LineEntered, com

(* What a pass of com_task() does to the line.                             *)
LineMoves ==
  \/ /\ callback = "cpu" /\ callback' = "none" /\ com_buf' = com_buf
     /\ readline_active' = FALSE /\ needs_nl' = TRUE /\ readline_pos' = 0
     /\ readline_length' = Len(com_buf) /\ unread' = unread \o com_buf \o <<Enter>>
  \/ /\ callback # "none" /\ callback' \in {"none", callback}
     /\ UNCHANGED <<lines, unread>>
  \/ UNCHANGED <<callback, com_buf, lines, unread>>

LEMMA ComMovesLine ==
  ASSUME ApiSound, FirstKey \/ NextKey
  PROVE  /\ LineMoves
         /\ UNCHANGED <<prog, sent, called, regs, active_op, std_in_count, main_state, is_breaking,
                        seen, pressed>>
<1>1. KeysTyped
  BY DEF ApiSound
<1>2. UNCHANGED <<prog, sent, called, regs, active_op, std_in_count, main_state, is_breaking,
                  seen, pressed>>
  BY DEF FirstKey, NextKey, cpu6502, kernel, ext, stdio
<1>3. ASSUME NEW k, NEW fifo, TakeKey(k, fifo) PROVE LineMoves
  BY <1>3, KeyMoves DEF LineMoves
<1>4. CASE UNCHANGED <<com, lines, rx, unread, needs_prompt, keys>>
  <2>1. UNCHANGED <<callback, com_buf, lines, unread>>
    BY <1>4 DEF com
  <2> QED BY <1>2, <2>1 DEF LineMoves
<1>5. CASE FirstKey
  <2>1. \/ \E k, fifo : TakeKey(k, fifo)
        \/ UNCHANGED <<com, lines, rx, unread, needs_prompt, keys>>
    BY <1>1, <1>5, FirstKeyIs
  <2> QED BY <1>2, <1>3, <1>4, <2>1
<1>6. CASE NextKey
  <2>1. \/ \E k, fifo : TakeKey(k, fifo)
        \/ UNCHANGED <<com, lines, rx, unread, needs_prompt, keys>>
    BY <1>1, <1>6, NextKeyIs
  <2> QED BY <1>2, <1>3, <1>4, <2>1
<1> QED BY <1>2, <1>5, <1>6

LEMMA ReadingKept ==
  ASSUME Breaks = "calm", ApiSound, Calling, Reading, [Next]_vars
  PROVE  Reading'
<1>0. busy \in BOOLEAN /\ std_in_count \in Int /\ readline_active \in BOOLEAN
  BY FlagsAreBoolean, Constants DEF ApiSound, LineTyped, None
<1>1. CASE Call
  <2>1. busy = FALSE
    BY <1>0, <1>1 DEF Call, Calling
  <2>2. std_in_count < 0 /\ readline_active = FALSE /\ callback # "cpu"
    BY <2>1, NoneReads
  <2>3. UNCHANGED <<std_in_count, readline_active, callback, needs_nl>>
    BY <1>1 DEF Call, stdio, lines, com
  <2>4. reg_op' = "read" => reg_a' = 0 /\ xstack' = <<called'.n>>
    <3>1. PICK op \in Ops, n \in 0 .. MaxCount :
            /\ xstack' = CASE op = "read"  -> <<n>>
                           [] op = "write" -> [i \in 1 .. n |-> sent + i]
                           [] OTHER        -> <<>>
            /\ reg_a' = IF op = "write" THEN 1 ELSE 0
            /\ reg_op' = op /\ called' = [op |-> op, n |-> n]
      BY <1>1 DEF Call
    <3>2. CASE op = "read"
      BY <3>1, <3>2
    <3> QED BY <3>1, <3>2
  <2> QED BY <1>0, <2>2, <2>3, <2>4 DEF Reading
<1>2. CASE Return
  <2>1. busy = FALSE /\ UNCHANGED <<busy, std_in_count, readline_active, callback, needs_nl>>
    BY <1>0, <1>2 DEF Return, stdio, lines, com
  <2>2. std_in_count < 0 /\ readline_active = FALSE /\ callback # "cpu"
    BY <2>1, NoneReads
  <2> QED BY <1>0, <2>1, <2>2 DEF Reading
<1>3. CASE ApiTask
  <2>0. /\ reg_op' = reg_op /\ (busy' = FALSE \/ busy' = busy)
        /\ UNCHANGED <<prog, sent, called, is_breaking, seen>>
    BY <1>0, <1>3, TaskReleasesOnly
  <2>1. CASE Latched = "none" /\ UNCHANGED <<regs, stdio, lines, com>>
    <3>1. active_op = "none"
      <4>1. RegsTyped /\ Arguments
        BY DEF ApiSound
      <4> QED BY <4>1, <2>1, LatchedIsCall
    <3>2. active_op' = "none"
      BY <2>1, <1>3 DEF ApiTask, Unlatched
    <3> QED BY <2>0, <2>1, <3>1, <3>2 DEF Reading, regs, stdio, lines, com
  <2>2. CASE Latched = "read" /\ ApiRead
    <3>0. busy = TRUE /\ active_op \in {"none", "read"}
      BY <2>2, LatchIsTheCall
    <3>1. CASE std_in_count >= 0 /\ UNCHANGED <<regs, stdio, lines, com, unread>>
      <4>1. UNCHANGED <<busy, reg_a, xstack, std_in_count, readline_active, needs_nl, callback>>
        BY <3>1 DEF regs, stdio, lines, com
      <4>2. active_op' = "read"
        BY <1>3, <2>2, <3>0, <4>1 DEF ApiTask, Unlatched
      <4> QED BY <2>0, <3>1, <4>1, <4>2 DEF Reading
    <3>2. CASE /\ std_in_count' = None /\ busy' = FALSE /\ readline_active = FALSE
               /\ UNCHANGED <<readline_active, callback>>
      <4>1. ~(std_in_count' >= 0) /\ callback' # "cpu" /\ readline_active' = FALSE
        BY <3>2 DEF None, Reading
      <4> QED BY <3>2, <4>1 DEF Reading
    <3>3. CASE /\ std_in_count < 0 /\ readline_active = FALSE
               /\ std_in_count' = called.n /\ std_in_count' >= 0
               /\ \/ needs_nl = TRUE /\ UNCHANGED <<readline_active, callback, com_buf>>
                  \/ readline_active' = TRUE /\ callback' = "cpu"
               /\ UNCHANGED <<busy, needs_nl>>
      <4>1. active_op' = "read"
        BY <1>3, <2>2, <3>0, <3>3 DEF ApiTask, Unlatched
      <4>2. ~(std_in_count' < 0)
        <5>1. std_in_count' \in Int
          BY LineKept, <1>3, Constants DEF Next, Core0, LineTyped, None
        <5> QED BY <5>1, <3>3
      <4>3. callback # "cpu"
        BY <3>3 DEF Reading
      <4> QED BY <2>0, <3>3, <4>1, <4>2, <4>3 DEF Reading
    <3> QED BY <2>2, <3>1, <3>2, <3>3, ReadIs
  <2>3. CASE Latched \notin {"none", "read"} /\ UNCHANGED <<std_in_count, lines, com>>
    <3>1. reg_op # "read" /\ active_op # "read"
      BY <2>3, LatchIsTheCall
    <3>2. std_in_count < 0 /\ readline_active = FALSE /\ callback # "cpu"
      BY <1>0, <3>1 DEF Reading
    <3> QED BY <1>0, <2>0, <2>3, <3>1, <3>2 DEF Reading, lines, com
  <2> QED BY <1>3, <2>1, <2>2, <2>3 DEF ApiTask, ApiWrite, stdio
<1>4. CASE FirstKey \/ NextKey
  <2>1. LineMoves /\ UNCHANGED <<called, reg_op, busy, reg_a, xstack, active_op, std_in_count>>
    BY <1>4, ComMovesLine DEF regs
  <2>2. CASE UNCHANGED lines /\ callback' \in {"none", callback}
    BY <2>1, <2>2 DEF Reading, lines
  <2>3. CASE callback' = "none" /\ readline_active' = FALSE /\ needs_nl' = TRUE
    BY <2>1, <2>3 DEF Reading
  <2> QED BY <2>1, <2>2, <2>3 DEF LineMoves
<1>5. CASE MonTask
  <2>1. /\ UNCHANGED <<called, reg_op, busy, reg_a, xstack, active_op, std_in_count,
                       readline_active, needs_nl>>
        /\ callback' \in {"mon", callback}
    BY <1>5 DEF MonTask, ReadLine, cpu6502, regs, stdio, lines, com
  <2> QED BY <2>1 DEF Reading
<1>6. CASE Events
  <2>1. CASE busy = TRUE
    <3>1. UNCHANGED <<called, regs, stdio, lines, callback, active_op>>
      BY <1>6, <2>1, PendingCallIsLeft DEF Events
    <3> QED BY <3>1 DEF Reading, regs, stdio, lines
  <2>2. CASE busy = FALSE
    <3>1. std_in_count < 0 /\ readline_active = FALSE /\ callback # "cpu"
      BY <2>2, NoneReads
    <3>2. callback' # "cpu" /\ busy' = FALSE
      BY <1>6, <2>2, <3>1, RunOrStop DEF Events, Run, Stop, regs
    <3>3. UNCHANGED <<stdio, lines>> \/ (std_in_count' = None /\ readline_active' = FALSE)
      BY <1>6, RunOrStop DEF Run, Stop, CpuStop
    <3>4. readline_active' = FALSE
      BY <3>1, <3>3 DEF lines
    <3>5. std_in_count' = std_in_count \/ std_in_count' = None
      BY <3>3 DEF stdio
    <3>6. ~(std_in_count' >= 0)
      BY <1>0, <3>1, <3>5 DEF None
    <3> QED BY <3>2, <3>4, <3>6 DEF Reading
  <2> QED BY <1>0, <2>1, <2>2
<1>7. CASE UNCHANGED <<called, regs, active_op, stdio, lines, callback>>
  BY <1>7 DEF Reading, regs, stdio, lines
<1> QED BY <1>1, <1>2, <1>3, <1>4, <1>5, <1>6, <1>7
   DEF Next, Core0, PressKey, PressEnter, Press, MainTask, ExtTask, Break, cpu6502, com, vars

(***************************************************************************)
(* A line that was entered stays in com_buf until its newline is read: the *)
(* monitor asks for a line only when nothing is left of the program's, and *)
(* a read only asks for a line when the last one is used up.               *)
(***************************************************************************)
Unused(from) == SubSeq(com_buf, from + 1, readline_length) \o <<Enter>>
Keeping ==
  /\ needs_nl = TRUE => /\ callback = "none" /\ readline_active = FALSE
                        /\ readline_length = Len(com_buf) /\ unread = Unused(readline_pos)
  /\ needs_nl = FALSE => readline_pos = readline_length /\ unread = <<>>
  /\ main_state = "stopped" => needs_nl = FALSE
  /\ main_state = "starting" /\ is_breaking = TRUE => needs_nl = FALSE

LEMMA PrefixAndRest ==
  ASSUME NEW S, NEW s \in Seq(S), NEW t \in Seq(S)
  PROVE  /\ SubSeq(s \o t, 1, Len(s)) = s
         /\ SubSeq(s \o t, Len(s) + 1, Len(s \o t)) = t
<1> DEFINE u == s \o t
           v == SubSeq(u, 1, Len(s))
           w == SubSeq(u, Len(s) + 1, Len(u))
<1>1. Len(s) \in Nat /\ Len(t) \in Nat
  OBVIOUS
<1>2. /\ u \in Seq(S) /\ Len(u) = Len(s) + Len(t)
      /\ \A i \in 1 .. Len(s) + Len(t) : u[i] = IF i <= Len(s) THEN s[i] ELSE t[i - Len(s)]
  BY ConcatProperties
<1> HIDE DEF u
<1>3. \A i \in 1 .. Len(u) : u[i] \in S
  BY <1>2, ElementOfSeq
<1>4. /\ v \in Seq(S) /\ Len(v) = IF 1 <= Len(s) THEN Len(s) - 1 + 1 ELSE 0
      /\ \A i \in 1 .. Len(s) - 1 + 1 : v[i] = u[1 + i - 1]
  <2>1. \A i \in 1 .. Len(s) : u[i] \in S
    BY <1>1, <1>2, <1>3
  <2> QED BY <2>1, <1>1, SubSeqProperties
<1>5. /\ w \in Seq(S)
      /\ Len(w) = IF Len(s) + 1 <= Len(u) THEN Len(u) - (Len(s) + 1) + 1 ELSE 0
      /\ \A i \in 1 .. Len(u) - (Len(s) + 1) + 1 : w[i] = u[Len(s) + 1 + i - 1]
  <2>1. \A i \in Len(s) + 1 .. Len(u) : u[i] \in S
    BY <1>1, <1>3
  <2> QED BY <2>1, <1>1, <1>2, SubSeqProperties
<1> HIDE DEF v, w
<1>6. v = s
  <2>1. Len(v) = Len(s)
    BY <1>1, <1>4
  <2>2. ASSUME NEW i \in 1 .. Len(v) PROVE v[i] = s[i]
    <3>1. i \in 1 .. Len(s) - 1 + 1 /\ 1 + i - 1 = i /\ i <= Len(s)
      BY <2>1, <1>1
    <3>2. v[i] = u[i]
      BY <3>1, <1>4
    <3> QED BY <3>1, <3>2, <1>1, <1>2
  <2> QED BY <2>1, <2>2, <1>4, SeqEqual
<1>7. w = t
  <2>1. Len(w) = Len(t)
    BY <1>1, <1>2, <1>5
  <2>2. ASSUME NEW i \in 1 .. Len(w) PROVE w[i] = t[i]
    <3>1. i \in 1 .. Len(u) - (Len(s) + 1) + 1 /\ Len(s) + 1 + i - 1 = Len(s) + i
      BY <2>1, <1>1, <1>2
    <3>2. w[i] = u[Len(s) + i]
      BY <3>1, <1>5
    <3>3. Len(s) + i \in 1 .. Len(s) + Len(t) /\ Len(s) + i > Len(s) /\ Len(s) + i - Len(s) = i
      BY <2>1, <1>1
    <3> QED BY <3>2, <3>3, <1>2
  <2> QED BY <2>1, <2>2, <1>5, SeqEqual
<1> QED BY <1>6, <1>7 DEF u, v, w

LEMMA AdjacentParts ==
  ASSUME NEW S, NEW s \in Seq(S), NEW a \in Nat, NEW b \in Nat, NEW e \in Nat,
         a <= b, b <= e, e <= Len(s)
  PROVE  SubSeq(s, a + 1, b) \o SubSeq(s, b + 1, e) = SubSeq(s, a + 1, e)
<1> DEFINE m == a + 1
<1>1. Len(s) \in Nat
  OBVIOUS
<1>2. m \in 1 .. Len(s) + 1 /\ b \in m - 1 .. Len(s) /\ e \in b .. Len(s)
  BY <1>1
<1> HIDE DEF m
<1>3. SubSeq(s, m, b) \o SubSeq(s, b + 1, e) = SubSeq(s, m, e)
  BY <1>2, ConcatAdjacentSubSeq
<1> QED BY <1>3 DEF m

(* A read of n bytes takes the first of what is unread.                    *)
LEMMA ReadTakesFirst ==
  ASSUME ApiSound, Keeping, needs_nl = TRUE, NEW n \in Nat
  PROVE  /\ Taken(n) = SubSeq(unread, 1, Len(Taken(n)))
         /\ n > 0 => Taken(n) # <<>>
         /\ ReadsNl(n) => /\ readline_pos + Len(Chars(n)) = readline_length
                          /\ SubSeq(unread, Len(Taken(n)) + 1, Len(unread)) = <<>>
         /\ ~ReadsNl(n) => SubSeq(unread, Len(Taken(n)) + 1, Len(unread))
                             = Unused(readline_pos + Len(Chars(n)))
<1>1. /\ LineTyped /\ com_buf \in Seq(Key) /\ unread \in Seq(Key)
      /\ readline_pos \in Nat /\ readline_length \in Nat /\ readline_pos <= readline_length
      /\ readline_length = Len(com_buf) /\ unread = Unused(readline_pos)
  BY Constants DEF ApiSound, LineTyped, Keeping
<1> DEFINE p == readline_pos
           l == readline_length
           c == Len(Chars(n))
<1>2. /\ Chars(n) \in Seq(Key) /\ c \in Nat /\ p + c <= l
      /\ Chars(n) = SubSeq(com_buf, p + 1, p + c)
      /\ p + n <= l => c = n
      /\ p + n >= l => p + c = l
  <2>1. /\ Chars(n) \in Seq(Key) /\ p + c \in 0 .. l
        /\ Chars(n) = SubSeq(com_buf, p + 1, p + c)
        /\ p + n <= l /\ l <= Len(com_buf) => c = n
        /\ p + n >= l /\ l <= Len(com_buf) => p + c = l
    BY <1>1, CharsOfLine
  <2>2. l <= Len(com_buf) /\ c \in Nat
    BY <2>1, <1>1
  <2> QED BY <2>1, <2>2, <1>1
<1>3. <<Enter>> \in Seq(Key)
  BY Constants DEF Enter, Key
<1>4. CASE ReadsNl(n)
  <2>1. p + n > l
    BY <1>4 DEF ReadsNl
  <2>2. p + c = l
    BY <2>1, <1>1, <1>2
  <2>3. Taken(n) = Chars(n) \o <<Enter>>
    BY <1>4 DEF Taken
  <2>4. Taken(n) = unread
    BY <2>2, <2>3, <1>1, <1>2 DEF Unused
  <2>5. Len(Taken(n)) = c + 1 /\ Len(unread) = c + 1
    BY <2>3, <2>4, <1>2, <1>3, ConcatProperties
  <2>6. SubSeq(unread, 1, Len(unread)) = unread
    BY <1>1, SubSeqFull
  <2>7. SubSeq(unread, Len(unread) + 1, Len(unread)) = <<>>
    BY <2>5, <1>2, SubSeqEmpty
  <2>8. Taken(n) # <<>>
    BY <2>5, <1>2
  <2> QED BY <2>2, <2>4, <2>6, <2>7, <2>8, <1>4
<1>5. CASE ~ReadsNl(n)
  <2>1. p + n <= l
    BY <1>1, <1>5 DEF ReadsNl
  <2>2. c = n
    BY <2>1, <1>2
  <2>3. Taken(n) = Chars(n)
    BY <1>2, <1>5, ConcatEmptySeq DEF Taken
  <2> DEFINE B == SubSeq(com_buf, p + c + 1, l)
  <2>4. B \in Seq(Key)
    <3>1. \A i \in p + c + 1 .. l : com_buf[i] \in Key
      BY <1>1, <1>2, ElementOfSeq
    <3> QED BY <3>1, <1>1, <1>2, SubSeqProperties
  <2>5. SubSeq(com_buf, p + 1, p + c) \o SubSeq(com_buf, (p + c) + 1, l) = SubSeq(com_buf, p + 1, l)
    <3>1. p \in Nat /\ p + c \in Nat /\ l \in Nat /\ p <= p + c /\ p + c <= l /\ l <= Len(com_buf)
      BY <1>1, <1>2
    <3> QED BY <3>1, <1>1, AdjacentParts, ZenonT(60)
  <2>6. SubSeq(com_buf, p + 1, l) = Chars(n) \o B
    BY <2>5, <1>2
  <2> HIDE DEF B
  <2>7. \A s, t, u \in Seq(Key) : (s \o t) \o u = s \o (t \o u)
    BY ConcatAssociative, SMTT(60)
  <2>8. unread = Chars(n) \o (B \o <<Enter>>)
    <3>1. unread = SubSeq(com_buf, p + 1, l) \o <<Enter>>
      BY <1>1 DEF Unused
    <3>2. (Chars(n) \o B) \o <<Enter>> = Chars(n) \o (B \o <<Enter>>)
      BY <2>4, <2>7, <1>2, <1>3
    <3> QED BY <2>6, <3>1, <3>2
  <2>9. B \o <<Enter>> \in Seq(Key)
    BY <2>4, <1>3, ConcatProperties
  <2>10. /\ SubSeq(unread, 1, c) = Chars(n)
         /\ SubSeq(unread, c + 1, Len(unread)) = B \o <<Enter>>
    BY <2>8, <2>9, <1>2, PrefixAndRest
  <2>11. n > 0 => Taken(n) # <<>>
    <3>1. Len(Taken(n)) = n
      BY <2>2, <2>3
    <3> QED BY <3>1
  <2> QED BY <2>3, <2>10, <2>11, <1>5 DEF B, Unused
<1> QED BY <1>4, <1>5

LEMMA KeepingUnchanged ==
  ASSUME Keeping, UNCHANGED <<lines, unread>>,
         UNCHANGED <<callback, com_buf>> \/ (needs_nl = FALSE /\ readline_pos = readline_length),
         main_state' = "stopped" => needs_nl = FALSE,
         main_state' = "starting" /\ is_breaking' = TRUE => needs_nl = FALSE
  PROVE  Keeping'
<1>1. UNCHANGED <<readline_active, needs_nl, readline_pos, readline_length, unread>>
  BY DEF lines
<1>2. CASE UNCHANGED <<callback, com_buf>>
  <2>1. Unused(readline_pos)' = Unused(readline_pos)
    BY <1>1, <1>2 DEF Unused
  <2> QED BY <1>1, <1>2, <2>1 DEF Keeping
<1>3. CASE needs_nl = FALSE /\ readline_pos = readline_length
  BY <1>1, <1>3 DEF Keeping
<1> QED BY <1>2, <1>3

LEMMA TaskKeeps ==
  ASSUME ApiSound, Calling, Reading, Keeping, ApiTask
  PROVE  Keeping'
<1>0. needs_nl \in BOOLEAN /\ is_breaking \in BOOLEAN /\ busy \in BOOLEAN
  BY FlagsAreBoolean
<1>1. is_breaking' = is_breaking
  BY <1>0, TaskReleasesOnly
<1>2. CASE UNCHANGED <<lines, com, unread>>
  <2>1. main_state' = "stopped" => main_state = "stopped"
    BY DEF ApiTask, ApiBoot
  <2>2. main_state' = main_state \/ is_breaking = FALSE
    <3>1. CASE Latched = "none"
      BY <3>1 DEF ApiTask
    <3>2. CASE Latched # "none"
      BY <3>2, LatchIsTheCall DEF Calling
    <3> QED BY <3>1, <3>2
  <2>3. main_state' = "starting" /\ is_breaking' = TRUE => needs_nl = FALSE
    BY <1>1, <2>2 DEF Keeping
  <2>4. main_state' = "stopped" => needs_nl = FALSE
    BY <2>1 DEF Keeping
  <2>5. UNCHANGED <<lines, unread>> /\ UNCHANGED <<callback, com_buf>>
    BY <1>2 DEF com
  <2> QED BY <2>3, <2>4, <2>5, KeepingUnchanged
<1>3. CASE Latched = "read" /\ ApiRead /\ UNCHANGED main_state
  <2>1. main_state = "running"
    BY <1>3, LatchIsTheCall DEF Calling
  <2>2. CASE UNCHANGED <<regs, stdio, lines, com, unread>>
    BY <2>2, <1>2
  <2>3. CASE /\ std_in_count >= 0 /\ readline_active = FALSE /\ needs_nl = TRUE
             /\ xstack' = Taken(std_in_count)
             /\ readline_pos' = readline_pos + Len(Chars(std_in_count))
             /\ needs_nl' = (needs_nl /\ ~ReadsNl(std_in_count))
             /\ unread' = SubSeq(unread, Len(xstack') + 1, Len(unread))
             /\ UNCHANGED <<reg_op, readline_active, readline_length, callback, com_buf>>
    <3>1. std_in_count \in Nat
      BY <2>3, Constants DEF ApiSound, LineTyped, None
    <3>2. callback = "none" /\ readline_length = Len(com_buf)
      BY <2>3 DEF Keeping
    <3>3. CASE ReadsNl(std_in_count)
      <4>1. needs_nl' = FALSE
        BY <2>3, <3>3
      <4>2. readline_pos' = readline_length' /\ unread' = <<>>
        BY <2>3, <3>1, <3>3, ReadTakesFirst
      <4> QED BY <4>1, <4>2 DEF Keeping
    <3>4. CASE ~ReadsNl(std_in_count)
      <4>1. needs_nl' = TRUE
        BY <2>3, <3>4
      <4>2. unread' = Unused(readline_pos + Len(Chars(std_in_count)))
        BY <2>3, <3>1, <3>4, ReadTakesFirst
      <4>3. Unused(readline_pos)' = Unused(readline_pos + Len(Chars(std_in_count)))
        BY <2>3 DEF Unused
      <4>4. main_state' = "running"
        BY <2>1, <1>3
      <4> QED BY <2>3, <3>2, <4>1, <4>2, <4>3, <4>4 DEF Keeping
    <3> QED BY <3>3, <3>4
  <2>4. CASE /\ needs_nl = TRUE /\ UNCHANGED <<readline_active, callback, com_buf>>
             /\ UNCHANGED <<needs_nl, readline_pos, readline_length, unread>>
    BY <2>4, <1>2 DEF lines, com
  <2>5. CASE /\ needs_nl = FALSE
             /\ UNCHANGED <<needs_nl, readline_pos, readline_length, unread>>
    BY <2>5, <1>3, <2>1 DEF Keeping
  <2> QED BY <1>3, <2>2, <2>3, <2>4, <2>5, ReadIs
<1> QED BY <1>2, <1>3 DEF ApiTask

LEMMA KeepingKept ==
  ASSUME Breaks = "calm", ApiSound, Calling, Reading, Keeping, [Next]_vars
  PROVE  Keeping'
<1>0. needs_nl \in BOOLEAN /\ is_breaking \in BOOLEAN /\ busy \in BOOLEAN /\ readline_active \in BOOLEAN
  BY FlagsAreBoolean
<1>1. CASE ApiTask
  BY <1>1, TaskKeeps
<1>2. CASE FirstKey \/ NextKey
  <2>1. LineMoves /\ UNCHANGED <<main_state, is_breaking>>
    BY <1>2, ComMovesLine
  <2>2. CASE /\ callback = "cpu" /\ callback' = "none" /\ com_buf' = com_buf
             /\ readline_active' = FALSE /\ needs_nl' = TRUE /\ readline_pos' = 0
             /\ readline_length' = Len(com_buf) /\ unread' = unread \o com_buf \o <<Enter>>
    <3>1. main_state' = "running"
      BY <2>1, <2>2, LineIsForPending DEF Reading
    <3>2. needs_nl = FALSE
      BY <1>0, <2>2 DEF Keeping
    <3>3. unread = <<>> /\ com_buf \in Seq(Key)
      BY <3>2 DEF Keeping, ApiSound, LineTyped
    <3>4. unread' = com_buf \o <<Enter>>
      BY <2>2, <3>3, ConcatEmptySeq
    <3>5. SubSeq(com_buf, 1, Len(com_buf)) = com_buf
      BY <3>3, SubSeqFull
    <3>6. Unused(readline_pos)' = unread'
      <4>1. Unused(readline_pos)' = SubSeq(com_buf, 0 + 1, Len(com_buf)) \o <<Enter>>
        BY <2>2 DEF Unused
      <4>2. 0 + 1 = 1
        OBVIOUS
      <4> QED BY <3>4, <3>5, <4>1, <4>2
    <3> QED BY <2>2, <3>1, <3>6 DEF Keeping
  <2>3. CASE /\ callback # "none" /\ UNCHANGED <<lines, unread>>
    <3>1. needs_nl = FALSE
      BY <1>0, <2>3 DEF Keeping
    <3>2. readline_pos = readline_length
      BY <3>1 DEF Keeping
    <3> QED BY <2>3, <3>1, <3>2, KeepingUnchanged
  <2>4. CASE UNCHANGED <<callback, com_buf, lines, unread>>
    BY <2>1, <2>4, KeepingUnchanged DEF Keeping
  <2> QED BY <2>1, <2>2, <2>3, <2>4 DEF LineMoves
<1>3. CASE MonTask
  <2>1. UNCHANGED <<lines, unread, main_state, is_breaking>>
    BY <1>3 DEF MonTask, kernel
  <2>2. CASE main_state = "stopped"
    <3>1. needs_nl = FALSE
      BY <2>2 DEF Keeping
    <3>2. readline_pos = readline_length
      BY <3>1 DEF Keeping
    <3> QED BY <2>1, <3>1, <3>2, KeepingUnchanged
  <2>3. CASE main_state # "stopped"
    <3>1. UNCHANGED <<callback, com_buf>>
      BY <1>3, <2>3 DEF MonTask, Suspended, com
    <3> QED BY <2>1, <3>1, KeepingUnchanged DEF Keeping
  <2> QED BY <2>2, <2>3
<1>4. CASE ExtTask
  <2>1. UNCHANGED <<lines, unread, callback, com_buf, is_breaking>>
    BY <1>4 DEF ExtTask, com
  <2>2. main_state' = main_state \/ main_state = "stopped"
    BY <1>4 DEF ExtTask
  <2>3. main_state' = "stopped" => needs_nl = FALSE
    BY <2>2 DEF Keeping
  <2>4. main_state' = "starting" /\ is_breaking' = TRUE => needs_nl = FALSE
    BY <2>1, <2>2 DEF Keeping
  <2> QED BY <2>1, <2>3, <2>4, KeepingUnchanged
<1>5. CASE Break
  <2>1. /\ UNCHANGED <<lines, unread, callback, com_buf, main_state>>
        /\ main_state \in {"stopped", "running"}
    BY <1>5 DEF Break, com
  <2>2. main_state' # "starting" /\ (main_state' = "stopped" => needs_nl = FALSE)
    BY <2>1 DEF Keeping
  <2> QED BY <2>1, <2>2, KeepingUnchanged
<1>6. CASE Events
  <2>1. is_breaking' = FALSE /\ com_buf' = com_buf /\ (callback' = "none" \/ callback' = callback)
    BY <1>6 DEF Events
  <2>2. CASE Stop
    <3>1. main_state' = "stopped" /\ needs_nl' = FALSE /\ readline_pos' = 0
          /\ readline_length' = 0 /\ unread' = <<>>
      BY <2>2 DEF Stop, CpuStop
    <3> QED BY <2>1, <3>1 DEF Keeping
  <2>3. CASE ~Stop
    <3>1. UNCHANGED <<lines, unread>>
      BY <1>6, <2>3, RunOrStop DEF Run
    <3>2. main_state' = "stopped" => needs_nl = FALSE
      <4>1. main_state' = "running" \/ main_state' = AfterBreak
        BY <1>6, <2>3, RunOrStop DEF Run
      <4>2. AfterBreak = "stopped" => main_state = "stopped" \/ (main_state = "starting" /\ is_breaking)
        BY DEF AfterBreak
      <4> QED BY <1>0, <4>1, <4>2 DEF Keeping
    <3>3. UNCHANGED <<callback, com_buf>> \/ (needs_nl = FALSE /\ readline_pos = readline_length)
      <4>1. CASE needs_nl = TRUE
        BY <2>1, <4>1 DEF Keeping
      <4>2. CASE needs_nl = FALSE
        BY <4>2 DEF Keeping
      <4> QED BY <1>0, <4>1, <4>2
    <3>4. main_state' = "starting" /\ is_breaking' = TRUE => needs_nl = FALSE
      BY <2>1
    <3> QED BY <3>1, <3>2, <3>3, <3>4, KeepingUnchanged
  <2> QED BY <2>2, <2>3
<1>7. CASE UNCHANGED <<lines, unread, callback, com_buf, main_state, is_breaking>>
  BY <1>7, KeepingUnchanged DEF Keeping
<1> QED BY <1>1, <1>2, <1>3, <1>4, <1>5, <1>6, <1>7
   DEF Next, Core0, Call, Return, PressKey, PressEnter, Press, MainTask, com, kernel, vars

LEMMA KeepsWhatIsRead ==
  ASSUME ApiSound, Keeping
  PROVE  ReadsTheLine
<1>0. needs_nl \in BOOLEAN /\ LineMax + 1 \in Nat
  BY FlagsAreBoolean, Constants
<1>1. CASE needs_nl = TRUE
  <2> DEFINE n == LineMax + 1
  <2>1. ReadsNl(n)
    BY <1>1, Constants DEF ReadsNl, ApiSound, LineTyped
  <2>2. /\ Taken(n) = SubSeq(unread, 1, Len(Taken(n)))
        /\ readline_pos + Len(Chars(n)) = readline_length
    BY <1>0, <1>1, <2>1, ReadTakesFirst
  <2>3. Chars(n) = SubSeq(com_buf, readline_pos + 1, readline_length)
    <3>1. Chars(n) = SubSeq(com_buf, readline_pos + 1, readline_pos + Len(Chars(n)))
      BY <1>0, CharsOfLine DEF ApiSound
    <3> QED BY <2>2, <3>1
  <2>4. Taken(n) = unread
    BY <1>1, <2>1, <2>3 DEF Taken, Keeping, Unused
  <2> QED BY <2>4 DEF ReadsTheLine
<1>2. CASE needs_nl = FALSE
  <2> DEFINE n == LineMax + 1
  <2>1. readline_pos = readline_length /\ unread = <<>>
    BY <1>2 DEF Keeping
  <2>2. Len(Chars(n)) = 0 /\ Chars(n) \in Seq(Key)
    <3>1. readline_pos + Len(Chars(n)) \in 0 .. readline_length /\ Chars(n) \in Seq(Key)
      BY <1>0, CharsOfLine DEF ApiSound
    <3> QED BY <2>1, <3>1, Constants DEF ApiSound, LineTyped
  <2>3. Chars(n) = <<>>
    BY <2>2, EmptySeq
  <2>4. Taken(n) = <<>>
    BY <1>2, <2>3 DEF Taken, ReadsNl
  <2> QED BY <2>1, <2>4 DEF ReadsTheLine
<1> QED BY <1>0, <1>1, <1>2

LEMMA CalmAtFirst == Init => Calling /\ Reading /\ Keeping
<1> SUFFICES ASSUME Init PROVE Calling /\ Reading /\ Keeping
  OBVIOUS
<1>1. /\ busy = FALSE /\ prog = "reset" /\ active_op = "none" /\ std_in_count = None
      /\ callback = "none" /\ readline_active = FALSE /\ needs_nl = FALSE
      /\ readline_pos = 0 /\ readline_length = 0 /\ unread = <<>>
  BY DEF Init
<1> QED BY <1>1 DEF Calling, Reading, Keeping, None

(* If breaks come between the calls of a program, its reads give it what   *)
(* was typed for them, and no byte twice or of another's line              *)
(* (cpu.c:237-273, com.c:400-412).                                         *)
THEOREM LinesAreRead ==
  ASSUME Breaks = "calm"
  PROVE  Spec => []ReadsTheLine
<1> DEFINE I == Calling /\ Reading /\ Keeping
<1>1. Init => I
  BY CalmAtFirst
<1>2. ApiSound /\ I /\ [Next]_vars => I'
  BY CallingKept, ReadingKept, KeepingKept
<1>3. ApiSound /\ I => ReadsTheLine
  BY KeepsWhatIsRead
<1> HIDE DEF I
<1> QED BY <1>1, <1>2, <1>3, SoundAlways, PTL DEF Spec

(***************************************************************************)
(* A write that has begun has its bytes in the stream; one that has not    *)
(* still has them all on the stack.                                        *)
(***************************************************************************)
CallsBytes == sent - called.n + 1 .. sent
Writing ==
  /\ std_xram_count >= 0 => active_op = "write" /\ CallsBytes \subseteq Range(Stream)
  /\ busy = TRUE /\ reg_op = "write" /\ std_xram_count < 0 =>
       /\ reg_a = 1 /\ called.n \in Nat
       /\ xstack = [i \in 1 .. called.n |-> sent - called.n + i]

LEMMA StackHoldsBytes ==
  ASSUME sent \in Nat, called.n \in Nat, xstack = [i \in 1 .. called.n |-> sent - called.n + i]
  PROVE  CallsBytes \subseteq Range(xstack)
<1> SUFFICES ASSUME NEW b \in CallsBytes PROVE b \in Range(xstack)
  OBVIOUS
<1>1. b - (sent - called.n) \in 1 .. called.n
  BY DEF CallsBytes
<1>2. xstack[b - (sent - called.n)] = b
  BY <1>1 DEF CallsBytes
<1> QED BY <1>1, <1>2 DEF Range

LEMMA WriteIs ==
  ASSUME ApiSound, Calling, Writing, ApiTask, Latched = "write", ApiWrite
  PROVE  /\ CallsBytes \subseteq Range(Stream') /\ sent' = sent /\ called' = called
         /\ std_xram_count' < 0 <=> out_rest' = <<>>
         /\ out_rest' = <<>> => busy' = FALSE
         /\ out_rest' # <<>> => busy' = TRUE /\ active_op' = "write"
<1>0. /\ busy \in BOOLEAN /\ OutTyped /\ LeftOver /\ OutTyped' /\ LeftOver' /\ RegsTyped /\ Arguments
      /\ std_xram_count \in Int
  BY OutKept, FlagsAreBoolean, Constants DEF Next, Core0, ApiSound, OutTyped, None
<1>1. /\ busy = TRUE /\ reg_op = "write"
  BY LatchIsTheCall
<1>2. sent' = sent /\ called' = called /\ sent \in Nat
  BY <1>0, TaskReleasesOnly, Constants DEF ApiSound, KernelTyped
<1>3. (std_xram_count' < 0 <=> out_rest' = <<>>)
  BY <1>0 DEF LeftOver
<1>4. busy' = TRUE => active_op' = "write"
  BY DEF ApiTask, Unlatched
<1>5. CASE std_xram_count >= 0 /\ OutWrite(out_rest)
  <2>1. out_rest \in Seq(1 .. MaxBytes) /\ Len(out_rest) <= MaxCount
    BY <1>0 DEF OutTyped, LeftOver
  <2>2. (out_rest' # <<>> => busy' = busy) /\ (out_rest' = <<>> => busy' = FALSE)
    BY <1>0, <1>5, <2>1, OutWriteSplits
  <2>3. Stream' = Stream
    <3>1. ~(std_xram_count < 0) /\ ~Events
      BY <1>0, <1>5 DEF ApiTask, Events
    <3> QED BY <3>1, StreamMoves DEF Next, Core0
  <2>4. CallsBytes \subseteq Range(Stream')
    BY <1>5, <2>3 DEF Writing
  <2> QED BY <1>1, <1>2, <1>3, <1>4, <2>2, <2>4
<1>6. CASE /\ std_xram_count < 0 /\ reg_a \in {1, 2} /\ xstack' = <<>> /\ OutWrite(xstack)
  <2>1. xstack \in Seq(1 .. MaxBytes) /\ Len(xstack) <= MaxCount
    BY <1>1, <1>6 DEF ApiSound, Arguments
  <2>2. (out_rest' # <<>> => busy' = busy) /\ (out_rest' = <<>> => busy' = FALSE)
    BY <1>0, <1>6, <2>1, OutWriteSplits
  <2>4. CallsBytes \subseteq Range(xstack)
    BY <1>1, <1>2, <1>6, StackHoldsBytes DEF Writing
  <2>5. Stream' = Stream \o xstack
    BY <1>6, WriteBegins
  <2>6. Range(Stream \o xstack) = Range(Stream) \cup Range(xstack)
    <3>1. Stream \in Seq(Nat) /\ xstack \in Seq(Nat)
      BY <1>0, StreamIsTyped DEF RegsTyped
    <3> QED BY <3>1, RangeConcatenation
  <2>7. CallsBytes \subseteq Range(Stream')
    BY <2>4, <2>5, <2>6
  <2> QED BY <1>1, <1>2, <1>3, <1>4, <2>2, <2>7
<1>7. CASE std_xram_count < 0 /\ reg_a \notin {1, 2}
  BY <1>1, <1>7 DEF Writing
<1> QED BY <1>5, <1>6, <1>7 DEF ApiWrite

LEMMA WritingKept ==
  ASSUME Breaks = "calm", ApiSound, Calling, Writing, [Next]_vars
  PROVE  Writing'
<1>0. /\ busy \in BOOLEAN /\ std_xram_count \in Int /\ std_xram_count' \in Int
      /\ (std_xram_count' < 0 <=> out_rest' = <<>>)
  BY OutKept, FlagsAreBoolean, Constants DEF ApiSound, OutTyped, LeftOver, None
<1>1. ASSUME busy' = FALSE, std_xram_count' < 0 PROVE Writing'
  BY <1>0, <1>1 DEF Writing
<1>2. busy = FALSE => active_op = "none" /\ std_xram_count < 0
  BY <1>0 DEF Calling, Writing
<1>3. ASSUME UNCHANGED <<std_xram_count, active_op, sent, called, busy, reg_op, reg_a, xstack>>,
             Stream' = Stream
      PROVE  Writing'
  <2>1. CallsBytes' = CallsBytes
    BY <1>3 DEF CallsBytes
  <2> QED BY <1>3, <2>1 DEF Writing
<1>4. CASE Call
  <2>1. busy = FALSE /\ UNCHANGED std_xram_count
    BY <1>0, <1>4 DEF Call, Calling, stdio
  <2>2. reg_op' = "write" => /\ reg_a' = 1 /\ called'.n \in Nat
                             /\ xstack' = [i \in 1 .. called'.n |-> sent' - called'.n + i]
    <3>1. PICK op \in Ops, n \in 0 .. MaxCount :
            /\ xstack' = CASE op = "read"  -> <<n>>
                           [] op = "write" -> [i \in 1 .. n |-> sent + i]
                           [] OTHER        -> <<>>
            /\ reg_a' = IF op = "write" THEN 1 ELSE 0
            /\ sent' = IF op = "write" THEN sent + n ELSE sent
            /\ reg_op' = op /\ called' = [op |-> op, n |-> n]
      BY <1>4 DEF Call
    <3>2. CASE op = "write"
      <4>1. xstack' = [i \in 1 .. n |-> sent + i] /\ reg_a' = 1 /\ sent' = sent + n
            /\ called'.n = n
        BY <3>1, <3>2
      <4>2. n \in Nat /\ sent \in Nat
        BY Constants DEF ApiSound, KernelTyped
      <4>3. \A i \in 1 .. n : sent + i = sent' - n + i
        BY <4>1, <4>2
      <4> QED BY <4>1, <4>2, <4>3
    <3> QED BY <3>1, <3>2
  <2> QED BY <1>0, <1>2, <2>1, <2>2 DEF Writing
<1>5. CASE Return
  <2>1. busy = FALSE /\ UNCHANGED <<busy, std_xram_count>>
    BY <1>0, <1>5 DEF Return, stdio
  <2> QED BY <1>1, <1>2, <2>1
<1>6. CASE ApiTask
  <2>0. /\ reg_op' = reg_op /\ (busy' = FALSE \/ busy' = busy) /\ UNCHANGED <<sent, called>>
    BY <1>0, <1>6, TaskReleasesOnly
  <2>1. CASE Latched = "write" /\ ApiWrite
    <3>1. CASE out_rest' = <<>>
      BY <1>0, <1>1, <1>6, <2>1, <3>1, WriteIs
    <3>2. CASE out_rest' # <<>>
      <4>1. ~(std_xram_count' < 0) /\ active_op' = "write" /\ CallsBytes \subseteq Range(Stream')
        BY <1>0, <1>6, <2>1, <3>2, WriteIs
      <4>2. CallsBytes' = CallsBytes
        BY <2>0 DEF CallsBytes
      <4> QED BY <4>1, <4>2 DEF Writing
    <3> QED BY <3>1, <3>2
  <2>2. CASE Latched = "none" /\ UNCHANGED <<regs, stdio, std_out>>
    <3>1. active_op = "none"
      <4>1. RegsTyped /\ Arguments
        BY DEF ApiSound
      <4> QED BY <4>1, <2>2, LatchedIsCall
    <3>2. std_xram_count < 0
      BY <1>0, <3>1 DEF Writing
    <3>3. UNCHANGED <<busy, reg_op, reg_a, xstack, std_xram_count, sent, called>>
      BY <2>0, <2>2 DEF regs, stdio
    <3> QED BY <1>0, <3>2, <3>3 DEF Writing
  <2>3. CASE Latched \notin {"none", "write"} /\ std_xram_count' = std_xram_count
    <3>1. reg_op # "write" /\ active_op # "write"
      BY <2>3, LatchIsTheCall
    <3>2. std_xram_count < 0
      BY <1>0, <3>1 DEF Writing
    <3> QED BY <1>0, <2>0, <2>3, <3>1, <3>2 DEF Writing
  <2> QED BY <1>6, <2>1, <2>2, <2>3 DEF ApiTask, ApiRead, stdio
<1>7. CASE MainTask
  <2>1. UNCHANGED <<std_xram_count, active_op, sent, called, busy, reg_op, reg_a, xstack>>
    BY <1>7 DEF MainTask, regs, stdio
  <2>2. Stream' = Stream
    <3>1. ~Events /\ ~ApiTask
      BY <1>7 DEF MainTask, Events, ApiTask
    <3> QED BY <3>1, StreamMoves
  <2> QED BY <1>3, <2>1, <2>2
<1>8. CASE Events
  <2>1. UNCHANGED <<sent, active_op, std_out, out>>
    BY <1>8 DEF Events
  <2>2. CASE busy = TRUE
    <3>1. UNCHANGED <<called, regs, stdio>>
      BY <1>8, <2>2, PendingCallIsLeft
    <3>2. UNCHANGED <<std_xram_count, busy, reg_op, reg_a, xstack, called>> /\ Stream' = Stream
      BY <2>1, <3>1 DEF Stream, regs, stdio
    <3> QED BY <1>3, <2>1, <3>2
  <2>3. CASE busy = FALSE
    <3>1. busy' = FALSE
      BY <1>8, <2>3, RunOrStop DEF Run, Stop, regs
    <3>2. std_xram_count' = std_xram_count \/ std_xram_count' = None
      BY <1>8, RunOrStop DEF Run, Stop, stdio
    <3>3. std_xram_count' < 0
      BY <1>2, <2>3, <3>2 DEF None
    <3> QED BY <1>1, <3>1, <3>3
  <2> QED BY <1>0, <2>2, <2>3
<1>9. CASE UNCHANGED <<sent, called, regs, active_op, stdio, std_out, out>>
  BY <1>3, <1>9 DEF Stream, regs, stdio
<1> QED BY <1>4, <1>5, <1>6, <1>7, <1>8, <1>9
   DEF Next, Core0, PressKey, PressEnter, Press, FirstKey, NextKey, MonTask, ExtTask, Break,
   cpu6502, vars

LEMMA WritingAtFirst == Init => Writing
BY DEF Init, Writing, None

LEMMA CallIsAnswered ==
  ASSUME Breaks = "calm", ApiSound, Calling, Reading, Keeping, Writing, [Next]_vars,
         busy, ~busy', prog = "wait"
  PROVE  /\ turn = "api" => served' = called.op
         /\ served' = "read" =>
              /\ xstack' = SubSeq(unread, 1, Len(xstack'))
              /\ Len(xstack') <= called.n /\ (called.n > 0 => xstack' # <<>>)
         /\ served' = "write" => CallsBytes \subseteq Range(out' \o std_out')
<1>0. busy = TRUE /\ busy' # TRUE
  BY FlagsAreBoolean
<1>1. ApiTask /\ Latched # "none"
  <2>1. ~(UNCHANGED <<regs, active_op, served>>) /\ ~Call /\ ~Return /\ ~Events
    BY <1>0, PendingCallIsLeft DEF regs, Call, Return
  <2>2. ApiTask
    BY <2>1, WhoChangesRegs
  <2>3. Latched # "none"
    BY <1>0, <2>2 DEF ApiTask, regs
  <2> QED BY <2>2, <2>3
<1>2. served' = Latched
  BY <1>0, <1>1 DEF ApiTask
<1>3. Latched = called.op
  BY <1>1, LatchIsTheCall DEF Calling
<1>4. CASE Latched = "read"
  <2>1. ApiRead
    BY <1>1, <1>4 DEF ApiTask
  <2>2. /\ std_in_count >= 0 /\ needs_nl = TRUE /\ xstack' = Taken(std_in_count)
    BY <1>0, <1>4, <2>1, ReadIs DEF regs
  <2>3. std_in_count \in Nat /\ std_in_count = called.n
    BY <2>2, Constants DEF Reading, ApiSound, LineTyped, None
  <2>4. /\ xstack' = SubSeq(unread, 1, Len(xstack'))
        /\ std_in_count > 0 => xstack' # <<>>
    BY <2>2, <2>3, ReadTakesFirst
  <2>5. Len(xstack') <= std_in_count
    BY <2>2, <2>3, TakenOfLine DEF ApiSound
  <2> QED BY <1>2, <1>3, <1>4, <2>3, <2>4, <2>5
<1>5. CASE Latched = "write"
  <2>1. ApiWrite
    BY <1>1, <1>5 DEF ApiTask
  <2>2. CallsBytes \subseteq Range(Stream') /\ out_rest' = <<>>
    BY <1>0, <1>1, <1>5, <2>1, WriteIs
  <2>3. Stream' = out' \o std_out'
    <3>1. OutTyped'
      BY OutKept
    <3>2. /\ out' \in Seq(Nat) /\ std_out' \in Seq(Nat)
          /\ Stream' = out' \o (std_out' \o out_rest')
      BY <3>1, NextStream
    <3> QED BY <2>2, <3>2, ConcatEmptySeq
  <2> QED BY <1>2, <1>3, <1>5, <2>2, <2>3
<1>6. CASE Latched \notin {"read", "write"}
  BY <1>2, <1>3, <1>6
<1> QED BY <1>4, <1>5, <1>6

(* If breaks come between the calls of a program, each call is answered by *)
(* its own handler and in full: a read with the next bytes of the line, a  *)
(* write when none of its bytes is left in the program (api.c:12-28,       *)
(* std.c:159-216, std.c:286-334).                                          *)
THEOREM CallsAreAnswered ==
  ASSUME Breaks = "calm"
  PROVE  Spec => Answers
<1> DEFINE I == Calling /\ Reading /\ Keeping /\ Writing
           A == Answered =>
                  /\ turn = "api" => served' = called.op
                  /\ served' = "read" =>
                       /\ xstack' = SubSeq(unread, 1, Len(xstack'))
                       /\ Len(xstack') <= called.n /\ (called.n > 0 => xstack' # <<>>)
                  /\ served' = "write" =>
                       sent - called.n + 1 .. sent \subseteq Range(out' \o std_out')
<1>1. Init => I
  BY CalmAtFirst, WritingAtFirst
<1>2. ApiSound /\ I /\ [Next]_vars => I'
  BY CallingKept, ReadingKept, KeepingKept, WritingKept
<1>3. ApiSound /\ I /\ [Next]_vars => A
  BY CallIsAnswered DEF Answered, CallsBytes
<1>4. ApiSound /\ I /\ [Next]_vars => [A]_vars
  BY <1>3
<1>5. Answers <=> [][A]_vars
  BY PTL DEF Answers
<1> HIDE DEF I, A
<1> QED BY <1>1, <1>2, <1>4, <1>5, SoundAlways, PTL DEF Spec

(***************************************************************************)
(* Typing.  Keys carry their numbers, so that one is before another if its *)
(* number is smaller; ENTER has no place of its own.                       *)
(***************************************************************************)
Before(s, t) == \A i \in DOMAIN s, j \in DOMAIN t : t[j] = Enter \/ s[i] < t[j]
InTurn(s) == \A i, j \in DOMAIN s : i < j => s[j] = Enter \/ s[i] < s[j]

LEMMA NothingBefore ==
  ASSUME NEW s \in Seq(Key), NEW n \in Int
  PROVE  Before(s, <<>>) /\ Before(<<>>, s) /\ InTurn(<<>>) /\ UpTo(<<>>, n)
BY DEF Before, InTurn, UpTo

LEMMA PartsBefore ==
  ASSUME NEW s \in Seq(Key), NEW t \in Seq(Key), t # <<>>
  PROVE  /\ Before(s, t) => Before(s, <<Head(t)>>) /\ Before(s, Tail(t))
         /\ Before(t, s) => Before(<<Head(t)>>, s) /\ Before(Tail(t), s)
<1>1. /\ Head(t) = t[1] /\ 1 \in DOMAIN t
      /\ \A i \in DOMAIN Tail(t) : Tail(t)[i] = t[i + 1] /\ i + 1 \in DOMAIN t
  <2>1. Len(Tail(t)) = Len(t) - 1 /\ Len(t) \in Nat \ {0} /\ Tail(t) \in Seq(Key)
        /\ \A i \in 1 .. Len(Tail(t)) : Tail(t)[i] = t[i + 1]
    BY HeadTailProperties, EmptySeq
  <2>2. DOMAIN Tail(t) = 1 .. Len(Tail(t)) /\ DOMAIN t = 1 .. Len(t)
    BY <2>1, LenProperties
  <2> QED BY <2>1, <2>2
<1>2. DOMAIN <<Head(t)>> = {1} /\ <<Head(t)>>[1] = t[1]
  BY <1>1
<1>3. ASSUME Before(s, t) PROVE Before(s, <<Head(t)>>)
  BY <1>1, <1>2, <1>3 DEF Before
<1>4. ASSUME Before(s, t) PROVE Before(s, Tail(t))
  BY <1>1, <1>4 DEF Before
<1>5. ASSUME Before(t, s) PROVE Before(<<Head(t)>>, s)
  BY <1>1, <1>2, <1>5 DEF Before
<1>6. ASSUME Before(t, s) PROVE Before(Tail(t), s)
  BY <1>1, <1>6 DEF Before
<1> QED BY <1>3, <1>4, <1>5, <1>6

LEMMA PartsInTurn ==
  ASSUME NEW t \in Seq(Key), t # <<>>
  PROVE  /\ InTurn(t) => InTurn(Tail(t)) /\ Before(<<Head(t)>>, Tail(t))
         /\ \A n \in Int : UpTo(t, n) => UpTo(<<Head(t)>>, n) /\ UpTo(Tail(t), n)
<1>1. /\ Head(t) = t[1] /\ 1 \in DOMAIN t /\ DOMAIN t \subseteq Nat /\ DOMAIN Tail(t) \subseteq Nat
      /\ \A i \in DOMAIN Tail(t) : Tail(t)[i] = t[i + 1] /\ i + 1 \in DOMAIN t /\ 1 < i + 1
  <2>1. Len(Tail(t)) = Len(t) - 1 /\ Len(t) \in Nat \ {0} /\ Tail(t) \in Seq(Key)
        /\ \A i \in 1 .. Len(Tail(t)) : Tail(t)[i] = t[i + 1]
    BY HeadTailProperties, EmptySeq
  <2>2. DOMAIN Tail(t) = 1 .. Len(Tail(t)) /\ DOMAIN t = 1 .. Len(t)
    BY <2>1, LenProperties
  <2> QED BY <2>1, <2>2
<1>2. DOMAIN <<Head(t)>> = {1} /\ <<Head(t)>>[1] = t[1]
  BY <1>1
<1>3. ASSUME InTurn(t) PROVE InTurn(Tail(t))
  <2>1. ASSUME NEW i \in DOMAIN Tail(t), NEW j \in DOMAIN Tail(t), i < j
        PROVE  Tail(t)[j] = Enter \/ Tail(t)[i] < Tail(t)[j]
    <3>1. i + 1 < j + 1 /\ i + 1 \in DOMAIN t /\ j + 1 \in DOMAIN t
      BY <1>1, <2>1
    <3> QED BY <1>1, <1>3, <3>1 DEF InTurn
  <2> QED BY <2>1 DEF InTurn
<1>4. ASSUME InTurn(t) PROVE Before(<<Head(t)>>, Tail(t))
  BY <1>1, <1>2, <1>4 DEF InTurn, Before
<1>5. ASSUME NEW n \in Int, UpTo(t, n) PROVE UpTo(<<Head(t)>>, n)
  BY <1>1, <1>2, <1>5 DEF UpTo
<1>6. ASSUME NEW n \in Int, UpTo(t, n) PROVE UpTo(Tail(t), n)
  BY <1>1, <1>6 DEF UpTo
<1> QED BY <1>3, <1>4, <1>5, <1>6

LEMMA AppendedInTurn ==
  ASSUME NEW s \in Seq(Key), NEW k \in Key
  PROVE  /\ InTurn(s) /\ Before(s, <<k>>) => InTurn(Append(s, k))
         /\ \A t \in Seq(Key) : Before(t, s) /\ Before(t, <<k>>) => Before(t, Append(s, k))
         /\ \A t \in Seq(Key) : Before(s, t) /\ Before(<<k>>, t) => Before(Append(s, k), t)
         /\ \A n \in Int : UpTo(s, n) /\ k <= n => UpTo(Append(s, k), n)
<1>1. /\ DOMAIN s = 1 .. Len(s) /\ Len(s) \in Nat /\ DOMAIN Append(s, k) = 1 .. Len(s) + 1
      /\ \A i \in DOMAIN s : Append(s, k)[i] = s[i]
      /\ Append(s, k)[Len(s) + 1] = k
  <2>1. /\ Append(s, k) \in Seq(Key) /\ Len(Append(s, k)) = Len(s) + 1
        /\ \A i \in 1 .. Len(s) : Append(s, k)[i] = s[i]
        /\ Append(s, k)[Len(s) + 1] = k
    BY AppendProperties
  <2> QED BY <2>1, LenProperties
<1> DEFINE u == Append(s, k)
<1>2. /\ \A i \in DOMAIN u : i \in DOMAIN s \/ i = Len(s) + 1
      /\ DOMAIN <<k>> = {1} /\ <<k>>[1] = k
  BY <1>1
<1>3. /\ \A i \in DOMAIN s : u[i] = s[i] /\ i <= Len(s) /\ i \in Nat
      /\ u[Len(s) + 1] = k
  BY <1>1
<1> HIDE DEF u
<1>4. ASSUME InTurn(s), Before(s, <<k>>) PROVE InTurn(u)
  <2>1. ASSUME NEW i \in DOMAIN u, NEW j \in DOMAIN u, i < j
        PROVE  u[j] = Enter \/ u[i] < u[j]
    <3>1. CASE j \in DOMAIN s
      <4>1. i \in DOMAIN s
        BY <1>1, <1>2, <1>3, <2>1, <3>1
      <4> QED BY <1>3, <1>4, <2>1, <3>1, <4>1 DEF InTurn
    <3>2. CASE j = Len(s) + 1
      <4>1. i \in DOMAIN s
        BY <1>2, <2>1, <3>2, <1>1
      <4> QED BY <1>2, <1>3, <1>4, <3>2, <4>1 DEF Before
    <3> QED BY <1>2, <3>1, <3>2
  <2> QED BY <2>1 DEF InTurn
<1>5. ASSUME NEW t \in Seq(Key), Before(t, s), Before(t, <<k>>) PROVE Before(t, u)
  BY <1>2, <1>3, <1>5 DEF Before
<1>6. ASSUME NEW t \in Seq(Key), Before(s, t), Before(<<k>>, t) PROVE Before(u, t)
  BY <1>2, <1>3, <1>6 DEF Before
<1>7. ASSUME NEW n \in Int, UpTo(s, n), k <= n PROVE UpTo(u, n)
  BY <1>2, <1>3, <1>7 DEF UpTo
<1> QED BY <1>4, <1>5, <1>6, <1>7 DEF u

LEMMA InTurnIncreases ==
  ASSUME NEW s \in Seq(Key), InTurn(s), \A i \in DOMAIN s : s[i] # Enter
  PROVE  Increasing(s)
BY DEF InTurn, Increasing

LEMMA YoungestIsLast ==
  ASSUME NEW s \in Seq(Key), NEW n \in Nat, UpTo(s, n), NEW k \in {n + 1, Enter}
  PROVE  Before(s, <<k>>)
<1>1. DOMAIN <<k>> = {1} /\ <<k>>[1] = k
  OBVIOUS
<1>2. \A i \in DOMAIN s : s[i] \in Nat /\ s[i] <= n
  BY ElementOfSeq, LenProperties, Constants DEF UpTo, Key
<1> QED BY <1>1, <1>2 DEF Before

(***************************************************************************)
(* The order of what was typed: the program's line, the character that it  *)
(* has not taken, its FIFO, what the keyboard and the UART hold.  A line   *)
(* that is asked for takes what has waited before a key that has just come *)
(* only if that is one key at most.                                        *)
(***************************************************************************)
Char == IF rx_char = None THEN <<>> ELSE <<rx_char>>
Ahead == turn \in {"main", "api", "com"}
OneKey ==
  /\ Len(keys) <= 1
  /\ keys # <<>> => Ahead \/ turn = "keys"
  /\ keys # <<>> /\ Ahead /\ callback = "cpu" => Waiting <= 1
  /\ keys # <<>> /\ Ahead /\ busy = TRUE /\ reg_op = "read" => Waiting <= 1
  /\ keys # <<>> /\ turn = "keys" /\ callback = "cpu" => rx_char = None /\ rx_fifo = <<>>
KeysInTurn ==
  /\ InTurn(rx_fifo) /\ Before(Char, rx_fifo) /\ Before(Char, keys) /\ Before(rx_fifo, keys)
  /\ UpTo(Char, pressed) /\ UpTo(rx_fifo, pressed) /\ UpTo(keys, pressed)
LineInTurn ==
  callback = "cpu" =>
    /\ InTurn(com_buf) /\ (\A i \in DOMAIN com_buf : com_buf[i] # Enter)
    /\ UpTo(com_buf, pressed)
    /\ Before(com_buf, Char) /\ Before(com_buf, rx_fifo) /\ Before(com_buf, keys)

LEMMA KeysAreSeqs ==
  ASSUME ApiSound
  PROVE  /\ Char \in Seq(Key) /\ rx_fifo \in Seq(Key) /\ keys \in Seq(Key) /\ com_buf \in Seq(Key)
         /\ Len(rx_fifo) \in Nat /\ Len(keys) \in Nat /\ Waiting \in Nat /\ pressed \in Nat
         /\ (rx_char # None => rx_char \in Key /\ Char = <<rx_char>>)
         /\ (rx_char = None => Char = <<>>)
         /\ (Waiting <= 1 => (rx_char # None => rx_fifo = <<>>)
                             /\ (rx_char = None => Len(rx_fifo) <= 1))
<1>1. /\ rx_char \in {None} \cup Key /\ rx_fifo \in Seq(Key) /\ keys \in Seq(Key)
      /\ com_buf \in Seq(Key) /\ pressed \in Nat
  BY Constants DEF ApiSound, KeysTyped, LineTyped
<1>2. Len(rx_fifo) \in Nat /\ Len(keys) \in Nat
  BY <1>1
<1>3. CASE rx_char = None
  <2>1. Char = <<>> /\ Waiting = Len(rx_fifo)
    BY <1>2, <1>3 DEF Char, Waiting
  <2> QED BY <1>1, <1>2, <1>3, <2>1
<1>4. CASE rx_char # None
  <2>1. Char = <<rx_char>> /\ Waiting = 1 + Len(rx_fifo) /\ rx_char \in Key
    BY <1>1, <1>2, <1>4 DEF Char, Waiting
  <2>2. Waiting <= 1 => rx_fifo = <<>>
    BY <1>1, <1>2, <2>1, EmptySeq
  <2> QED BY <1>1, <1>2, <1>4, <2>1, <2>2
<1> QED BY <1>3, <1>4

LEMMA SameWaiting ==
  ASSUME UNCHANGED rx PROVE Waiting' = Waiting /\ Char' = Char /\ rx_char' = rx_char /\ rx_fifo' = rx_fifo
BY DEF rx, Waiting, Char

LEMMA FirstTaken ==
  ASSUME ApiSound, FirstKey
  PROVE  /\ turn = "com" /\ turn' = "keys" /\ keys' \in {<<>>, keys}
         /\ callback' = "cpu" => callback = "cpu"
         /\ callback = "cpu" /\ seen = TRUE /\ Waiting <= 1 => rx_char' = None /\ rx_fifo' = <<>>
<1>1. turn = "com" /\ turn' = "keys"
  BY DEF FirstKey
<1>2. KeysTyped
  BY DEF ApiSound
<1>3. callback' = "cpu" => callback = "cpu"
  BY ComMovesLine DEF LineMoves
<1>4. ASSUME NEW k, NEW fifo, callback = "cpu", TakeKey(k, fifo) PROVE rx_fifo' = fifo
  BY <1>4, KeyMoves
<1>5. CASE /\ rx_char # None /\ TakeKey(rx_char, rx_fifo) /\ rx_char' = None
           /\ keys' = Left(rx_char, keys)
  <2>1. callback = "cpu" /\ Waiting <= 1 => rx_fifo' = <<>>
    BY <1>4, <1>5, KeysAreSeqs
  <2> QED BY <1>1, <1>3, <1>5, <2>1 DEF Left
<1>6. CASE /\ rx_char = None /\ rx_fifo # <<>> /\ Tail(rx_fifo) \in Seq(Key)
           /\ Len(Tail(rx_fifo)) = Len(rx_fifo) - 1
           /\ TakeKey(Head(rx_fifo), Tail(rx_fifo)) /\ rx_char' = rx_char
           /\ keys' = Left(Head(rx_fifo), keys)
  <2>1. ASSUME callback = "cpu", Waiting <= 1 PROVE rx_fifo' = <<>>
    <3>1. rx_fifo' = Tail(rx_fifo)
      BY <1>4, <1>6, <2>1
    <3>2. Len(rx_fifo) <= 1 /\ Len(rx_fifo) \in Nat
      BY <1>6, <2>1, KeysAreSeqs
    <3>3. Len(Tail(rx_fifo)) = 0
      BY <1>6, <3>2, EmptySeq
    <3> QED BY <1>6, <3>1, <3>3, EmptySeq
  <2> QED BY <1>1, <1>3, <1>6, <2>1 DEF Left
<1>7. CASE /\ ~(seen /\ callback # "none") \/ (rx_char = None /\ rx_fifo = <<>>)
           /\ UNCHANGED <<com, lines, rx, unread, needs_prompt, keys>>
  <2>1. UNCHANGED <<rx_char, rx_fifo, keys>>
    BY <1>7 DEF rx
  <2>2. callback = "cpu" /\ seen = TRUE => rx_char = None /\ rx_fifo = <<>>
    BY <1>7
  <2> QED BY <1>1, <1>3, <2>1, <2>2
<1> QED BY <1>2, <1>5, <1>6, <1>7, FirstKeyIs

LEMMA LastTaken ==
  ASSUME ApiSound, OneKey, NextKey
  PROVE  /\ turn = "keys" /\ keys' = <<>>
         /\ (turn' = "mon" \/ turn' = "keys")
<1>1. KeysTyped
  BY DEF ApiSound
<1>2. CASE keys = <<>> /\ turn' = "mon" /\ UNCHANGED <<com, lines, rx, unread, needs_prompt, keys>>
  BY <1>2 DEF NextKey
<1>3. CASE /\ keys # <<>> /\ Tail(keys) \in Seq(Key) /\ Len(Tail(keys)) = Len(keys) - 1
           /\ keys' = Left(Head(keys), Tail(keys)) /\ UNCHANGED <<turn, rx_char>>
  <2>1. Len(Tail(keys)) = 0
    BY <1>3, EmptySeq, KeysAreSeqs DEF OneKey
  <2>2. Tail(keys) = <<>>
    BY <1>3, <2>1, EmptySeq
  <2> QED BY <1>3, <2>2 DEF Left, NextKey
<1> QED BY <1>1, <1>2, <1>3, NextKeyIs

LEMMA OneKeyKept ==
  ASSUME Typing = "slow", Breaks = "calm", ApiSound, Calling, Reading, OneKey, [Next]_vars
  PROVE  OneKey'
<1>0. /\ busy \in BOOLEAN /\ Len(keys) \in Nat /\ keys \in Seq(Key) /\ Len(<<>>) = 0
  BY FlagsAreBoolean, KeysAreSeqs
<1>1. ASSUME keys' = <<>> PROVE OneKey'
  BY <1>0, <1>1 DEF OneKey
<1>2. ASSUME NEW k, Press(k) PROVE OneKey'
  <2>1. /\ turn = "main" /\ keys = <<>> /\ keys' = Append(keys, k)
        /\ callback # "none" => Waiting = 0
        /\ reg_op = "read" /\ busy => Waiting <= 1
    BY <1>2 DEF Press, Idle
  <2>2. Len(keys') = 1
    BY <2>1
  <2>3. UNCHANGED <<turn, callback, busy, reg_op>> /\ Waiting' = Waiting
    BY <1>2, SameWaiting DEF Press, com, regs
  <2> QED BY <2>1, <2>2, <2>3 DEF OneKey, Ahead
<1>3. CASE Call
  <2>1. UNCHANGED <<turn, callback, keys, rx_char, rx_fifo>> /\ Waiting' = Waiting
    BY <1>3, SameWaiting DEF Call, com, rx
  <2>2. reg_op' = "read" => keys = <<>> \/ Waiting <= 1
    <3>1. PICK op \in Ops, n \in 0 .. MaxCount :
            (op = "read" => keys = <<>> \/ Waiting <= 1) /\ reg_op' = op
      BY <1>3 DEF Call
    <3> QED BY <3>1
  <2> QED BY <2>1, <2>2 DEF OneKey, Ahead
<1>4. CASE MainTask
  <2>1. turn = "main" /\ turn' = "api" /\ UNCHANGED <<callback, keys, busy, reg_op>>
    BY <1>4 DEF MainTask, com, regs
  <2>2. Waiting' = Waiting
    <3>1. CASE UNCHANGED rx
      BY <3>1, SameWaiting
    <3>2. CASE rx_char = None /\ rx_fifo # <<>> /\ rx_char' = Head(rx_fifo) /\ rx_fifo' = Tail(rx_fifo)
      <4>1. rx_fifo \in Seq(Key) /\ Len(rx_fifo) \in Nat
        BY KeysAreSeqs
      <4>2. Head(rx_fifo) \in Key /\ Len(Tail(rx_fifo)) = Len(rx_fifo) - 1
        BY <3>2, <4>1, HeadTailProperties
      <4>3. rx_char' # None
        BY <3>2, <4>2, Constants DEF Key, None
      <4> QED BY <3>2, <4>1, <4>2, <4>3 DEF Waiting
    <3> QED BY <1>4, <3>1, <3>2 DEF MainTask
  <2> QED BY <2>1, <2>2 DEF OneKey, Ahead
<1>5. CASE ApiTask
  <2>1. /\ turn = "api" /\ turn' = "com" /\ UNCHANGED keys /\ Waiting' = Waiting
    BY <1>5, SameWaiting DEF ApiTask
  <2>2. reg_op' = reg_op /\ (busy' = TRUE => busy = TRUE)
    BY <1>0, <1>5, TaskReleasesOnly
  <2>3. callback' = "cpu" => callback = "cpu" \/ (busy = TRUE /\ reg_op = "read")
    <3>1. CASE Latched = "read"
      BY <3>1, LatchIsTheCall
    <3>2. CASE Latched # "read"
      BY <1>5, <3>2 DEF ApiTask, com
    <3> QED BY <3>1, <3>2
  <2> QED BY <2>1, <2>2, <2>3 DEF OneKey, Ahead
<1>6. CASE FirstKey
  <2>1. /\ turn = "com" /\ turn' = "keys" /\ (keys' = <<>> \/ keys' = keys)
        /\ callback' = "cpu" => callback = "cpu"
        /\ callback = "cpu" /\ seen = TRUE /\ Waiting <= 1 => rx_char' = None /\ rx_fifo' = <<>>
    BY <1>6, FirstTaken
  <2>2. callback = "cpu" => seen = TRUE
    BY LineIsForPending DEF Reading
  <2> QED BY <1>1, <2>1, <2>2 DEF OneKey, Ahead
<1>7. CASE NextKey
  BY <1>1, <1>7, LastTaken
<1>8. CASE MonTask \/ ExtTask \/ Events
  <2>1. keys = <<>> /\ keys' = keys
    BY <1>8 DEF MonTask, ExtTask, Events, OneKey, Ahead
  <2> QED BY <1>1, <2>1
<1>9. CASE Break
  <2>1. (keys' = <<>> \/ keys' = keys) /\ UNCHANGED <<turn, callback, busy, reg_op, rx_char, rx_fifo>>
        /\ Waiting' = Waiting
    BY <1>9, SameWaiting DEF Break, com, rx, regs
  <2> QED BY <1>1, <2>1 DEF OneKey, Ahead
<1>10. CASE Return \/ UNCHANGED vars
  <2>1. UNCHANGED <<keys, turn, callback, busy, reg_op, rx_char, rx_fifo>> /\ Waiting' = Waiting
    BY <1>10, SameWaiting DEF Return, vars, com, rx, regs
  <2> QED BY <2>1 DEF OneKey, Ahead
<1> QED BY <1>2, <1>3, <1>4, <1>5, <1>6, <1>7, <1>8, <1>9, <1>10 DEF Next, Core0, PressKey, PressEnter

(* Nothing new: keys and what waits are as before, or thrown away.         *)
LEMMA StillInTurn ==
  ASSUME ApiSound, KeysInTurn, LineInTurn, pressed' = pressed,
         keys' = <<>> \/ keys' = keys,
         \/ Char' = Char /\ rx_fifo' = rx_fifo
         \/ Char' = <<>> /\ rx_fifo' = <<>>,
         callback' = "cpu" => com_buf' = <<>> \/ (callback = "cpu" /\ com_buf' = com_buf)
  PROVE  KeysInTurn' /\ LineInTurn'
<1>1. /\ Char \in Seq(Key) /\ rx_fifo \in Seq(Key) /\ keys \in Seq(Key) /\ com_buf \in Seq(Key)
      /\ pressed \in Int
  BY KeysAreSeqs
<1>2. KeysInTurn'
  <2>0. <<>> \in Seq(Key)
    OBVIOUS
  <2>1. /\ Before(Char, <<>>) /\ Before(rx_fifo, <<>>) /\ Before(<<>>, rx_fifo) /\ Before(<<>>, keys)
        /\ Before(<<>>, <<>>) /\ InTurn(<<>>) /\ UpTo(<<>>, pressed)
    BY <1>1, <2>0, NothingBefore
  <2>2. /\ InTurn(rx_fifo') /\ Before(Char', rx_fifo') /\ Before(Char', keys')
        /\ Before(rx_fifo', keys')
        /\ UpTo(Char', pressed') /\ UpTo(rx_fifo', pressed') /\ UpTo(keys', pressed')
    BY <2>1 DEF KeysInTurn
  <2> QED BY <2>2 DEF KeysInTurn, InTurn, Before, UpTo
<1>3. LineInTurn'
  <2> SUFFICES ASSUME callback' = "cpu" PROVE LineInTurn'
    BY DEF LineInTurn
  <2>1. CASE com_buf' = <<>>
    <3>1. \A s \in {Char', rx_fifo', keys'} : Before(<<>>, s)
      BY DEF Before
    <3>2. InTurn(<<>>) /\ UpTo(<<>>, pressed)
      BY <1>1, NothingBefore
    <3> QED BY <2>1, <3>1, <3>2 DEF LineInTurn, InTurn, Before, UpTo
  <2>2. CASE callback = "cpu" /\ com_buf' = com_buf
    <3>1. Before(com_buf, <<>>)
      BY <1>1, NothingBefore
    <3>2. Before(com_buf, Char') /\ Before(com_buf, rx_fifo') /\ Before(com_buf, keys')
      BY <2>2, <3>1 DEF LineInTurn
    <3>3. InTurn(com_buf) /\ (\A i \in DOMAIN com_buf : com_buf[i] # Enter)
          /\ UpTo(com_buf, pressed)
      BY <2>2 DEF LineInTurn
    <3> QED BY <2>2, <3>2, <3>3 DEF LineInTurn, InTurn, Before, UpTo
  <2> QED BY <2>1, <2>2
<1> QED BY <1>2, <1>3

(* The program's line with one more key.                                   *)
LEMMA EditInTurn ==
  ASSUME ApiSound, LineInTurn, callback = "cpu", NEW k \in Key, k # Enter, Edit(k),
         UpTo(<<k>>, pressed), Before(com_buf, <<k>>)
  PROVE  /\ InTurn(com_buf') /\ (\A i \in DOMAIN com_buf' : com_buf'[i] # Enter)
         /\ UpTo(com_buf', pressed)
         /\ \A t \in Seq(Key) : Before(com_buf, t) /\ Before(<<k>>, t) => Before(com_buf', t)
<1>1. com_buf \in Seq(Key) /\ pressed \in Int
  BY KeysAreSeqs
<1>2. k <= pressed
  BY DEF UpTo
<1>3. InTurn(com_buf) /\ UpTo(com_buf, pressed) /\ (\A i \in DOMAIN com_buf : com_buf[i] # Enter)
  BY DEF LineInTurn
<1>4. CASE com_buf' = com_buf
  BY <1>3, <1>4
<1>5. CASE com_buf' = Append(com_buf, k)
  <2>1. InTurn(com_buf') /\ UpTo(com_buf', pressed)
    BY <1>1, <1>2, <1>3, <1>5, AppendedInTurn
  <2>2. \A t \in Seq(Key) : Before(com_buf, t) /\ Before(<<k>>, t) => Before(com_buf', t)
    BY <1>1, <1>5, AppendedInTurn
  <2>3. ASSUME NEW i \in DOMAIN com_buf' PROVE com_buf'[i] # Enter
    <3>1. /\ DOMAIN com_buf = 1 .. Len(com_buf) /\ Len(com_buf) \in Nat
          /\ DOMAIN Append(com_buf, k) = 1 .. Len(com_buf) + 1
          /\ \A j \in 1 .. Len(com_buf) : Append(com_buf, k)[j] = com_buf[j]
          /\ Append(com_buf, k)[Len(com_buf) + 1] = k
      <4>1. /\ Append(com_buf, k) \in Seq(Key) /\ Len(Append(com_buf, k)) = Len(com_buf) + 1
            /\ \A j \in 1 .. Len(com_buf) : Append(com_buf, k)[j] = com_buf[j]
            /\ Append(com_buf, k)[Len(com_buf) + 1] = k
        BY <1>1, AppendProperties
      <4> QED BY <1>1, <4>1, LenProperties
    <3>2. i \in DOMAIN com_buf \/ i = Len(com_buf) + 1
      BY <1>5, <2>3, <3>1
    <3> QED BY <1>3, <1>5, <3>1, <3>2
  <2> QED BY <2>1, <2>2, <2>3
<1> QED BY <1>4, <1>5 DEF Edit

LEMMA PressInTurn ==
  ASSUME Typing = "slow", ApiSound, KeysInTurn, LineInTurn, PressKey \/ PressEnter
  PROVE  KeysInTurn' /\ LineInTurn'
<1>0. /\ Char \in Seq(Key) /\ rx_fifo \in Seq(Key) /\ com_buf \in Seq(Key) /\ pressed \in Nat
  BY KeysAreSeqs
<1>1. PICK k : Press(k) /\ \/ k = pressed + 1 /\ pressed' = pressed + 1
                           \/ k = Enter /\ pressed' = pressed
  BY DEF PressKey, PressEnter
<1>2. keys' = <<k>> /\ UNCHANGED <<callback, com_buf, rx_fifo, rx_char>> /\ Char' = Char
  BY <1>1 DEF Press, Idle, com, rx, Char
<1>3. k \in {pressed + 1, Enter} /\ k <= pressed' /\ pressed' \in Int /\ pressed <= pressed'
  BY <1>0, <1>1 DEF Enter
<1>4. ASSUME NEW s \in Seq(Key), UpTo(s, pressed) PROVE Before(s, <<k>>) /\ UpTo(s, pressed')
  <2>1. \A i \in DOMAIN s : s[i] \in Nat
    BY ElementOfSeq, LenProperties, Constants DEF Key
  <2>2. UpTo(s, pressed')
    BY <1>0, <1>3, <1>4, <2>1 DEF UpTo
  <2> QED BY <1>0, <1>3, <1>4, <2>2, YoungestIsLast
<1>5. UpTo(<<k>>, pressed')
  BY <1>3 DEF UpTo
<1>6. KeysInTurn'
  <2>1. /\ InTurn(rx_fifo) /\ Before(Char, rx_fifo) /\ Before(Char, <<k>>) /\ Before(rx_fifo, <<k>>)
        /\ UpTo(Char, pressed') /\ UpTo(rx_fifo, pressed') /\ UpTo(<<k>>, pressed')
    BY <1>0, <1>4, <1>5 DEF KeysInTurn
  <2> QED BY <1>2, <2>1 DEF KeysInTurn, InTurn, Before, UpTo
<1>7. LineInTurn'
  <2> SUFFICES ASSUME callback = "cpu" PROVE LineInTurn'
    BY <1>2 DEF LineInTurn
  <2>1. /\ InTurn(com_buf) /\ (\A i \in DOMAIN com_buf : com_buf[i] # Enter)
        /\ UpTo(com_buf, pressed')
        /\ Before(com_buf, Char) /\ Before(com_buf, rx_fifo) /\ Before(com_buf, <<k>>)
    BY <1>0, <1>4 DEF LineInTurn
  <2> QED BY <1>2, <2>1 DEF LineInTurn, InTurn, Before, UpTo
<1> QED BY <1>6, <1>7

(* cpu_task() takes the next character out of the FIFO.                    *)
LEMMA CharInTurn ==
  ASSUME ApiSound, KeysInTurn, LineInTurn, MainTask
  PROVE  KeysInTurn' /\ LineInTurn'
<1>0. /\ Char \in Seq(Key) /\ rx_fifo \in Seq(Key) /\ keys \in Seq(Key) /\ com_buf \in Seq(Key)
      /\ pressed \in Int
  BY KeysAreSeqs
<1>1. UNCHANGED <<callback, com_buf, keys, pressed>>
  BY DEF MainTask, com
<1>2. CASE UNCHANGED rx
  <2>1. Char' = Char /\ rx_fifo' = rx_fifo
    BY <1>2, SameWaiting
  <2> QED BY <1>1, <2>1, StillInTurn
<1>3. CASE rx_char = None /\ rx_fifo # <<>> /\ rx_char' = Head(rx_fifo) /\ rx_fifo' = Tail(rx_fifo)
  <2>1. Head(rx_fifo) \in Key /\ Head(rx_fifo) # None
    BY <1>0, <1>3, HeadTailProperties, Constants, SMTT(60) DEF Key, None
  <2>2. Char' = <<Head(rx_fifo)>>
    BY <1>3, <2>1 DEF Char
  <2>3. /\ InTurn(Tail(rx_fifo)) /\ Before(<<Head(rx_fifo)>>, Tail(rx_fifo))
        /\ UpTo(<<Head(rx_fifo)>>, pressed) /\ UpTo(Tail(rx_fifo), pressed)
    BY <1>0, <1>3, PartsInTurn DEF KeysInTurn
  <2>4. Before(<<Head(rx_fifo)>>, keys) /\ Before(Tail(rx_fifo), keys) /\ UpTo(keys, pressed)
    BY <1>0, <1>3, PartsBefore DEF KeysInTurn
  <2>5. KeysInTurn'
    BY <1>1, <1>3, <2>2, <2>3, <2>4 DEF KeysInTurn, InTurn, Before, UpTo
  <2>6. LineInTurn'
    <3> SUFFICES ASSUME callback = "cpu" PROVE LineInTurn'
      BY <1>1 DEF LineInTurn
    <3>1. /\ Before(com_buf, <<Head(rx_fifo)>>) /\ Before(com_buf, Tail(rx_fifo))
      BY <1>0, <1>3, PartsBefore DEF LineInTurn
    <3> QED BY <1>1, <1>3, <2>2, <3>1 DEF LineInTurn, InTurn, Before, UpTo
  <2> QED BY <2>5, <2>6
<1> QED BY <1>2, <1>3 DEF MainTask

LEMMA FirstKeyInTurn ==
  ASSUME ApiSound, KeysInTurn, LineInTurn, FirstKey
  PROVE  KeysInTurn' /\ LineInTurn'
<1>0. /\ Char \in Seq(Key) /\ rx_fifo \in Seq(Key) /\ keys \in Seq(Key) /\ com_buf \in Seq(Key)
      /\ pressed \in Int /\ KeysTyped /\ <<>> \in Seq(Key)
  BY KeysAreSeqs DEF ApiSound
<1>1. pressed' = pressed /\ (keys' = <<>> \/ keys' = keys)
  BY FirstTaken DEF FirstKey
<1>2. ASSUME NEW k \in Key, NEW fifo \in Seq(Key), callback # "none", TakeKey(k, fifo),
             rx_char' = None, InTurn(fifo), UpTo(fifo, pressed), UpTo(<<k>>, pressed),
             Before(fifo, keys), Before(<<k>>, fifo), Before(<<k>>, keys),
             callback = "cpu" => Before(com_buf, <<k>>) /\ Before(com_buf, fifo)
      PROVE  KeysInTurn' /\ LineInTurn'
  <2>1. rx_fifo' = fifo /\ Char' = <<>>
    BY <1>2, KeyMoves DEF Char
  <2>2. KeysInTurn'
    <3>1. /\ Before(<<>>, fifo) /\ Before(<<>>, keys') /\ Before(fifo, keys')
          /\ UpTo(<<>>, pressed) /\ UpTo(keys', pressed)
      BY <1>0, <1>1, <1>2, NothingBefore DEF KeysInTurn
    <3> QED BY <1>1, <1>2, <2>1, <3>1 DEF KeysInTurn, InTurn, Before, UpTo
  <2>3. LineInTurn'
    <3> SUFFICES ASSUME callback' = "cpu" PROVE LineInTurn'
      BY DEF LineInTurn
    <3>1. callback = "cpu" /\ k # Enter /\ Edit(k)
      BY <1>2, KeyMoves
    <3>2. /\ InTurn(com_buf') /\ (\A i \in DOMAIN com_buf' : com_buf'[i] # Enter)
          /\ UpTo(com_buf', pressed)
          /\ \A t \in Seq(Key) : Before(com_buf, t) /\ Before(<<k>>, t) => Before(com_buf', t)
      BY <1>2, <3>1, EditInTurn
    <3>3. /\ Before(com_buf, <<>>) /\ Before(<<k>>, <<>>) /\ Before(com_buf, keys)
      BY <1>0, <3>1, NothingBefore DEF LineInTurn, Before
    <3>4. Before(com_buf', <<>>) /\ Before(com_buf', fifo) /\ Before(com_buf', keys)
      BY <1>0, <1>2, <3>1, <3>2, <3>3
    <3>5. Before(com_buf', Char') /\ Before(com_buf', rx_fifo') /\ Before(com_buf', keys')
      BY <1>1, <2>1, <3>4
    <3> QED BY <1>1, <3>2, <3>5 DEF LineInTurn, InTurn, Before, UpTo
  <2> QED BY <2>2, <2>3
<1>3. CASE /\ callback # "none" /\ rx_char # None /\ rx_char \in Key
           /\ TakeKey(rx_char, rx_fifo) /\ rx_char' = None
  <2>1. Char = <<rx_char>>
    BY <1>3 DEF Char
  <2>2. /\ InTurn(rx_fifo) /\ UpTo(rx_fifo, pressed) /\ UpTo(<<rx_char>>, pressed)
        /\ Before(rx_fifo, keys) /\ Before(<<rx_char>>, rx_fifo) /\ Before(<<rx_char>>, keys)
        /\ callback = "cpu" => Before(com_buf, <<rx_char>>) /\ Before(com_buf, rx_fifo)
    BY <2>1 DEF KeysInTurn, LineInTurn
  <2> QED BY <1>0, <1>2, <1>3, <2>2
<1>4. CASE /\ callback # "none" /\ rx_char = None /\ rx_fifo # <<>>
           /\ Head(rx_fifo) \in Key /\ Tail(rx_fifo) \in Seq(Key)
           /\ TakeKey(Head(rx_fifo), Tail(rx_fifo)) /\ rx_char' = rx_char
  <2>1. /\ InTurn(Tail(rx_fifo)) /\ UpTo(Tail(rx_fifo), pressed)
        /\ UpTo(<<Head(rx_fifo)>>, pressed) /\ Before(<<Head(rx_fifo)>>, Tail(rx_fifo))
    BY <1>0, <1>4, PartsInTurn DEF KeysInTurn
  <2>2. /\ Before(Tail(rx_fifo), keys) /\ Before(<<Head(rx_fifo)>>, keys)
    BY <1>0, <1>4, PartsBefore DEF KeysInTurn
  <2>3. callback = "cpu" => Before(com_buf, <<Head(rx_fifo)>>) /\ Before(com_buf, Tail(rx_fifo))
    BY <1>0, <1>4, PartsBefore DEF LineInTurn
  <2> QED BY <1>2, <1>4, <2>1, <2>2, <2>3
<1>5. CASE UNCHANGED <<com, lines, rx, unread, needs_prompt, keys>>
  <2>1. UNCHANGED <<callback, com_buf>> /\ Char' = Char /\ rx_fifo' = rx_fifo
    BY <1>5, SameWaiting DEF com
  <2> QED BY <1>1, <2>1, StillInTurn
<1> QED BY <1>0, <1>3, <1>4, <1>5, FirstKeyIs

(* The youngest key: behind what waits, or into a line that has taken all  *)
(* that waited.                                                            *)
LEMMA NextKeyInTurn ==
  ASSUME ApiSound, OneKey, KeysInTurn, LineInTurn, NextKey
  PROVE  KeysInTurn' /\ LineInTurn'
<1>0. /\ Char \in Seq(Key) /\ rx_fifo \in Seq(Key) /\ keys \in Seq(Key) /\ com_buf \in Seq(Key)
      /\ pressed \in Int /\ KeysTyped /\ <<>> \in Seq(Key)
  BY KeysAreSeqs DEF ApiSound
<1>1. pressed' = pressed /\ keys' = <<>> /\ turn = "keys"
  BY LastTaken DEF NextKey
<1>2. CASE UNCHANGED <<com, lines, rx, unread, needs_prompt, keys>>
  <2>1. UNCHANGED <<callback, com_buf>> /\ Char' = Char /\ rx_fifo' = rx_fifo
    BY <1>2, SameWaiting DEF com
  <2> QED BY <1>1, <2>1, StillInTurn
<1>3. CASE /\ keys # <<>> /\ Head(keys) \in Key /\ TakeKey(Head(keys), rx_fifo)
           /\ UNCHANGED <<turn, rx_char>>
  <2> DEFINE k == Head(keys)
  <2>1. /\ UpTo(<<k>>, pressed) /\ Before(Char, <<k>>) /\ Before(rx_fifo, <<k>>)
        /\ callback = "cpu" => Before(com_buf, <<k>>)
    BY <1>0, <1>3, PartsInTurn, PartsBefore DEF KeysInTurn, LineInTurn
  <2>2. k \in Key /\ TakeKey(k, rx_fifo)
    BY <1>3
  <2> HIDE DEF k
  <2>3. Char' = Char
    BY <1>3 DEF Char
  <2>4. KeysInTurn'
    <3>1. /\ Before(Char, <<>>) /\ Before(rx_fifo, <<>>) /\ UpTo(<<>>, pressed)
          /\ Before(rx_fifo', <<>>)
      BY <1>0, NothingBefore DEF Before
    <3>2. InTurn(rx_fifo') /\ Before(Char, rx_fifo') /\ UpTo(rx_fifo', pressed)
      <4>1. CASE rx_fifo' = rx_fifo
        BY <4>1 DEF KeysInTurn
      <4>2. CASE rx_fifo' = Append(rx_fifo, k)
        <5>1. k <= pressed
          BY <2>1 DEF UpTo
        <5>2. InTurn(rx_fifo) /\ Before(Char, rx_fifo) /\ UpTo(rx_fifo, pressed)
          BY DEF KeysInTurn
        <5> QED BY <1>0, <2>1, <2>2, <4>2, <5>1, <5>2, AppendedInTurn
      <4> QED BY <2>2, <4>1, <4>2, KeyMoves
    <3>3. UpTo(Char, pressed)
      BY DEF KeysInTurn
    <3> QED BY <1>1, <2>3, <3>1, <3>2, <3>3 DEF KeysInTurn, InTurn, Before, UpTo
  <2>5. LineInTurn'
    <3> SUFFICES ASSUME callback' = "cpu" PROVE LineInTurn'
      BY DEF LineInTurn
    <3>1. callback = "cpu" /\ k # Enter /\ Edit(k) /\ rx_fifo' = rx_fifo
      BY <2>2, KeyMoves
    <3>2. rx_char = None /\ rx_fifo = <<>>
      BY <1>1, <1>3, <3>1 DEF OneKey
    <3>3. Char = <<>> /\ Char' = <<>> /\ rx_fifo' = <<>>
      BY <2>3, <3>1, <3>2 DEF Char
    <3>4. /\ InTurn(com_buf') /\ (\A i \in DOMAIN com_buf' : com_buf'[i] # Enter)
          /\ UpTo(com_buf', pressed)
      BY <2>1, <2>2, <3>1, EditInTurn
    <3>5. Before(com_buf', <<>>)
      BY DEF Before
    <3> QED BY <1>1, <3>3, <3>4, <3>5 DEF LineInTurn, InTurn, Before, UpTo
  <2> QED BY <2>4, <2>5
<1> QED BY <1>0, <1>2, <1>3, NextKeyIs

LEMMA TypedKept ==
  ASSUME Typing = "slow", Breaks = "calm", ApiSound, Calling, Reading, OneKey, KeysInTurn,
         LineInTurn, [Next]_vars
  PROVE  KeysInTurn' /\ LineInTurn'
<1>1. CASE PressKey \/ PressEnter
  BY <1>1, PressInTurn
<1>2. CASE MainTask
  BY <1>2, CharInTurn
<1>3. CASE FirstKey
  BY <1>3, FirstKeyInTurn
<1>4. CASE NextKey
  BY <1>4, NextKeyInTurn
<1>5. CASE ApiTask
  <2>1. UNCHANGED <<keys, pressed>> /\ Char' = Char /\ rx_fifo' = rx_fifo
    BY <1>5, SameWaiting DEF ApiTask
  <2>2. callback' = "cpu" => com_buf' = <<>> \/ (callback = "cpu" /\ com_buf' = com_buf)
    <3>1. CASE Latched = "read" /\ ApiRead
      BY <3>1, ReadIs DEF com
    <3>2. CASE Latched # "read"
      BY <1>5, <3>2 DEF ApiTask, com
    <3> QED BY <1>5, <3>1, <3>2 DEF ApiTask
  <2> QED BY <2>1, <2>2, StillInTurn
<1>6. CASE MonTask
  <2>1. UNCHANGED <<keys, pressed>> /\ Char' = Char /\ rx_fifo' = rx_fifo
    BY <1>6, SameWaiting DEF MonTask
  <2>2. callback' = "cpu" => callback = "cpu" /\ com_buf' = com_buf
    BY <1>6 DEF MonTask, com, ReadLine
  <2> QED BY <2>1, <2>2, StillInTurn
<1>7. CASE Events
  <2>1. UNCHANGED <<keys, pressed, com_buf>> /\ (callback' = "cpu" => callback = "cpu")
    BY <1>7 DEF Events
  <2>2. \/ Char' = Char /\ rx_fifo' = rx_fifo
        \/ Char' = <<>> /\ rx_fifo' = <<>>
    <3>1. CASE UNCHANGED rx
      BY <3>1, SameWaiting
    <3>2. CASE rx_char' = None /\ rx_fifo' = <<>>
      BY <3>2 DEF Char
    <3> QED BY <1>7, <3>1, <3>2 DEF Events, Run, Stop, CpuStop
  <2> QED BY <2>1, <2>2, StillInTurn
<1>8. CASE Break
  <2>1. (keys' = <<>> \/ keys' = keys) /\ UNCHANGED <<pressed, callback, com_buf>>
        /\ Char' = Char /\ rx_fifo' = rx_fifo
    BY <1>8, SameWaiting DEF Break, com
  <2> QED BY <2>1, StillInTurn
<1>9. CASE Call \/ Return \/ ExtTask \/ UNCHANGED vars
  <2>1. UNCHANGED <<keys, pressed, callback, com_buf>> /\ Char' = Char /\ rx_fifo' = rx_fifo
    BY <1>9, SameWaiting DEF Call, Return, ExtTask, vars, com
  <2> QED BY <2>1, StillInTurn
<1> QED BY <1>1, <1>2, <1>3, <1>4, <1>5, <1>6, <1>7, <1>8, <1>9 DEF Next, Core0

LEMMA TypedAtFirst == Init => OneKey /\ KeysInTurn /\ LineInTurn
<1> SUFFICES ASSUME Init PROVE OneKey /\ KeysInTurn /\ LineInTurn
  OBVIOUS
<1>1. keys = <<>> /\ rx_char = None /\ rx_fifo = <<>> /\ callback = "none"
  BY DEF Init
<1>2. Char = <<>>
  BY <1>1 DEF Char
<1> QED BY <1>1, <1>2 DEF OneKey, KeysInTurn, LineInTurn, InTurn, Before, UpTo

(* When each key is dealt with before the next is pressed, and breaks come *)
(* between calls, keys come into the program's line in the order pressed,  *)
(* those it had left in its FIFO first (cpu.c:203-226, com.c:436-463), and *)
(* what programs write is shown in the order written (std.c:286-299).      *)
THEOREM KeysInOrder ==
  ASSUME Typing = "slow", Breaks = "calm"
  PROVE  Spec => []StreamsInOrder
<1> DEFINE I == Calling /\ Reading /\ OneKey /\ KeysInTurn /\ LineInTurn
           L == callback = "cpu" => Increasing(com_buf)
           W == Increasing(out \o std_out \o out_rest)
<1>1. Init => I
  BY CalmAtFirst, TypedAtFirst
<1>2. ApiSound /\ I /\ [Next]_vars => I'
  BY CallingKept, ReadingKept, OneKeyKept, TypedKept
<1>3. ApiSound /\ I => L
  BY KeysAreSeqs, InTurnIncreases DEF LineInTurn
<1>4. L /\ W => StreamsInOrder
  BY DEF StreamsInOrder
<1>5. Spec => []W
  BY WritesInOrder
<1> HIDE DEF I, L, W
<1> QED BY <1>1, <1>2, <1>3, <1>4, <1>5, SoundAlways, PTL DEF Spec
=============================================================================
