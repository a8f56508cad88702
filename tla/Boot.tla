-------------------------------- MODULE Boot --------------------------------
(***************************************************************************)
(* What the Oric runs, and when: the loader of ROM files (mon/rom.c), the  *)
(* two state machines that wait for it (mia_task for the boot call of the  *)
(* 6502, ext_task for LOCI's button), and the kernel of main.c that starts *)
(* and stops the 6502.  The main loop calls their tasks in turn; the 6502, *)
(* core 1, the clock and the user come in between.                         *)
(*                                                                         *)
(* A ROM image is an RP6502 file of Chunks chunks, the last of which holds *)
(* its interrupt vector, or a raw file; the monitor's other uses of the    *)
(* loader, and chunks for the Oric's own memory, are left out.  An operator *)
(* that stands unused before one of the same parameters is a plausible     *)
(* slip in that code, for trying the properties against.                   *)
(***************************************************************************)
EXTENDS Integers

CONSTANTS
  Chunks,      (* of an RP6502 file                                        *)
  LociOn,      (* where LOCI's ROM is, besides in the firmware             *)
  InFlash,     (* RP6502 images of the Oric's ROMs in the flash            *)
  InRaw,       (* and raw ones                                             *)
  Requests,    (* the boot settings that the menu asks for: sets of flags  *)
  Carts,       (* may a ROM be mounted or not: a subset of BOOLEAN         *)
  Masked,      (* the menu waits for its boot call with interrupts masked  *)
  Faults,      (* "chunk": the loader may find a chunk that is no good     *)
  Breaks,      (* CTRL-ALT-DEL: "never", "calm": while the 6502 runs and   *)
               (* no ROM is loaded (that is, at the end of such a pass),   *)
               (* or at "any" time                                         *)
  Patient,     (* no press takes effect while a ROM is being loaded        *)
  Null

Flags == {"fast", "resume", "fdc", "b11", "tap"}
Systems == {"basic10", "basic11", "microdis"}
Images == Systems \cup {"loci", "cart", "diag"}

ASSUME BootAssumption ==
  /\ Chunks \in Nat \ {0}
  /\ LociOn \subseteq {"stick", "flash"}
  /\ InFlash \subseteq Systems /\ InRaw \subseteq Systems
  /\ Requests \subseteq SUBSET Flags
  /\ Carts \subseteq BOOLEAN /\ Carts # {}
  /\ {Masked, Patient} \subseteq BOOLEAN /\ Breaks \in {"never", "calm", "any"}
  /\ Faults \subseteq {"chunk"}
  /\ Null \notin Images \cup {"trap"} \cup [img : Images, pos : 0 .. Chunks]

VARIABLES
  rom,            (* rom_state, is_reading_fat, lfs_file, fat_fil and the  *)
                  (* chunk that is in mbuf                                 *)
  xram,           (* the ROMs at 0xC000 ("bas") and 0xA000 ("dev")         *)
  rom_mounted,    (* oric/rom.c                                            *)
  mia_boot_state, mia_boot_settings,
  map_flags, saved_map_flags,
  map_trap,       (* the MAP program sends vectors to the trap             *)
  dsk_paused,
  ext_state, saved_vector,
  trap_holds,     (* the branch at 0x03BB goes to itself                   *)
  snoop_flag,
  irq_timer,      (* "on" or "up" while the trap is waited for             *)
  main_state, is_breaking,
  turn,
  cpu,            (* "held", "rom", "asking", "trap", "exited" or "own"    *)
  regs,           (* what the call finds: "busy", "free", "boot", "resume" *)
  asked,          (* the settings it asks for                              *)
  entry,          (* how the ROM was entered: "reset" or "nmi"             *)
  meant,          (* history: what the 6502 was last released for, until a *)
                  (* stop                                                  *)
  left,           (* history: how memory was mapped when the trap was taken *)
  pressed         (* history: a short press that LOCI has not answered and *)
                  (* no break has taken back                               *)

capture == <<irq_timer, saved_vector>>
miaV    == <<mia_boot_state, mia_boot_settings>>
map     == <<map_flags, saved_map_flags>>
trap    == <<map_trap, saved_vector, trap_holds>>
kernel  == <<main_state, is_breaking>>
oric    == <<cpu, regs, asked, entry>>
history == <<meant, left, pressed>>
vars == <<rom, xram, rom_mounted, miaV, map, trap, dsk_paused, ext_state, snoop_flag,
          irq_timer, kernel, turn, oric, history>>

main_active == main_state # "stopped"
rom_active == rom.state # "idle"
-----------------------------------------------------------------------------
(* A ROM in extended RAM: who wrote each part, whose vector is at its end, *)
(* and whether the tape patches are in it.                                 *)
Whole(img) == [code |-> [c \in 1 .. Chunks |-> img], vec |-> img, tap |-> FALSE]
Blank == Whole(Null)
Region(img) == IF img = "microdis" THEN "dev" ELSE "bas"

WithChunk(r, img, c) ==
  [code |-> [r.code EXCEPT ![c] = img],
   vec  |-> IF c = Chunks THEN img ELSE r.vec,
   tap  |-> r.tap /\ c # 1]

(* The system ROM that settings name, and what they make of a boot.        *)
SystemRom(s) == IF "b11" \in s THEN "basic11" ELSE "basic10"
Boots(s) ==
  [rom |-> IF rom_mounted THEN "cart" ELSE SystemRom(s),
   tap |-> ~rom_mounted /\ "tap" \in s,
   fdc |-> "fdc" \in s]
Menu == [rom |-> "loci", tap |-> FALSE, fdc |-> FALSE]
Diag == [Menu EXCEPT !.rom = "diag"]

(* The loader's file, and opening one.  A stick that is not there changes  *)
(* what the loader reads from all the same.                                *)
File(r) == IF r.fat THEN r.fil ELSE r.lfs
Opening(img) == [img |-> img, pos |-> 0]
rom_load(r, img) ==
  [r EXCEPT !.state = "loading", !.fat = FALSE, !.lfs = Opening(img), !.chunk = Null]
rom_mon_load(r, img) ==
  IF "stick" \in LociOn
  THEN [r EXCEPT !.state = "loading", !.fat = TRUE, !.fil = Opening(img), !.chunk = Null]
  ELSE [r EXCEPT !.fat = TRUE, !.fil = Null]

(* Whoever needs a system ROM tries the RP6502 image, which takes its time, *)
(* and a raw one, which is read at once.                                   *)
CanLoad(img) == img \in InFlash \cup InRaw
LoadSystem(img) ==
  IF img \in InFlash
  THEN rom' = rom_load(rom, img) /\ UNCHANGED xram
  ELSE xram' = [xram EXCEPT ![Region(img)] = Whole(img)] /\ UNCHANGED rom

(* rom_load_mounted() reads the cartridge at once, too.                    *)
CanLoadBios(s) == rom_mounted \/ CanLoad(SystemRom(s))
LoadBios(s) ==
  IF rom_mounted
  THEN xram' = [xram EXCEPT !.bas = Whole("cart")] /\ UNCHANGED rom
  ELSE LoadSystem(SystemRom(s))
-----------------------------------------------------------------------------
(* The 6502, core 1, the clock and the user.                               *)

(* cpu_task() lets go of RESET some time after a run().                    *)
Started ==
  /\ cpu = "held" /\ main_state = "running"
  /\ cpu' = "rom" /\ entry' = "reset"
  /\ pressed' = (pressed /\ (meant # Menu \/ ext_state # "idle"))
  /\ UNCHANGED <<rom, xram, rom_mounted, miaV, map, trap, dsk_paused, ext_state, snoop_flag,
                 irq_timer, kernel, turn, regs, asked, meant, left>>

(* The menu mounts a ROM, or asks for a boot; it offers to resume what it  *)
(* was entered from by the trap, with the settings that are still there.   *)
Mount ==
  /\ cpu = "rom" /\ meant = Menu
  /\ rom_mounted' \in Carts
  /\ UNCHANGED <<rom, xram, miaV, map, trap, dsk_paused, ext_state, snoop_flag, irq_timer, kernel, turn, oric, history>>

Ask ==
  /\ cpu = "rom" /\ meant = Menu
  /\ \E s \in Requests :
       /\ "resume" \in s => /\ entry = "nmi"
                            /\ s \ {"fast", "resume"} = mia_boot_settings \ {"fast", "resume"}
       /\ asked' = s
  /\ cpu' = "asking" /\ regs' = "busy"
  /\ UNCHANGED <<rom, xram, rom_mounted, miaV, map, trap, dsk_paused, ext_state, snoop_flag,
                 irq_timer, kernel, turn, entry, history>>

Return ==
  /\ cpu = "asking" /\ regs # "busy"
  /\ cpu' = "rom" /\ entry' = (IF regs = "free" THEN entry ELSE "reset")
  /\ asked' = {} /\ regs' = "free"
  /\ UNCHANGED <<rom, xram, rom_mounted, miaV, map, trap, dsk_paused, ext_state, snoop_flag,
                 irq_timer, kernel, turn, history>>

(* A program maps the ROMs as it likes (0x0314), and exits (0x03AF).       *)
Switch ==
  /\ cpu = "rom" /\ meant # Menu
  /\ map_flags' \in {"bas", "ram"} \cup (IF meant.fdc THEN {"dev"} ELSE {})
  /\ UNCHANGED <<rom, xram, rom_mounted, miaV, saved_map_flags, trap, dsk_paused, ext_state,
                 snoop_flag, irq_timer, kernel, turn, oric, history>>

Exit ==
  /\ cpu = "rom" /\ cpu' = "exited"
  /\ UNCHANGED <<rom, xram, rom_mounted, miaV, map, trap, dsk_paused, ext_state, snoop_flag,
                 irq_timer, kernel, turn, regs, asked, entry, history>>

MiaStop ==
  /\ map_flags' = "ram" /\ map_trap' = FALSE
  /\ mia_boot_settings' = {} /\ mia_boot_state' = "idle"

(* main_task() stops the actions, not the 6502: cpu_task() lets go of it   *)
(* again, in the Oric's own ROM.                                           *)
Exited ==
  /\ cpu = "exited" /\ cpu' = "own"
  /\ MiaStop
  /\ UNCHANGED <<rom, xram, rom_mounted, saved_map_flags, saved_vector, trap_holds, dsk_paused,
                 ext_state, snoop_flag, irq_timer, kernel, turn, regs, asked, entry, history>>

(* An interrupt is taken through the vector of what is mapped.  The trap's *)
(* loop is read again and again, and core 1 notes it.                      *)
TakeTrap ==
  /\ cpu = "rom" \/ (cpu = "asking" /\ ~Masked)
  /\ IF map_flags = "ram" THEN map_trap ELSE xram[map_flags].vec = "trap"
  /\ cpu' = "trap" /\ left' = map_flags
  /\ UNCHANGED <<rom, xram, rom_mounted, miaV, map, trap, dsk_paused, ext_state, snoop_flag,
                 irq_timer, kernel, turn, regs, asked, entry, meant, pressed>>

Snoop ==
  /\ cpu = "trap" /\ trap_holds
  /\ snoop_flag' = TRUE
  /\ UNCHANGED <<rom, xram, rom_mounted, miaV, map, trap, dsk_paused, ext_state, irq_timer, kernel, turn, oric, history>>

(* The trap opens, and jumps through the NMI vector.                       *)
LeaveTrap ==
  /\ cpu = "trap" /\ ~trap_holds
  /\ cpu' = "rom" /\ entry' = "nmi"
  /\ pressed' = (pressed /\ (meant # Menu \/ ext_state # "idle"))
  /\ UNCHANGED <<rom, xram, rom_mounted, miaV, map, trap, dsk_paused, ext_state, snoop_flag,
                 irq_timer, kernel, turn, regs, asked, meant, left>>

IrqTimeUp ==
  /\ ext_state = "capture" /\ irq_timer = "on" /\ irq_timer' = "up"
  /\ UNCHANGED <<rom, xram, rom_mounted, miaV, map, trap, dsk_paused, ext_state, snoop_flag, kernel, turn, oric, history>>

Break ==
  /\ Breaks # "never" /\ (Breaks = "calm" => turn = "end" /\ main_state = "running" /\ ~rom_active)
  /\ is_breaking' = TRUE /\ pressed' = FALSE
  /\ UNCHANGED <<rom, xram, rom_mounted, miaV, map, trap, dsk_paused, ext_state, snoop_flag,
                 irq_timer, main_state, turn, oric, meant, left>>
-----------------------------------------------------------------------------
main_stop ==
  main_state' = CASE main_state = "starting" -> "stopped"
                  [] main_state = "stopped" -> "stopped"
                  [] OTHER -> "stopping"

(* The main loop.  api_task() finds the boot call.                         *)
mia_api_boot(s) ==
  LET disc == "fdc" \in s
      found == IF disc THEN CanLoad("microdis") ELSE CanLoadBios(s)
  IN /\ mia_boot_settings' = s
     /\ IF ~found
        THEN regs' = "free" /\ UNCHANGED <<rom, xram, mia_boot_state, dsk_paused, main_state>>
        ELSE /\ IF disc THEN LoadSystem("microdis") /\ dsk_paused' = FALSE
                        ELSE LoadBios(s) /\ UNCHANGED dsk_paused
             /\ IF "fast" \in s THEN UNCHANGED <<regs, main_state>>
                                ELSE regs' = "free" /\ main_stop
             /\ mia_boot_state' = IF disc THEN "devrom" ELSE "bios"

ApiTask ==
  /\ turn = "api" /\ turn' = "rom"
  /\ IF cpu # "held" /\ regs = "busy" /\ mia_boot_state = "idle"
     THEN mia_api_boot(asked)
     ELSE UNCHANGED <<rom, xram, miaV, dsk_paused, main_state, regs>>
  /\ UNCHANGED <<rom_mounted, map, trap, ext_state, snoop_flag, irq_timer, is_breaking,
                 cpu, asked, entry, history>>

(* rom_task(): one line of the file, or one chunk written.  An idle loader *)
(* closes what it has open.                                                *)
RomIdle(r) == [r EXCEPT !.state = "idle", !.lfs = Null, !.fil = Null]
Advanced(r) ==
  LET f == [File(r) EXCEPT !.pos = @ + 1]
  IN [state |-> "writing", fat |-> r.fat, chunk |-> f,
      lfs |-> IF r.fat THEN r.lfs ELSE f, fil |-> IF r.fat THEN f ELSE r.fil]

(* Slip: the end of the file is found one chunk late.                      *)
LeftOfLate(f) == f.pos <= Chunks
LeftOf(f) == f.pos < Chunks

RomLoading ==
  LET f == File(rom)
  IN /\ rom.state = "loading"
     /\ \/ f # Null /\ LeftOf(f) /\ rom' = Advanced(rom)
        \/ /\ f # Null /\ LeftOf(f) => "chunk" \in Faults
           /\ rom' = RomIdle(rom)
     /\ UNCHANGED xram

RomWriting ==
  LET c == rom.chunk
  IN /\ rom.state = "writing"
     /\ xram' = [xram EXCEPT ![Region(c.img)] = WithChunk(@, c.img, c.pos)]
     /\ rom' = [rom EXCEPT !.state = "loading", !.chunk = Null]

RomTask ==
  /\ turn = "rom" /\ turn' = "mia"
  /\ \/ RomLoading
     \/ RomWriting
     \/ rom.state = "idle" /\ rom' = RomIdle(rom) /\ UNCHANGED xram
  /\ UNCHANGED <<rom_mounted, miaV, map, trap, dsk_paused, ext_state, snoop_flag, irq_timer, kernel, oric, history>>

main_run == main_state' = IF main_state = "running" THEN main_state ELSE "starting"

(* mia_task(): the disc's ROM is there, and the system's is next; or that  *)
(* is there, gets its patches, and the 6502 is let into it.                *)
(* Slip: the state does not go on.                                         *)
DevRomLoadedStays ==
  /\ mia_boot_state = "devrom" /\ ~rom_active
  /\ IF CanLoadBios(mia_boot_settings) THEN LoadBios(mia_boot_settings)
                                       ELSE UNCHANGED <<rom, xram>>
  /\ UNCHANGED <<mia_boot_state, main_state, map_flags, regs, meant>>
DevRomLoaded ==
  /\ mia_boot_state = "devrom" /\ ~rom_active
  /\ mia_boot_state' = "bios"
  /\ IF CanLoadBios(mia_boot_settings) THEN LoadBios(mia_boot_settings)
                                       ELSE UNCHANGED <<rom, xram>>
  /\ UNCHANGED <<main_state, map_flags, regs, meant>>

BiosLoaded ==
  LET s == mia_boot_settings
  IN /\ mia_boot_state = "bios" /\ ~rom_active
     /\ mia_boot_state' = "idle"
     /\ xram' = IF ~rom_mounted /\ "tap" \in s THEN [xram EXCEPT !.bas.tap = TRUE] ELSE xram
     /\ meant' = Boots(s)
     /\ IF "fast" \in s
        THEN /\ map_flags' = CASE "resume" \in s -> saved_map_flags
                               [] "fdc" \in s /\ "resume" \notin s -> "dev"
                               [] OTHER -> "bas"
             /\ regs' = IF "resume" \in s THEN "resume" ELSE "boot"
             /\ UNCHANGED main_state
        ELSE main_run /\ UNCHANGED <<map_flags, regs>>
     /\ UNCHANGED rom

MiaTask ==
  /\ turn = "mia" /\ turn' = "ext"
  /\ \/ DevRomLoaded
     \/ BiosLoaded
     \/ /\ mia_boot_state = "idle" \/ rom_active
        /\ UNCHANGED <<rom, xram, mia_boot_state, map_flags, main_state, regs, meant>>
  /\ UNCHANGED <<rom_mounted, mia_boot_settings, saved_map_flags, trap, dsk_paused, ext_state,
                 snoop_flag, irq_timer, is_breaking, cpu, asked, entry, left, pressed>>

(* ext_task(): LOCI's ROM is there.  A 6502 that stands still is started;  *)
(* one that runs is let out of the trap.  (Slip: it is not.)               *)
LaunchShut ==
  /\ meant' = Menu
  /\ IF ~main_active
     THEN main_run /\ UNCHANGED <<map_flags, trap_holds>>
     ELSE map_flags' = "bas" /\ UNCHANGED <<trap_holds, main_state>>
Launch ==
  /\ meant' = Menu
  /\ IF ~main_active
     THEN main_run /\ UNCHANGED <<map_flags, trap_holds>>
     ELSE map_flags' = "bas" /\ trap_holds' = FALSE /\ UNCHANGED main_state

(* The stick comes first, then the flash, then the firmware itself; x is   *)
(* extended RAM when the load begins.  (Slip: the drive is not paused.)    *)
ext_boot_loci(x) ==
  LET r1 == rom_mon_load(rom, "loci")
      r2 == IF r1.state = "idle" /\ "flash" \in LociOn THEN rom_load(r1, "loci") ELSE r1
  IN /\ dsk_paused' = TRUE
     /\ rom' = r2
     /\ \/ /\ r2.state # "idle"
           /\ ext_state' = "loading" /\ xram' = x
           /\ UNCHANGED <<main_state, map_flags, trap_holds, meant>>
        \/ /\ r2.state = "idle"
           /\ ext_state' = "idle" /\ xram' = [x EXCEPT !.bas = Whole("loci")]
           /\ Launch

(* Slip: LOCI is started before its load is over.                          *)
LociNotLoaded ==
  /\ ext_state = "loading"
  /\ ext_state' = "idle"
  /\ Launch
  /\ UNCHANGED <<rom, xram, saved_map_flags, map_trap, dsk_paused, capture, is_breaking>>
LociLoaded ==
  /\ ext_state = "loading" /\ ~rom_active
  /\ ext_state' = "idle"
  /\ Launch
  /\ UNCHANGED <<rom, xram, saved_map_flags, map_trap, dsk_paused, capture, is_breaking>>

BootLoci ==
  /\ ext_state = "boot" /\ ~main_active
  /\ ext_boot_loci(xram)
  /\ UNCHANGED <<saved_map_flags, map_trap, capture, is_breaking>>

BootDiag ==
  /\ ext_state = "diag" /\ ~main_active
  /\ xram' = [xram EXCEPT !.bas = Whole("diag")]
  /\ main_run /\ meant' = Diag
  /\ ext_state' = "idle"
  /\ UNCHANGED <<rom, map, map_trap, trap_holds, dsk_paused, capture, is_breaking>>

(* What is only of use until then is forgotten.                            *)
NoVector == [bas |-> Null, dev |-> Null]
CaptureOver == irq_timer' = "on" /\ saved_vector' = NoVector

(* Slip: the mapping is not saved.                                         *)
CapturedUnsaved ==
  /\ ext_state = "capture" /\ snoop_flag
  /\ map_trap' = FALSE
  /\ UNCHANGED saved_map_flags
  /\ ext_boot_loci([xram EXCEPT !.bas.vec = saved_vector.bas, !.dev.vec = saved_vector.dev])
  /\ CaptureOver
  /\ UNCHANGED is_breaking
Captured ==
  /\ ext_state = "capture" /\ snoop_flag
  /\ map_trap' = FALSE
  /\ saved_map_flags' = map_flags
  /\ ext_boot_loci([xram EXCEPT !.bas.vec = saved_vector.bas, !.dev.vec = saved_vector.dev])
  /\ CaptureOver
  /\ UNCHANGED is_breaking

(* Slips: LOCI is not asked for again; the program is left as it is.       *)
NotCapturedForgot ==
  /\ ext_state = "capture" /\ ~snoop_flag /\ irq_timer = "up"
  /\ map_trap' = FALSE
  /\ is_breaking' = TRUE
  /\ ext_state' = "idle" /\ CaptureOver
  /\ UNCHANGED <<rom, xram, map, trap_holds, dsk_paused, main_state, meant>>
NotCapturedLeft ==
  /\ ext_state = "capture" /\ ~snoop_flag /\ irq_timer = "up"
  /\ map_trap' = FALSE
  /\ ext_state' = "idle" /\ CaptureOver
  /\ UNCHANGED <<rom, xram, map, trap_holds, dsk_paused, kernel, meant>>
NotCaptured ==
  /\ ext_state = "capture" /\ ~snoop_flag /\ irq_timer = "up"
  /\ map_trap' = FALSE
  /\ is_breaking' = TRUE
  /\ ext_state' = "boot" /\ CaptureOver
  /\ UNCHANGED <<rom, xram, map, trap_holds, dsk_paused, main_state, meant>>

ExtWaits ==
  /\ \/ ext_state = "idle"
     \/ ext_state = "loading" /\ rom_active
     \/ ext_state \in {"boot", "diag"} /\ main_active
     \/ ext_state = "capture" /\ ~snoop_flag /\ irq_timer # "up"
  /\ UNCHANGED <<rom, xram, map, map_trap, trap_holds, dsk_paused, ext_state, capture, kernel, meant>>

ExtTask ==
  /\ turn = "ext" /\ turn' = "button"
  /\ LociLoaded \/ BootLoci \/ BootDiag \/ Captured \/ NotCaptured \/ ExtWaits
  /\ UNCHANGED <<rom_mounted, miaV, snoop_flag, oric, left, pressed>>

(* The rest of ext_task() reads the button, once in so many passes: any    *)
(* read may find that it has come out in time, or that it has been in for  *)
(* two seconds.  A short press asks for LOCI: a 6502 that stands still     *)
(* gets it at once, one that runs is to be caught in the trap.             *)
ColdPress ==
  /\ ext_state' = "boot"
  /\ UNCHANGED <<xram, trap, snoop_flag, irq_timer>>

WarmPress ==
  /\ saved_vector' = [bas |-> xram.bas.vec, dev |-> xram.dev.vec]
  /\ xram' = [xram EXCEPT !.bas.vec = "trap", !.dev.vec = "trap"]
  /\ trap_holds' = TRUE /\ map_trap' = TRUE
  /\ snoop_flag' = FALSE
  /\ ext_state' = "capture" /\ irq_timer' = "on"

ShortPress ==
  /\ pressed' = TRUE
  /\ (~main_active /\ ColdPress) \/ (main_active /\ WarmPress)
  /\ UNCHANGED main_state

(* A button that is held for two seconds runs the diagnostics.             *)
LongPress ==
  /\ pressed' = FALSE
  /\ ext_state' = "diag"
  /\ main_stop
  /\ UNCHANGED <<xram, trap, snoop_flag, irq_timer>>

NoPress == UNCHANGED <<xram, trap, ext_state, snoop_flag, irq_timer, main_state, pressed>>

(* The read goes over I2C, ten times as long as the 6502 needs to leave a  *)
(* trap that is open.                                                      *)
ButtonTask ==
  /\ turn = "button" /\ turn' = "end"
  /\ \/ /\ cpu = "trap" => trap_holds
        /\ Patient => ~rom_active
        /\ ShortPress \/ LongPress
     \/ NoPress
  /\ UNCHANGED <<rom, rom_mounted, miaV, map, dsk_paused, is_breaking, oric, meant, left>>

(* The end of a pass: a break takes effect, the 6502 is started or stopped *)
(* and the loader is reset.  A stop clears the history of what ran.        *)
Broken(s) == CASE s = "starting" -> "stopped" [] s = "running" -> "stopping" [] OTHER -> s

Run ==
  /\ cpu' = "held" /\ asked' = {}
  /\ map_flags' = IF "fdc" \in mia_boot_settings THEN "dev" ELSE "bas"
  /\ regs' = "free"
  /\ main_state' = "running"
  /\ UNCHANGED <<miaV, map_trap, dsk_paused, meant, left>>

Stop ==
  /\ cpu' = "held" /\ asked' = {}
  /\ MiaStop
  /\ dsk_paused' = TRUE
  /\ main_state' = "stopped" /\ regs' = "free"
  /\ meant' = Menu /\ left' = "ram"

EndOfPass ==
  LET s == IF is_breaking THEN Broken(main_state) ELSE main_state
  IN /\ turn = "end" /\ turn' = "api"
     /\ \/ s = "starting" /\ Run
        \/ s = "stopping" /\ Stop
        \/ /\ s \in {"stopped", "running"} /\ main_state' = s
           /\ UNCHANGED <<cpu, asked, map_flags, regs, miaV, map_trap, dsk_paused, meant, left>>
     /\ rom' = IF is_breaking THEN [rom EXCEPT !.state = "idle"] ELSE rom
     /\ is_breaking' = FALSE
     /\ UNCHANGED <<xram, rom_mounted, saved_map_flags, saved_vector, trap_holds, ext_state,
                    snoop_flag, irq_timer, entry, pressed>>
-----------------------------------------------------------------------------
(* Power on: rom_init() may have begun to load a ROM, which nothing waits  *)
(* for; the 6502 is held until the button is pressed.                      *)
Init ==
  /\ LET r == [state |-> "idle", fat |-> FALSE, lfs |-> Null, fil |-> Null, chunk |-> Null]
     IN rom \in {r} \cup (IF "flash" \in LociOn THEN {rom_load(r, "loci")} ELSE {})
  /\ xram = [bas |-> Blank, dev |-> Blank]
  /\ rom_mounted = FALSE
  /\ mia_boot_state = "idle" /\ mia_boot_settings = {}
  /\ map_flags = "ram" /\ saved_map_flags = "dev" /\ map_trap = FALSE
  /\ dsk_paused = FALSE
  /\ ext_state = "idle" /\ saved_vector = NoVector
  /\ trap_holds = FALSE /\ snoop_flag = FALSE
  /\ irq_timer = "on"
  /\ main_state = "stopped" /\ is_breaking = FALSE /\ turn = "api"
  /\ cpu = "held" /\ regs = "free" /\ asked = {} /\ entry = "reset"
  /\ meant = Menu /\ left = "ram" /\ pressed = FALSE

Loop == ApiTask \/ RomTask \/ MiaTask \/ ExtTask \/ ButtonTask \/ EndOfPass
Oric == Started \/ Mount \/ Ask \/ Return \/ Switch \/ Exit \/ Exited \/ TakeTrap
        \/ Snoop \/ LeaveTrap
Next == Loop \/ Oric \/ IrqTimeUp \/ Break

Spec == Init /\ [][Next]_vars

(* The loop never waits, the clock goes on, and the 6502 executes.         *)
Fairness ==
  /\ WF_vars(Loop) /\ WF_vars(IrqTimeUp)
  /\ WF_vars(Started) /\ WF_vars(Snoop) /\ WF_vars(LeaveTrap) /\ WF_vars(Return)
FairSpec == Spec /\ Fairness
-----------------------------------------------------------------------------
Places == {Null} \cup [img : Images, pos : 0 .. Chunks]
Vectors == Images \cup {Null, "trap"}
Roms   == [code : [1 .. Chunks -> Images \cup {Null}], vec : Vectors, tap : BOOLEAN]
RomsTyped ==
  /\ rom \in [state : {"idle", "loading", "writing"}, fat : BOOLEAN,
              lfs : Places, fil : Places, chunk : Places]
  /\ xram \in [bas : Roms, dev : Roms]
  /\ saved_vector \in [bas : Vectors, dev : Vectors]
  /\ meant \in [rom : Images, tap : BOOLEAN, fdc : BOOLEAN]
Switches ==
  /\ rom_mounted \in BOOLEAN /\ map_trap \in BOOLEAN /\ trap_holds \in BOOLEAN
  /\ dsk_paused \in BOOLEAN /\ snoop_flag \in BOOLEAN /\ is_breaking \in BOOLEAN
  /\ pressed \in BOOLEAN
States ==
  /\ mia_boot_state \in {"idle", "devrom", "bios"} /\ mia_boot_settings \in SUBSET Flags
  /\ {map_flags, saved_map_flags, left} \subseteq {"bas", "dev", "ram"}
  /\ irq_timer \in {"on", "up"}
  /\ ext_state \in {"idle", "loading", "boot", "diag", "capture"}
  /\ main_state \in {"stopped", "starting", "running", "stopping"}
  /\ turn \in {"api", "rom", "mia", "ext", "button", "end"}
  /\ cpu \in {"held", "rom", "asking", "trap", "exited", "own"} /\ entry \in {"reset", "nmi"}
  /\ regs \in {"busy", "free", "boot", "resume"} /\ asked \in SUBSET Flags
TypeOK == RomsTyped /\ Switches /\ States

(* The ROM that the 6502 executes is the one that its release was for: all *)
(* of it, of one image, with the tape patches in it if they were asked for *)
(* and in no other ROM; a load that someone else began, or one that is not *)
(* over, is not in it.  If its release was for a disc, the disc's ROM is   *)
(* beside it and the drive goes on; otherwise the drive is quiet (but the  *)
(* diagnostics may run before anything has paused it).                     *)
Holds(r, img, tap) == r.code = Whole(img).code /\ r.tap = tap
RunsWhatWasMeant ==
  cpu = "rom" => /\ Holds(xram.bas, meant.rom, meant.tap)
                 /\ meant.fdc => Holds(xram.dev, "microdis", FALSE)
                 /\ meant # Diag => (dsk_paused <=> ~meant.fdc)

(* The vectors of the ROMs that it executes are the ROMs' own again when   *)
(* nobody waits for the trap, even if the button was pressed once more     *)
(* while the trap was there.                                               *)
Waited == ext_state = "capture" \/ is_breaking \/ main_state = "stopping"
VectorsBack ==
  cpu = "rom" /\ ~Waited => /\ xram.bas.vec = meant.rom
                            /\ meant.fdc => xram.dev.vec = "microdis"

(* Nobody is left in the trap: a 6502 that loops there is waited for, or   *)
(* LOCI's ROM is on its way, or the trap is open.                          *)
TrapWatched ==
  cpu = "trap" => Waited \/ ext_state = "loading" \/ ~trap_holds

(* A program that is resumed finds memory mapped as it was when the trap   *)
(* took it.                                                                *)
ResumesAsLeft ==
  [][regs' = "resume" /\ regs # "resume" => map_flags' = left]_vars

(* A short press of the button ends in LOCI's menu, unless the button is   *)
(* pressed time and again.                                                 *)
PressAnswered == []<><<ShortPress>>_vars \/ (pressed ~> ~pressed)

(* A boot call ends in the program that it asked for, unless the button or *)
(* a break comes in between: no step of the boot is forgotten on the way.  *)
BootComesUp ==
  cpu = "asking" ~> (meant # Menu \/ pressed \/ ext_state = "diag" \/ is_breaking)
=============================================================================
