----------------------------- MODULE Boot_proofs -----------------------------
(***************************************************************************)
(* What holds of the boot for every number of chunks, every place that     *)
(* images may be in and all settings that the menu may ask for.            *)
(***************************************************************************)
EXTENDS Boot, TLAPS

LEMMA Constants ==
  /\ Chunks \in Nat \ {0} /\ Requests \subseteq SUBSET Flags /\ Carts \subseteq BOOLEAN
  /\ Masked \in BOOLEAN /\ Patient \in BOOLEAN /\ Null \notin Images
  /\ Null # "trap" /\ Null \notin [img : Images, pos : 0 .. Chunks]
  /\ Breaks \in {"never", "calm", "any"} /\ Faults \subseteq {"chunk"}
BY BootAssumption

(***************************************************************************)
(* Images in extended RAM.                                                 *)
(***************************************************************************)
LEMMA WholeIsARom ==
  ASSUME NEW img \in Images \cup {Null}
  PROVE  Whole(img) \in Roms /\ Whole(img).vec = img /\ Whole(img).tap = FALSE
BY DEF Whole, Roms, Vectors

LEMMA FirstXram == [bas |-> Blank, dev |-> Blank] \in [bas : Roms, dev : Roms]
BY WholeIsARom DEF Blank

LEMMA RegionIsThere ==
  ASSUME NEW img PROVE Region(img) \in {"bas", "dev"}
BY DEF Region

LEMMA PutWhole ==
  ASSUME NEW x \in [bas : Roms, dev : Roms], NEW img \in Images
  PROVE  /\ [x EXCEPT ![Region(img)] = Whole(img)] \in [bas : Roms, dev : Roms]
         /\ [x EXCEPT !.bas = Whole(img)] \in [bas : Roms, dev : Roms]
BY WholeIsARom DEF Region

LEMMA PutVectors ==
  ASSUME NEW x \in [bas : Roms, dev : Roms], NEW v \in Vectors, NEW w \in Vectors
  PROVE  [x EXCEPT !.bas.vec = v, !.dev.vec = w] \in [bas : Roms, dev : Roms]
BY DEF Roms

LEMMA PutPatches ==
  ASSUME NEW x \in [bas : Roms, dev : Roms]
  PROVE  [x EXCEPT !.bas.tap = TRUE] \in [bas : Roms, dev : Roms]
BY DEF Roms

LEMMA PutChunk ==
  ASSUME NEW x \in [bas : Roms, dev : Roms], NEW img \in Images, NEW c \in Nat
  PROVE  [x EXCEPT ![Region(img)] = WithChunk(@, img, c)] \in [bas : Roms, dev : Roms]
BY ZenonT(60) DEF Region, Roms, WithChunk, Vectors

(***************************************************************************)
(* Types.  A loader that is about to write has a chunk.                    *)
(***************************************************************************)
HasChunk == rom.state = "writing" => rom.chunk # Null
BootSound == TypeOK /\ HasChunk

Files == [state : {"idle", "loading", "writing"}, fat : BOOLEAN,
          lfs : Places, fil : Places, chunk : Places]

LEMMA SystemRoms ==
  ASSUME NEW s
  PROVE  SystemRom(s) \in Systems /\ SystemRom(s) \in Images /\ Region(SystemRom(s)) = "bas"
BY DEF SystemRom, Systems, Images, Region

LEMMA LoadsAreFiles ==
  ASSUME NEW r \in Files, NEW img \in Images
  PROVE  /\ rom_load(r, img) \in Files /\ rom_load(r, img).state = "loading"
         /\ rom_mon_load(r, img) \in Files
         /\ rom_mon_load(r, img).state \in {"loading", r.state}
  <1>1. Opening(img) \in Places /\ Null \in Places
    BY Constants DEF Opening, Places
  <1> QED BY <1>1 DEF Files, rom_load, rom_mon_load

LEMMA RestsAreFiles ==
  ASSUME NEW r \in Files
  PROVE  /\ RomIdle(r) \in Files /\ RomIdle(r).state = "idle"
         /\ [r EXCEPT !.state = "idle"] \in Files /\ [r EXCEPT !.state = "idle"].state = "idle"
         /\ [r EXCEPT !.state = "loading", !.chunk = Null] \in Files
         /\ [r EXCEPT !.state = "loading", !.chunk = Null].state = "loading"
  <1>1. Null \in Places
    BY DEF Places
  <1> QED BY <1>1 DEF Files, RomIdle

LEMMA AdvancedIsAFile ==
  ASSUME NEW r \in Files, File(r) # Null, LeftOf(File(r))
  PROVE  /\ Advanced(r) \in Files /\ Advanced(r).state = "writing"
         /\ Advanced(r).chunk = [File(r) EXCEPT !.pos = @ + 1]
         /\ File(Advanced(r)) = Advanced(r).chunk /\ Advanced(r).chunk # Null
         /\ Advanced(r).chunk.img = File(r).img /\ Advanced(r).chunk.pos = File(r).pos + 1
         /\ File(r).img \in Images /\ File(r).pos \in 0 .. Chunks - 1
  <1>1. File(r) \in Places
    BY DEF File, Files
  <1>2. File(r) \in [img : Images, pos : 0 .. Chunks]
    BY <1>1 DEF Places
  <1>3. File(r).img \in Images /\ File(r).pos \in 0 .. Chunks - 1
    BY <1>2, Constants DEF LeftOf
  <1> DEFINE f == [File(r) EXCEPT !.pos = @ + 1]
  <1>4. f \in [img : Images, pos : 0 .. Chunks] /\ f.img = File(r).img /\ f.pos = File(r).pos + 1
    BY <1>2, <1>3, Constants
  <1>5. f \in Places /\ f # Null
    BY <1>4, Constants DEF Places
  <1> HIDE DEF f
  <1>6. Advanced(r) = [state |-> "writing", fat |-> r.fat, chunk |-> f,
                       lfs |-> IF r.fat THEN r.lfs ELSE f, fil |-> IF r.fat THEN f ELSE r.fil]
    BY DEF Advanced, f
  <1>7. r.fat \in BOOLEAN /\ r.lfs \in Places /\ r.fil \in Places
    BY DEF Files
  <1>8. Advanced(r) \in Files
    BY <1>5, <1>6, <1>7 DEF Files
  <1>9. File(Advanced(r)) = f /\ Advanced(r).chunk = f /\ Advanced(r).state = "writing"
    BY <1>6, <1>7 DEF File
  <1> QED BY <1>3, <1>4, <1>5, <1>8, <1>9 DEF f

Loaded == rom \in Files /\ xram \in [bas : Roms, dev : Roms] /\ HasChunk

LEMMA LoadSystemTyped ==
  ASSUME Loaded, NEW img \in Images, LoadSystem(img)
  PROVE  Loaded'
  <1>1. CASE img \in InFlash
    <2>1. rom' = rom_load(rom, img) /\ xram' = xram
      BY <1>1 DEF LoadSystem
    <2>2. rom' \in Files /\ rom'.state = "loading"
      BY <2>1, LoadsAreFiles DEF Loaded
    <2> QED BY <2>1, <2>2 DEF Loaded, HasChunk
  <1>2. CASE img \notin InFlash
    <2>1. rom' = rom /\ xram' = [xram EXCEPT ![Region(img)] = Whole(img)]
      BY <1>2 DEF LoadSystem
    <2>2. xram' \in [bas : Roms, dev : Roms]
      BY <2>1, PutWhole DEF Loaded
    <2> QED BY <2>1, <2>2 DEF Loaded, HasChunk
  <1> QED BY <1>1, <1>2

LEMMA LoadBiosTyped ==
  ASSUME Loaded, NEW s, LoadBios(s)
  PROVE  Loaded'
  <1>1. CASE rom_mounted
    <2>1. rom' = rom /\ xram' = [xram EXCEPT !.bas = Whole("cart")]
      BY <1>1 DEF LoadBios
    <2>2. xram' \in [bas : Roms, dev : Roms]
      BY <2>1, PutWhole DEF Loaded, Images
    <2> QED BY <2>1, <2>2 DEF Loaded, HasChunk
  <1>2. CASE ~rom_mounted
    BY <1>2, LoadSystemTyped, SystemRoms DEF LoadBios
  <1> QED BY <1>1, <1>2

LEMMA BootLociTyped ==
  ASSUME Loaded, NEW x \in [bas : Roms, dev : Roms], ext_boot_loci(x)
  PROVE  Loaded'
  <1> DEFINE r1 == rom_mon_load(rom, "loci")
             r2 == IF r1.state = "idle" /\ "flash" \in LociOn THEN rom_load(r1, "loci") ELSE r1
  <1>1. rom' = r2 /\ (xram' = x \/ xram' = [x EXCEPT !.bas = Whole("loci")])
    BY DEF ext_boot_loci
  <1>2. "loci" \in Images
    BY DEF Images
  <1>3. r1 \in Files /\ r1.state \in {"loading", rom.state} /\ (r1.state = "writing" => r1.chunk = rom.chunk)
    <2>1. r1.state = "writing" => r1.chunk = rom.chunk
      BY DEF rom_mon_load, Loaded, Files
    <2> QED BY <1>2, <2>1, LoadsAreFiles DEF Loaded
  <1> HIDE DEF r1
  <1>4. r2 \in Files /\ (r2.state = "writing" => r2 = r1)
    BY <1>2, <1>3, LoadsAreFiles
  <1> HIDE DEF r2
  <1>5. r2.state = "writing" => r2.chunk # Null
    <2>1. r2.state = "writing" => rom.state = "writing" /\ r2.chunk = rom.chunk
      BY <1>3, <1>4
    <2> QED BY <2>1 DEF Loaded, HasChunk
  <1>6. xram' \in [bas : Roms, dev : Roms]
    BY <1>1, <1>2, PutWhole
  <1> QED BY <1>1, <1>4, <1>5, <1>6 DEF Loaded, HasChunk

LEMMA LoaderTyped ==
  ASSUME Loaded, RomTask
  PROVE  Loaded'
  <1>1. ASSUME RomLoading PROVE Loaded'
    <2>1. CASE File(rom) # Null /\ LeftOf(File(rom)) /\ rom' = Advanced(rom)
      <3>1. rom' \in Files /\ rom'.chunk # Null
        BY <2>1, AdvancedIsAFile DEF Loaded
      <3> QED BY <1>1, <3>1 DEF RomLoading, Loaded, HasChunk
    <2>2. CASE rom' = RomIdle(rom)
      <3>1. rom' \in Files /\ rom'.state = "idle"
        BY <2>2, RestsAreFiles DEF Loaded
      <3> QED BY <1>1, <3>1 DEF RomLoading, Loaded, HasChunk
    <2> QED BY <1>1, <2>1, <2>2 DEF RomLoading
  <1>2. ASSUME RomWriting PROVE Loaded'
    <2>1. rom.chunk \in [img : Images, pos : 0 .. Chunks]
      BY <1>2 DEF RomWriting, Loaded, HasChunk, Files, Places
    <2>2. rom.chunk.img \in Images /\ rom.chunk.pos \in Nat
      BY <2>1, Constants
    <2>3. xram' \in [bas : Roms, dev : Roms]
      BY <1>2, <2>2, PutChunk DEF RomWriting, Loaded
    <2>4. rom' \in Files /\ rom'.state = "loading"
      <3>1. rom' = [rom EXCEPT !.state = "loading", !.chunk = Null]
        BY <1>2 DEF RomWriting
      <3>2. rom \in Files
        BY DEF Loaded
      <3> QED BY <3>1, <3>2, RestsAreFiles
    <2> QED BY <2>3, <2>4 DEF Loaded, HasChunk
  <1>3. ASSUME rom' = RomIdle(rom), UNCHANGED xram PROVE Loaded'
    <2>1. rom' \in Files /\ rom'.state = "idle"
      BY <1>3, RestsAreFiles DEF Loaded
    <2> QED BY <1>3, <2>1 DEF Loaded, HasChunk
  <1> QED BY <1>1, <1>2, <1>3 DEF RomTask

LEMMA LoadedStep ==
  ASSUME BootSound, [Next]_vars
  PROVE  Loaded'
  <1>1. Loaded
    BY DEF BootSound, TypeOK, RomsTyped, Loaded, Files
  <1>2. CASE UNCHANGED <<rom, xram>>
    BY <1>1, <1>2 DEF Loaded, HasChunk
  <1>3. ASSUME ApiTask PROVE Loaded'
    <2>1. UNCHANGED <<rom, xram>> \/ LoadSystem("microdis") \/ LoadBios(asked)
      BY <1>3 DEF ApiTask, mia_api_boot
    <2>2. "microdis" \in Images
      BY DEF Images, Systems
    <2> QED BY <1>1, <1>2, <2>1, <2>2, LoadSystemTyped, LoadBiosTyped
  <1>4. ASSUME MiaTask PROVE Loaded'
    <2>1. CASE DevRomLoaded
      BY <1>1, <1>2, <2>1, LoadBiosTyped DEF DevRomLoaded
    <2>2. CASE BiosLoaded
      <3>1. rom' = rom /\ (xram' = xram \/ xram' = [xram EXCEPT !.bas.tap = TRUE])
        BY <2>2 DEF BiosLoaded
      <3>2. xram' \in [bas : Roms, dev : Roms]
        BY <1>1, <3>1, PutPatches DEF Loaded
      <3> QED BY <1>1, <3>1, <3>2 DEF Loaded, HasChunk
    <2> QED BY <1>2, <1>4, <2>1, <2>2 DEF MiaTask
  <1>5. ASSUME ExtTask PROVE Loaded'
    <2>1. CASE BootLoci
      BY <1>1, <2>1, BootLociTyped DEF BootLoci, Loaded
    <2>2. CASE Captured
      <3> DEFINE x == [xram EXCEPT !.bas.vec = saved_vector.bas, !.dev.vec = saved_vector.dev]
      <3>1. saved_vector.bas \in Vectors /\ saved_vector.dev \in Vectors
        BY DEF BootSound, TypeOK, RomsTyped
      <3>2. x \in [bas : Roms, dev : Roms]
        BY <1>1, <3>1, PutVectors DEF Loaded
      <3> HIDE DEF x
      <3>3. ext_boot_loci(x)
        BY <2>2 DEF Captured, x
      <3> QED BY <1>1, <3>2, <3>3, BootLociTyped
    <2>3. CASE BootDiag
      <3>1. rom' = rom /\ xram' = [xram EXCEPT !.bas = Whole("diag")] /\ "diag" \in Images
        BY <2>3 DEF BootDiag, Images
      <3>2. xram' \in [bas : Roms, dev : Roms]
        BY <1>1, <3>1, PutWhole DEF Loaded
      <3> QED BY <1>1, <3>1, <3>2 DEF Loaded, HasChunk
    <2>4. CASE LociLoaded \/ NotCaptured \/ ExtWaits
      BY <1>2, <2>4 DEF LociLoaded, NotCaptured, ExtWaits
    <2> QED BY <1>5, <2>1, <2>2, <2>3, <2>4 DEF ExtTask
  <1>6. ASSUME ButtonTask PROVE Loaded'
    <2>1. rom' = rom /\ (xram' = xram \/ xram' = [xram EXCEPT !.bas.vec = "trap", !.dev.vec = "trap"])
      BY <1>6 DEF ButtonTask, ShortPress, ColdPress, WarmPress, LongPress, NoPress
    <2>2. xram' \in [bas : Roms, dev : Roms]
      BY <1>1, <2>1, PutVectors, ZenonT(60) DEF Loaded, Vectors
    <2> QED BY <1>1, <2>1, <2>2 DEF Loaded, HasChunk
  <1>7. ASSUME EndOfPass PROVE Loaded'
    <2>1. xram' = xram /\ rom' = IF is_breaking THEN [rom EXCEPT !.state = "idle"] ELSE rom
      BY <1>7 DEF EndOfPass
    <2>2. rom \in Files
      BY <1>1 DEF Loaded
    <2>3. rom' \in Files /\ (rom' = rom \/ rom'.state = "idle")
      BY <2>1, <2>2, RestsAreFiles
    <2> QED BY <1>1, <2>1, <2>3 DEF Loaded, HasChunk
  <1>8. Oric \/ IrqTimeUp \/ Break => UNCHANGED <<rom, xram>>
    BY DEF Oric, Started, Mount, Ask, Return, Switch, Exit, Exited, TakeTrap, Snoop, LeaveTrap, IrqTimeUp, Break
  <1>9. UNCHANGED vars => UNCHANGED <<rom, xram>>
    BY DEF vars
  <1> QED BY <1>1, <1>2, <1>3, <1>4, <1>5, <1>6, <1>7, <1>8, <1>9, LoaderTyped DEF Next, Loop

LEMMA VectorsStep ==
  ASSUME BootSound, [Next]_vars
  PROVE  saved_vector' \in [bas : Vectors, dev : Vectors]
  <1>1. saved_vector \in [bas : Vectors, dev : Vectors] /\ xram \in [bas : Roms, dev : Roms]
    BY DEF BootSound, TypeOK, RomsTyped
  <1>2. NoVector \in [bas : Vectors, dev : Vectors]
    BY DEF NoVector, Vectors
  <1>3. [bas |-> xram.bas.vec, dev |-> xram.dev.vec] \in [bas : Vectors, dev : Vectors]
    BY <1>1 DEF Roms
  <1>4. saved_vector' \in {saved_vector, NoVector, [bas |-> xram.bas.vec, dev |-> xram.dev.vec]}
    <2>1. Loop => saved_vector' \in {saved_vector, NoVector, [bas |-> xram.bas.vec, dev |-> xram.dev.vec]}
      BY DEF Loop, ApiTask, RomTask, MiaTask, ExtTask, LociLoaded, BootLoci, BootDiag,
         Captured, NotCaptured, ExtWaits, CaptureOver, ButtonTask, ShortPress, ColdPress, WarmPress, LongPress,
         NoPress, EndOfPass, trap, capture
    <2>2. Oric \/ IrqTimeUp \/ Break => saved_vector' = saved_vector
      BY DEF Oric, Started, Mount, Ask, Return, Switch, Exit, Exited, TakeTrap, Snoop, LeaveTrap, IrqTimeUp,
         Break, trap
    <2>3. UNCHANGED vars => saved_vector' = saved_vector
      BY DEF vars, trap
    <2> QED BY <2>1, <2>2, <2>3 DEF Next
  <1> QED BY <1>1, <1>2, <1>3, <1>4

LEMMA MeantStep ==
  ASSUME BootSound, [Next]_vars
  PROVE  meant' \in [rom : Images, tap : BOOLEAN, fdc : BOOLEAN]
  <1>1. meant \in [rom : Images, tap : BOOLEAN, fdc : BOOLEAN] /\ rom_mounted \in BOOLEAN
    BY DEF BootSound, TypeOK, RomsTyped, Switches
  <1>2. Menu \in [rom : Images, tap : BOOLEAN, fdc : BOOLEAN]
    BY DEF Menu, Images
  <1>3. Diag \in [rom : Images, tap : BOOLEAN, fdc : BOOLEAN]
    BY <1>2 DEF Diag, Images
  <1>4. Boots(mia_boot_settings) \in [rom : Images, tap : BOOLEAN, fdc : BOOLEAN]
    BY <1>1, SystemRoms DEF Boots, Images
  <1>5. meant' \in {meant, Menu, Diag, Boots(mia_boot_settings)}
    <2>1. Loop => meant' \in {meant, Menu, Diag, Boots(mia_boot_settings)}
      BY DEF Loop, ApiTask, RomTask, MiaTask, DevRomLoaded, BiosLoaded, ExtTask, LociLoaded, BootLoci, BootDiag,
         Captured, NotCaptured, ExtWaits, ext_boot_loci, Launch, ButtonTask, EndOfPass, Run, Stop, history
    <2>2. Oric \/ IrqTimeUp \/ Break => meant' = meant
      BY DEF Oric, Started, Mount, Ask, Return, Switch, Exit, Exited, TakeTrap, Snoop, LeaveTrap, IrqTimeUp,
         Break, history
    <2>3. UNCHANGED vars => meant' = meant
      BY DEF vars, history
    <2> QED BY <2>1, <2>2, <2>3 DEF Next
  <1> QED BY <1>1, <1>2, <1>3, <1>4, <1>5

LEMMA SwitchesStep ==
  ASSUME Switches, [Next]_vars
  PROVE  Switches'
  <1>1. CASE Oric \/ IrqTimeUp \/ Break \/ UNCHANGED vars
    BY <1>1, Constants, ZenonT(60) DEF Switches, Oric, Started, Mount, Ask, Return, Switch, Exit, Exited, TakeTrap, Snoop,
       LeaveTrap, IrqTimeUp, Break, MiaStop, vars, trap, kernel, history
  <1>2. CASE ApiTask \/ RomTask \/ MiaTask
    BY <1>2, ZenonT(60) DEF Switches, ApiTask, mia_api_boot, RomTask, MiaTask, trap, kernel, history
  <1>3. CASE ExtTask
    BY <1>3, ZenonT(60) DEF Switches, ExtTask, LociLoaded, BootLoci, BootDiag, Captured, NotCaptured, ExtWaits,
       ext_boot_loci, Launch, kernel
  <1>4. CASE ButtonTask
    BY <1>4 DEF Switches, ButtonTask, ShortPress, ColdPress, WarmPress, LongPress, NoPress, trap
  <1>5. CASE EndOfPass
    BY <1>5 DEF Switches, EndOfPass, Run, Stop, MiaStop, history
  <1> QED BY <1>1, <1>2, <1>3, <1>4, <1>5 DEF Next, Loop

LEMMA StatesStep ==
  ASSUME States, [Next]_vars
  PROVE  States'
  <1>1. CASE Oric
    BY <1>1, Constants DEF States, Oric, Started, Mount, Ask, Return, Switch, Exit, Exited, TakeTrap, Snoop,
       LeaveTrap, MiaStop, miaV, map, kernel, oric, history
  <1>2. CASE IrqTimeUp \/ Break \/ UNCHANGED vars
    BY <1>2 DEF States, IrqTimeUp, Break, vars, miaV, map, kernel, oric, history
  <1>3. CASE ApiTask
    BY <1>3 DEF States, ApiTask, mia_api_boot, main_stop, map, kernel, oric, history, miaV
  <1>4. CASE RomTask
    BY <1>4 DEF States, RomTask, miaV, map, kernel, oric, history
  <1>5. CASE MiaTask
    BY <1>5 DEF States, MiaTask, DevRomLoaded, BiosLoaded, main_run, oric
  <1>6. CASE ExtTask
    BY <1>6 DEF States, ExtTask, LociLoaded, BootLoci, BootDiag, Captured, NotCaptured, ExtWaits,
       ext_boot_loci, Launch, main_run, CaptureOver, capture, miaV, map, kernel, oric
  <1>7. CASE ButtonTask
    BY <1>7 DEF States, ButtonTask, ShortPress, ColdPress, WarmPress, LongPress, NoPress, main_stop, miaV, map, oric
  <1>8. CASE EndOfPass
    BY <1>8 DEF States, EndOfPass, Run, Stop, MiaStop, Broken, miaV
  <1> QED BY <1>1, <1>2, <1>3, <1>4, <1>5, <1>6, <1>7, <1>8 DEF Next, Loop

LEMMA SoundAtFirst ==
  ASSUME Init
  PROVE  BootSound
  <1>1. xram \in [bas : Roms, dev : Roms]
    BY FirstXram DEF Init
  <1>2. rom \in Files /\ HasChunk
    <2> DEFINE r == [state |-> "idle", fat |-> FALSE, lfs |-> Null, fil |-> Null, chunk |-> Null]
    <2>1. r \in Files /\ r.state = "idle"
      BY DEF Files, Places
    <2>2. "loci" \in Images
      BY DEF Images
    <2>3. rom = r \/ rom = rom_load(r, "loci")
      BY DEF Init
    <2> HIDE DEF r
    <2>4. rom_load(r, "loci") \in Files /\ rom_load(r, "loci").state = "loading"
      BY <2>1, <2>2, LoadsAreFiles
    <2> QED BY <2>1, <2>3, <2>4 DEF HasChunk
  <1>3. saved_vector \in [bas : Vectors, dev : Vectors]
    BY DEF Init, NoVector, Vectors
  <1>4. meant \in [rom : Images, tap : BOOLEAN, fdc : BOOLEAN]
    BY DEF Init, Menu, Images
  <1>5. Switches
    BY DEF Init, Switches
  <1>6. States
    BY DEF Init, States
  <1> QED BY <1>1, <1>2, <1>3, <1>4, <1>5, <1>6 DEF BootSound, TypeOK, RomsTyped, Files

LEMMA SoundStep ==
  ASSUME BootSound, [Next]_vars
  PROVE  BootSound'
  <1>1. Switches' /\ States'
    BY SwitchesStep, StatesStep DEF BootSound, TypeOK
  <1>2. Loaded' /\ saved_vector' \in [bas : Vectors, dev : Vectors]
                /\ meant' \in [rom : Images, tap : BOOLEAN, fdc : BOOLEAN]
    BY LoadedStep, VectorsStep, MeantStep
  <1> QED BY <1>1, <1>2 DEF BootSound, TypeOK, RomsTyped, Loaded, Files

(***************************************************************************)
(* Every variable keeps its type: the loader's chunk lies within the file, *)
(* and whatever begins a load, ends or forgets one (rom.c:262-391,         *)
(* mia.c:517-570, ext.c:148-368).                                          *)
(***************************************************************************)
THEOREM TypeCorrect == Spec => []TypeOK
  <1>1. Init => BootSound
    BY SoundAtFirst
  <1>2. BootSound /\ [Next]_vars => BootSound'
    BY SoundStep
  <1>3. BootSound => TypeOK
    BY DEF BootSound
  <1> QED BY <1>1, <1>2, <1>3, PTL DEF Spec

(***************************************************************************)
(* How a boot goes when nothing disturbs a load: the menu waits with       *)
(* interrupts masked, the button and a break take effect between loads,    *)
(* every chunk is good, and the menu asks for fast boots of systems whose  *)
(* ROM there is (a disc's need not be there).                              *)
(***************************************************************************)
Calm ==
  /\ Masked = TRUE /\ Patient = TRUE /\ Breaks # "any" /\ Faults = {}
  /\ \A s \in Requests : "fast" \in s /\ CanLoad(SystemRom(s))

\* The kernel's states, and when in a pass it can be in them.
Kernel ==
  /\ main_state \in {"stopped", "starting"} =>
       cpu = "held" /\ mia_boot_settings = {} /\ mia_boot_state = "idle"
  /\ main_state = "starting" =>
       /\ turn \in {"button", "end"} /\ is_breaking = FALSE
       /\ turn = "button" => ext_state = "idle"
  /\ main_state = "stopping" => turn = "end" /\ ~rom_active
  /\ is_breaking = TRUE => turn \in {"button", "end"}

\* A boot is under way for the menu, which waits for it.
Calls ==
  /\ regs = "busy" => cpu = "asking" /\ asked \in Requests /\ meant = Menu
  /\ mia_boot_state # "idle" => regs = "busy" /\ mia_boot_settings = asked

\* Whom the loader works for: a boot, the button, or nobody after power-on.
Loads(img) ==
  \/ mia_boot_state = "devrom" /\ img = "microdis"
  \/ mia_boot_state = "bios" /\ img = SystemRom(mia_boot_settings) /\ rom_mounted = FALSE
  \/ mia_boot_state = "idle" /\ ext_state = "loading" /\ img = "loci"
  \/ mia_boot_state = "idle" /\ ext_state = "idle" /\ main_state = "stopped" /\ img = "loci"
Owner == rom_active => File(rom) # Null /\ Loads(File(rom).img)

\* The button: what is known of a 6502 that is to be caught, or has been.
Caught == ext_state = "capture" \/ is_breaking = TRUE \/ main_state = "stopping"
Trapped == trap_holds = TRUE /\ Caught
Resumable == saved_map_flags = left /\ (saved_map_flags = "dev" => "fdc" \in mia_boot_settings)
Button ==
  /\ ext_state = "loading" =>
       /\ dsk_paused = TRUE /\ is_breaking = FALSE /\ main_state \in {"stopped", "running"}
       /\ main_state = "running" => cpu = "trap" /\ trap_holds = TRUE /\ Resumable
       /\ rom_active \/ turn \in {"mia", "ext"}
  /\ ext_state = "capture" =>
       /\ trap_holds = TRUE
       /\ snoop_flag = TRUE => cpu = "trap" \/ main_state = "stopped"
  /\ map_trap = TRUE => Trapped /\ main_state # "stopped"
  /\ ext_state = "boot" => main_state \in {"stopped", "stopping"} \/ is_breaking = TRUE
  /\ ext_state = "diag" => main_state \in {"stopped", "stopping"}

\* What is mapped, and was when the trap was taken.
Mapping ==
  /\ map_flags = "dev" => meant.fdc = TRUE /\ "fdc" \in mia_boot_settings
  /\ cpu # "own" /\ meant.fdc = TRUE => "fdc" \in mia_boot_settings
  /\ cpu = "trap" /\ trap_holds = TRUE => left = map_flags /\ (Caught \/ ext_state = "loading")
  /\ cpu = "trap" /\ trap_holds = FALSE => meant = Menu /\ Resumable

\* A menu that was entered from the trap can resume.
Resuming ==
  /\ meant = Menu /\ entry = "nmi" /\ mia_boot_state = "idle" /\ cpu \in {"rom", "asking"} => Resumable
  /\ mia_boot_state # "idle" /\ "resume" \in mia_boot_settings => Resumable
  /\ regs = "busy" /\ mia_boot_state = "idle" /\ "resume" \in asked =>
       entry = "nmi" /\ asked \ {"fast", "resume"} = mia_boot_settings \ {"fast", "resume"}

Control == BootSound /\ Kernel /\ Calls /\ Owner /\ Button /\ Mapping /\ Resuming

LEMMA CalmRequests ==
  ASSUME Calm, NEW s \in Requests
  PROVE  "fast" \in s /\ CanLoad(SystemRom(s)) /\ CanLoadBios(s)
BY DEF Calm, CanLoadBios

LEMMA Meanings == Menu.fdc = FALSE /\ Menu.rom = "loci" /\ Menu.tap = FALSE /\ Diag.fdc = FALSE /\ Diag # Menu
                  /\ Diag.rom = "diag" /\ Diag.tap = FALSE
  <1>1. Menu.fdc = FALSE /\ Menu.rom = "loci" /\ Menu.tap = FALSE
    BY DEF Menu
  <1>2. Diag.fdc = FALSE /\ Diag.rom = "diag" /\ Diag.tap = FALSE
    BY DEF Diag, Menu
  <1> QED BY <1>1, <1>2

LEMMA BootsMean ==
  ASSUME NEW s
  PROVE  /\ Boots(s) # Menu /\ Boots(s) # Diag /\ Boots(s).fdc = ("fdc" \in s)
         /\ Boots(s).rom = (IF rom_mounted THEN "cart" ELSE SystemRom(s))
         /\ Boots(s).tap = (~rom_mounted /\ "tap" \in s)
  <1>1. /\ Boots(s).fdc = ("fdc" \in s)
        /\ Boots(s).rom = (IF rom_mounted THEN "cart" ELSE SystemRom(s))
        /\ Boots(s).tap = (~rom_mounted /\ "tap" \in s)
    BY Zenon DEF Boots
  <1>2. Boots(s).rom # "loci" /\ Boots(s).rom # "diag"
    BY <1>1 DEF SystemRom
  <1> QED BY <1>1, <1>2, Meanings

\* A step of core 0 that starts a load is a boot's or the button's.
LEMMA RomIsLeft ==
  ASSUME rom \in Files
  PROVE  /\ Oric \/ IrqTimeUp \/ Break \/ ButtonTask \/ UNCHANGED vars => rom' = rom
         /\ RomTask /\ ~rom_active => ~rom_active'
         /\ EndOfPass => rom' = (IF is_breaking THEN [rom EXCEPT !.state = "idle"] ELSE rom)
  <1>1. Oric \/ IrqTimeUp \/ Break \/ ButtonTask \/ UNCHANGED vars => rom' = rom
    BY DEF Oric, Started, Mount, Ask, Return, Switch, Exit, Exited, TakeTrap, Snoop, LeaveTrap, IrqTimeUp, Break,
       ButtonTask, vars
  <1>2. RomTask /\ ~rom_active => rom' = RomIdle(rom)
    BY DEF RomTask, RomLoading, RomWriting, rom_active
  <1>3. RomIdle(rom).state = "idle"
    BY RestsAreFiles
  <1> QED BY <1>1, <1>2, <1>3 DEF EndOfPass, rom_active

\* The boot call: it is answered at once when there is no such disc.
NoDisc(s) == "fdc" \in s /\ ~CanLoad("microdis")
LEMMA ApiBoots ==
  ASSUME Calm, Calls, ApiTask
  PROVE  \/ UNCHANGED <<rom, xram, miaV, dsk_paused, main_state, regs>>
         \/ /\ regs = "busy" /\ mia_boot_state = "idle" /\ asked \in Requests /\ main_state' = main_state
            /\ mia_boot_settings' = asked
            /\ \/ /\ NoDisc(asked) /\ regs' = "free"
                  /\ UNCHANGED <<rom, xram, mia_boot_state, dsk_paused>>
               \/ /\ "fdc" \in asked /\ LoadSystem("microdis") /\ dsk_paused' = FALSE
                  /\ mia_boot_state' = "devrom" /\ regs' = regs
               \/ /\ "fdc" \notin asked /\ LoadBios(asked) /\ dsk_paused' = dsk_paused
                  /\ mia_boot_state' = "bios" /\ regs' = regs
  <1>1. CASE cpu # "held" /\ regs = "busy" /\ mia_boot_state = "idle"
    <2>1. asked \in Requests /\ "fast" \in asked /\ CanLoadBios(asked)
      BY <1>1, CalmRequests DEF Calls
    <2>2. mia_api_boot(asked)
      BY <1>1 DEF ApiTask
    <2>3. CASE "fdc" \in asked
      BY <1>1, <2>1, <2>2, <2>3 DEF mia_api_boot, NoDisc
    <2>4. CASE "fdc" \notin asked
      BY <1>1, <2>1, <2>2, <2>4 DEF mia_api_boot
    <2> QED BY <2>3, <2>4
  <1>2. CASE ~(cpu # "held" /\ regs = "busy" /\ mia_boot_state = "idle")
    BY <1>2 DEF ApiTask
  <1> QED BY <1>1, <1>2

LEMMA KernelStep ==
  ASSUME Calm, Control, [Next]_vars
  PROVE  Kernel'
  <1> USE DEF Control
  <1>1. Kernel /\ Calls /\ Owner /\ Button /\ Mapping /\ rom \in Files /\ Switches /\ States
    BY DEF BootSound, TypeOK, RomsTyped, Files
  <1>2. rom' = rom => (rom_active' <=> rom_active)
    BY DEF rom_active
  <1>3. CASE Oric
    <2>1. rom_active' <=> rom_active
      BY <1>1, <1>2, <1>3, RomIsLeft
    <2> QED BY <1>1, <1>3, <2>1 DEF Kernel, Oric, Started, Mount, Ask, Return, Switch, Exit, Exited, TakeTrap, Snoop,
          LeaveTrap, MiaStop, miaV, kernel
  <1>4. CASE IrqTimeUp \/ Break \/ UNCHANGED vars
    <2>1. rom_active' <=> rom_active
      BY <1>1, <1>2, <1>4, RomIsLeft
    <2> QED BY <1>1, <1>4, <2>1, Constants DEF Calm, Kernel, IrqTimeUp, Break, vars, miaV, kernel, oric
  <1>5. CASE ApiTask
    <2>1. turn = "api" /\ turn' = "rom" /\ UNCHANGED <<main_state, is_breaking, cpu, ext_state>>
      BY <1>1, <1>5, ApiBoots DEF ApiTask, oric, kernel
    <2>2. cpu = "held" => UNCHANGED miaV
      BY <1>5 DEF ApiTask
    <2> QED BY <1>1, <2>1, <2>2 DEF Kernel, miaV
  <1>6. CASE RomTask
    BY <1>1, <1>6 DEF Kernel, RomTask, miaV, kernel, oric
  <1>7. CASE MiaTask
    <2>1. mia_boot_state # "idle" => "fast" \in mia_boot_settings
      BY <1>1, CalmRequests DEF Calls
    <2> QED BY <1>1, <1>7, <2>1 DEF Kernel, MiaTask, DevRomLoaded, BiosLoaded
  <1>8. CASE ExtTask
    BY <1>1, <1>8 DEF Kernel, ExtTask, LociLoaded, BootLoci, BootDiag, Captured, NotCaptured, ExtWaits,
       ext_boot_loci, Launch, main_run, main_active, miaV, oric, kernel
  <1>9. CASE ButtonTask
    <2>1. rom_active' <=> rom_active
      BY <1>1, <1>2, <1>9, RomIsLeft
    <2> QED BY <1>1, <1>9, <2>1 DEF Calm, Kernel, ButtonTask, ShortPress, ColdPress, WarmPress, LongPress, NoPress,
         main_stop, miaV, oric
  <1>10. CASE EndOfPass
    BY <1>1, <1>10 DEF Kernel, EndOfPass, Run, Stop, MiaStop, Broken, miaV
  <1> QED BY <1>3, <1>4, <1>5, <1>6, <1>7, <1>8, <1>9, <1>10 DEF Next, Loop

LEMMA OpensAFile ==
  ASSUME NEW img \in Images
  PROVE  Opening(img) # Null /\ Opening(img).img = img /\ Opening(img).pos = 0
  <1>1. Opening(img) \in [img : Images, pos : 0 .. Chunks]
    BY Constants DEF Opening
  <1> QED BY <1>1, Constants DEF Opening

\* What a load begins with.
Begun(img) == rom'.state = "loading" /\ File(rom') = Opening(img) /\ xram' = xram
LEMMA LoadBegins ==
  ASSUME rom \in Files, ~rom_active
  PROVE  /\ \A img : LoadSystem(img) =>
              \/ Begun(img) /\ rom_active'
              \/ ~rom_active' /\ rom' = rom /\ xram' = [xram EXCEPT ![Region(img)] = Whole(img)]
         /\ \A s : LoadBios(s) =>
              \/ rom_mounted = FALSE /\ Begun(SystemRom(s)) /\ rom_active'
              \/ /\ ~rom_active' /\ rom' = rom
                 /\ xram' = [xram EXCEPT !.bas = Whole(IF rom_mounted THEN "cart" ELSE SystemRom(s))]
  <1>1. ASSUME NEW img, LoadSystem(img)
        PROVE  \/ Begun(img) /\ rom_active'
               \/ ~rom_active' /\ rom' = rom /\ xram' = [xram EXCEPT ![Region(img)] = Whole(img)]
    <2>1. CASE img \in InFlash
      <3>1. rom' = rom_load(rom, img) /\ xram' = xram
        BY <1>1, <2>1 DEF LoadSystem
      <3>2. rom'.state = "loading" /\ rom'.fat = FALSE /\ rom'.lfs = Opening(img)
        BY <3>1 DEF rom_load, Files
      <3> QED BY <3>1, <3>2 DEF Begun, File, rom_active
    <2>2. CASE img \notin InFlash
      BY <1>1, <2>2 DEF LoadSystem, rom_active
    <2> QED BY <2>1, <2>2
  <1>2. ASSUME NEW s, LoadBios(s)
        PROVE  \/ rom_mounted = FALSE /\ Begun(SystemRom(s)) /\ rom_active'
               \/ /\ ~rom_active' /\ rom' = rom
                  /\ xram' = [xram EXCEPT !.bas = Whole(IF rom_mounted THEN "cart" ELSE SystemRom(s))]
    <2>1. CASE rom_mounted
      BY <1>2, <2>1 DEF LoadBios, rom_active
    <2>2. CASE ~rom_mounted
      BY <1>1, <1>2, <2>2, SystemRoms DEF LoadBios
    <2> QED BY <2>1, <2>2
  <1> QED BY <1>1, <1>2

\* What becomes of extended RAM when the menu's ROM is wanted.
Launched(x) ==
  /\ ext_state' = "idle" /\ ~rom_active' /\ xram' = [x EXCEPT !.bas = Whole("loci")]
  /\ Launch
LEMMA LociBegins ==
  ASSUME rom \in Files, ~rom_active, NEW x, ext_boot_loci(x)
  PROVE  /\ dsk_paused' = TRUE
         /\ \/ /\ ext_state' = "loading" /\ xram' = x /\ rom_active'
               /\ rom'.state = "loading" /\ File(rom') = Opening("loci")
               /\ UNCHANGED <<main_state, map_flags, trap_holds, meant>>
            \/ Launched(x)
  <1> DEFINE r1 == rom_mon_load(rom, "loci")
             r2 == IF r1.state = "idle" /\ "flash" \in LociOn THEN rom_load(r1, "loci") ELSE r1
  <1>1. /\ dsk_paused' = TRUE /\ rom' = r2
        /\ \/ /\ r2.state # "idle" /\ ext_state' = "loading" /\ xram' = x
              /\ UNCHANGED <<main_state, map_flags, trap_holds, meant>>
           \/ /\ r2.state = "idle" /\ ext_state' = "idle"
              /\ xram' = [x EXCEPT !.bas = Whole("loci")] /\ Launch
    BY DEF ext_boot_loci
  <1>2. r2.state # "idle" => r2.state = "loading" /\ File(r2) = Opening("loci")
    <2>1. r1 \in Files
      BY LoadsAreFiles DEF Images
    <2>2. CASE "stick" \in LociOn
      <3>1. r1.state = "loading" /\ r1.fat = TRUE /\ r1.fil = Opening("loci")
        BY <2>2 DEF rom_mon_load, Files
      <3> HIDE DEF r1
      <3> QED BY <3>1 DEF File
    <2>3. CASE "stick" \notin LociOn
      <3>1. r1.state = "idle"
        BY <2>3 DEF rom_mon_load, Files, rom_active
      <3> HIDE DEF r1
      <3>2. rom_load(r1, "loci").state = "loading" /\ rom_load(r1, "loci").fat = FALSE
            /\ rom_load(r1, "loci").lfs = Opening("loci")
        BY <2>1 DEF rom_load, Files
      <3> QED BY <3>1, <3>2 DEF File
    <2> QED BY <2>2, <2>3
  <1> HIDE DEF r2
  <1> QED BY <1>1, <1>2 DEF rom_active, Launched

\* What a pass of the loader does when every chunk is good.
LEMMA LoaderGoesOn ==
  ASSUME Calm, rom \in Files, HasChunk, RomTask, rom_active => File(rom) # Null
  PROVE  \/ ~rom_active' /\ xram' = xram /\ (rom_active => rom.state = "loading" /\ File(rom).pos = Chunks)
         \/ /\ rom.state = "loading" /\ rom'.state = "writing" /\ xram' = xram
            /\ File(rom') # Null /\ File(rom').img = File(rom).img /\ File(rom').pos = File(rom).pos + 1
            /\ rom'.chunk = File(rom') /\ File(rom).pos \in Nat
         \/ /\ rom.state = "writing" /\ rom'.state = "loading" /\ File(rom') = File(rom)
            /\ xram' = [xram EXCEPT ![Region(rom.chunk.img)] = WithChunk(@, rom.chunk.img, rom.chunk.pos)]
  <1>1. CASE RomLoading
    <2>1. rom.state = "loading" /\ xram' = xram /\ File(rom) # Null
      BY <1>1 DEF RomLoading, rom_active
    <2>2. CASE LeftOf(File(rom))
      <3>1. rom' = Advanced(rom)
        BY <1>1, <2>1, <2>2 DEF RomLoading, Calm
      <3>2. /\ rom'.state = "writing" /\ rom'.chunk = File(rom') /\ rom'.chunk # Null
            /\ rom'.chunk.img = File(rom).img /\ rom'.chunk.pos = File(rom).pos + 1
            /\ File(rom).pos \in 0 .. Chunks - 1
        BY <2>1, <2>2, <3>1, AdvancedIsAFile
      <3>3. File(rom).pos \in Nat
        BY <3>2, Constants
      <3> QED BY <2>1, <3>2, <3>3
    <2>3. CASE ~LeftOf(File(rom))
      <3>1. rom' = RomIdle(rom)
        BY <1>1, <2>3 DEF RomLoading
      <3>2. ~rom_active'
        BY <3>1, RestsAreFiles DEF rom_active
      <3>3. File(rom) \in Places
        BY DEF File, Files
      <3>4. File(rom).pos \in 0 .. Chunks
        BY <2>1, <3>3 DEF Places
      <3>5. File(rom).pos = Chunks
        BY <2>3, <3>4, Constants DEF LeftOf
      <3> QED BY <2>1, <3>2, <3>5
    <2> QED BY <2>2, <2>3
  <1>2. CASE RomWriting
    <2>1. rom' = [rom EXCEPT !.state = "loading", !.chunk = Null] /\ rom.state = "writing"
      BY <1>2 DEF RomWriting
    <2>2. rom'.state = "loading" /\ rom'.fat = rom.fat /\ rom'.lfs = rom.lfs /\ rom'.fil = rom.fil
      BY <2>1 DEF Files
    <2>3. File(rom') = File(rom)
      BY <2>2 DEF File
    <2> QED BY <1>2, <2>1, <2>2, <2>3 DEF RomWriting
  <1>3. CASE rom.state = "idle" /\ rom' = RomIdle(rom) /\ UNCHANGED xram
    BY <1>3, RestsAreFiles DEF rom_active
  <1> QED BY <1>1, <1>2, <1>3 DEF RomTask

\* What mia_task() does.
MiaBoots ==
  \/ /\ mia_boot_state = "devrom" /\ mia_boot_state' = "bios" /\ ~rom_active
     /\ LoadBios(mia_boot_settings) /\ UNCHANGED <<map_flags, regs, meant>>
  \/ /\ mia_boot_state = "bios" /\ mia_boot_state' = "idle" /\ ~rom_active /\ rom' = rom
     /\ xram' = IF ~rom_mounted /\ "tap" \in mia_boot_settings THEN [xram EXCEPT !.bas.tap = TRUE] ELSE xram
     /\ meant' = Boots(mia_boot_settings)
     /\ regs' # "busy" /\ (regs' = "resume" <=> "resume" \in mia_boot_settings)
     /\ map_flags' = IF "resume" \in mia_boot_settings THEN saved_map_flags
                     ELSE IF "fdc" \in mia_boot_settings THEN "dev" ELSE "bas"
  \/ /\ mia_boot_state = "idle" \/ rom_active
     /\ UNCHANGED <<rom, xram, mia_boot_state, map_flags, regs, meant>>

LEMMA MiaDoes ==
  ASSUME Calm, Calls, MiaTask
  PROVE  /\ main_state' = main_state /\ turn = "mia" /\ turn' = "ext" /\ MiaBoots
         /\ UNCHANGED <<rom_mounted, mia_boot_settings, saved_map_flags, trap, dsk_paused, ext_state,
                        snoop_flag, irq_timer, is_breaking, cpu, asked, entry, left, pressed>>
  <1>1. mia_boot_state # "idle" => mia_boot_settings \in Requests
    BY DEF Calls
  <1>2. mia_boot_state # "idle" => "fast" \in mia_boot_settings /\ CanLoadBios(mia_boot_settings)
    BY <1>1, CalmRequests
  <1>3. /\ turn = "mia" /\ turn' = "ext"
        /\ UNCHANGED <<rom_mounted, mia_boot_settings, saved_map_flags, trap, dsk_paused, ext_state,
                       snoop_flag, irq_timer, is_breaking, cpu, asked, entry, left, pressed>>
    BY DEF MiaTask
  <1>4. CASE DevRomLoaded
    BY <1>2, <1>3, <1>4 DEF DevRomLoaded, MiaBoots
  <1>5. CASE BiosLoaded
    <2>1. /\ mia_boot_state = "bios" /\ mia_boot_state' = "idle" /\ ~rom_active /\ rom' = rom
          /\ xram' = IF ~rom_mounted /\ "tap" \in mia_boot_settings THEN [xram EXCEPT !.bas.tap = TRUE] ELSE xram
          /\ meant' = Boots(mia_boot_settings)
      BY <1>5 DEF BiosLoaded
    <2>2. /\ map_flags' = CASE "resume" \in mia_boot_settings -> saved_map_flags
                            [] "fdc" \in mia_boot_settings /\ "resume" \notin mia_boot_settings -> "dev"
                            [] OTHER -> "bas"
          /\ regs' = IF "resume" \in mia_boot_settings THEN "resume" ELSE "boot"
          /\ main_state' = main_state
      BY <1>2, <1>5, <2>1 DEF BiosLoaded
    <2> QED BY <1>3, <2>1, <2>2 DEF MiaBoots
  <1>6. CASE \/ mia_boot_state = "idle"
             \/ rom_active
    BY <1>3, <1>6 DEF MiaTask, MiaBoots, DevRomLoaded, BiosLoaded
  <1> QED BY <1>3, <1>4, <1>5, <1>6 DEF MiaTask

LEMMA CallsStep ==
  ASSUME Calm, Control, [Next]_vars
  PROVE  Calls'
  <1>1. Kernel /\ Calls /\ Owner /\ Button /\ Mapping /\ rom \in Files /\ Switches /\ States
    BY DEF Control, BootSound, TypeOK, RomsTyped, Files
  <1>2. CASE Oric
    BY <1>1, <1>2, Meanings DEF Calm, Calls, Oric, Started, Mount, Ask, Return, Switch, Exit, Exited, TakeTrap, Snoop,
          LeaveTrap, MiaStop, miaV, history, oric
  <1>3. CASE IrqTimeUp \/ Break \/ UNCHANGED vars \/ RomTask
    BY <1>1, <1>3 DEF Calls, IrqTimeUp, Break, RomTask, vars, miaV, oric, history
  <1>4. CASE ApiTask
    <2>1. UNCHANGED <<cpu, asked, meant>>
      BY <1>4 DEF ApiTask, history
    <2> QED BY <1>1, <1>4, <2>1, ApiBoots DEF Calls, miaV
  <1>5. CASE MiaTask
    BY <1>1, <1>5, MiaDoes DEF Calls, MiaBoots, rom_active
  <1>6. CASE ExtTask
    <2>1. main_state = "stopped" => regs # "busy" /\ mia_boot_state = "idle"
      BY <1>1 DEF Kernel, Calls
    <2>2. UNCHANGED <<miaV, cpu, regs, asked>>
      BY <1>6 DEF ExtTask, oric
    <2>3. regs = "busy" => meant' \in {meant, Menu}
      BY <1>6, <2>1 DEF ExtTask, LociLoaded, BootLoci, BootDiag, Captured, NotCaptured, ExtWaits,
         ext_boot_loci, Launch, main_active
    <2> QED BY <1>1, <2>2, <2>3 DEF Calls, miaV
  <1>7. CASE ButtonTask
    BY <1>1, <1>7 DEF Calls, ButtonTask, miaV, oric
  <1>8. CASE EndOfPass
    BY <1>1, <1>8 DEF Calls, EndOfPass, Run, Stop, MiaStop, Broken, miaV, Kernel
  <1> QED BY <1>2, <1>3, <1>4, <1>5, <1>6, <1>7, <1>8 DEF Next, Loop

\* When no load can be under way.
LEMMA NothingLoads ==
  ASSUME Control
  PROVE  /\ regs = "busy" /\ mia_boot_state = "idle" => ~rom_active
         /\ main_state # "running" /\ ext_state \in {"boot", "diag", "capture"} => ~rom_active
         /\ ext_state = "capture" /\ snoop_flag = TRUE => ~rom_active
         /\ main_state = "starting" => ~rom_active
         /\ cpu \in {"rom", "own", "exited"} => ~rom_active
         /\ cpu = "trap" /\ ext_state # "loading" => ~rom_active
         /\ mia_boot_state = "idle" /\ cpu = "asking" => ~rom_active
         /\ mia_boot_state # "idle" => cpu = "asking" /\ regs = "busy" /\ main_state \in {"running", "stopping"}
  <1>1. Kernel /\ Calls /\ Owner /\ Button /\ Mapping /\ Switches /\ States
    BY DEF Control, BootSound, TypeOK
  <1>2. mia_boot_state # "idle" => cpu = "asking" /\ regs = "busy" /\ main_state \in {"running", "stopping"}
    BY <1>1 DEF Kernel, Calls, States
  <1>3. rom_active /\ mia_boot_state = "idle" =>
          ext_state = "loading" \/ (ext_state = "idle" /\ main_state = "stopped")
    BY <1>1 DEF Owner, Loads
  <1>4. main_state \in {"stopped", "starting"} => cpu = "held" /\ mia_boot_state = "idle"
    BY <1>1 DEF Kernel
  <1>5. ext_state = "loading" => main_state = "stopped" \/ (main_state = "running" /\ cpu = "trap")
    BY <1>1 DEF Button
  <1>6. main_state = "stopping" => ~rom_active
    BY <1>1 DEF Kernel
  <1>7. ext_state = "capture" /\ snoop_flag = TRUE => cpu = "trap" \/ main_state = "stopped"
    BY <1>1 DEF Button
  <1>8. main_state \in {"stopped", "starting", "running", "stopping"} /\ (regs = "busy" => cpu = "asking")
    BY <1>1 DEF States, Calls
  <1> QED BY <1>2, <1>3, <1>4, <1>5, <1>6, <1>7, <1>8

LEMMA OwnerStep ==
  ASSUME Calm, Control, [Next]_vars
  PROVE  Owner'
  <1>1. Kernel /\ Calls /\ Owner /\ Button /\ Mapping /\ rom \in Files /\ HasChunk /\ Switches /\ States
    BY DEF Control, BootSound, TypeOK, RomsTyped, Files
  <1>2. CASE rom' = rom /\ UNCHANGED <<mia_boot_state, mia_boot_settings, rom_mounted, ext_state, main_state>>
    BY <1>1, <1>2 DEF Owner, Loads, rom_active
  <1>3. CASE ~rom_active'
    BY <1>3 DEF Owner
  <1>4. CASE Oric
    <2>1. rom' = rom
      BY <1>1, <1>4, RomIsLeft
    <2>2. CASE cpu \in {"rom", "own", "exited"}
      BY <1>3, <2>1, <2>2, NothingLoads DEF rom_active
    <2>3. CASE cpu \notin {"rom", "own", "exited"}
      BY <1>2, <1>4, <2>1, <2>3 DEF Oric, Started, Mount, Ask, Return, Switch, Exit, Exited, TakeTrap, Snoop,
          LeaveTrap, miaV, kernel
    <2> QED BY <2>2, <2>3
  <1>5. CASE IrqTimeUp \/ Break \/ UNCHANGED vars
    <2>1. rom' = rom
      BY <1>1, <1>5, RomIsLeft
    <2> QED BY <1>2, <1>5, <2>1 DEF IrqTimeUp, Break, vars, miaV, kernel
  <1>6. CASE ApiTask
    <2>1. UNCHANGED <<rom_mounted, ext_state>>
      BY <1>6 DEF ApiTask
    <2>2. CASE UNCHANGED <<rom, xram, miaV, dsk_paused, main_state, regs>>
      BY <1>2, <2>1, <2>2 DEF miaV
    <2>3. CASE regs = "busy" /\ mia_boot_state = "idle" /\ rom' = rom
      BY <1>3, <2>3, NothingLoads DEF rom_active
    <2>4. CASE /\ regs = "busy" /\ mia_boot_state = "idle"
               /\ LoadSystem("microdis") /\ mia_boot_state' = "devrom"
      <3>1. rom_active' => File(rom') = Opening("microdis")
        BY <1>1, <2>4, NothingLoads, LoadBegins DEF Begun
      <3>2. File(rom') = Opening("microdis") => File(rom') # Null /\ File(rom').img = "microdis"
        BY OpensAFile DEF Images, Systems
      <3> QED BY <2>4, <3>1, <3>2 DEF Owner, Loads
    <2>5. CASE /\ regs = "busy" /\ mia_boot_state = "idle" /\ mia_boot_settings' = asked
               /\ LoadBios(asked) /\ mia_boot_state' = "bios"
      <3>1. rom_active' => File(rom') = Opening(SystemRom(asked)) /\ rom_mounted = FALSE
        BY <1>1, <2>5, NothingLoads, LoadBegins DEF Begun
      <3>2. File(rom') = Opening(SystemRom(asked)) => File(rom') # Null /\ File(rom').img = SystemRom(asked)
        BY OpensAFile, SystemRoms
      <3> QED BY <2>1, <2>5, <3>1, <3>2 DEF Owner, Loads
    <2> QED BY <1>1, <1>6, <2>2, <2>3, <2>4, <2>5, ApiBoots
  <1>7. CASE RomTask
    <2>1. UNCHANGED <<mia_boot_state, mia_boot_settings, rom_mounted, ext_state, main_state>>
      BY <1>7 DEF RomTask, miaV, kernel
    <2>2. rom_active' => rom_active /\ File(rom') # Null /\ File(rom').img = File(rom).img
      BY <1>1, <1>7, LoaderGoesOn DEF Owner, rom_active
    <2> QED BY <1>1, <2>1, <2>2 DEF Owner, Loads
  <1>8. CASE MiaTask
    <2>1. /\ UNCHANGED <<mia_boot_settings, rom_mounted, ext_state, main_state>>
          /\ MiaBoots
      BY <1>1, <1>8, MiaDoes
    <2>2. CASE UNCHANGED <<rom, mia_boot_state>>
      BY <1>2, <2>1, <2>2
    <2>3. CASE ~rom_active /\ rom' = rom
      BY <1>3, <2>3 DEF rom_active
    <2>4. CASE ~rom_active /\ LoadBios(mia_boot_settings) /\ mia_boot_state' = "bios"
      <3>1. rom_active' => File(rom') = Opening(SystemRom(mia_boot_settings)) /\ rom_mounted = FALSE
        BY <1>1, <2>4, LoadBegins DEF Begun
      <3>2. File(rom') = Opening(SystemRom(mia_boot_settings)) =>
              File(rom') # Null /\ File(rom').img = SystemRom(mia_boot_settings)
        BY OpensAFile, SystemRoms
      <3> QED BY <2>1, <2>4, <3>1, <3>2 DEF Owner, Loads
    <2> QED BY <2>1, <2>2, <2>3, <2>4 DEF MiaBoots
  <1>9. CASE ExtTask
    <2>1. UNCHANGED <<mia_boot_state, mia_boot_settings, rom_mounted>>
      BY <1>9 DEF ExtTask, miaV
    <2>2. CASE LociLoaded \/ BootDiag
      <3>1. rom' = rom /\ ~rom_active
        BY <1>1, <2>2, NothingLoads DEF LociLoaded, BootDiag, main_active
      <3> QED BY <1>3, <3>1 DEF rom_active
    <2>3. ASSUME NEW x, ~rom_active, ext_boot_loci(x), mia_boot_state = "idle" PROVE Owner'
      <3>1. rom_active' => ext_state' = "loading" /\ File(rom') = Opening("loci")
        BY <1>1, <2>3, LociBegins DEF Launched
      <3>2. File(rom') = Opening("loci") => File(rom') # Null /\ File(rom').img = "loci"
        BY OpensAFile DEF Images
      <3> QED BY <2>1, <2>3, <3>1, <3>2 DEF Owner, Loads
    <2>4. CASE BootLoci
      <3>1. main_state = "stopped" /\ ext_state = "boot" /\ ext_boot_loci(xram)
        BY <2>4 DEF BootLoci, main_active
      <3> QED BY <2>3, <3>1, NothingLoads
    <2>5. CASE Captured
      <3>1. ext_state = "capture" /\ snoop_flag = TRUE
        BY <1>1, <2>5 DEF Captured, Switches
      <3>2. mia_boot_state = "idle"
        BY <1>1, <3>1, NothingLoads DEF Button
      <3>3. PICK x : ext_boot_loci(x)
        BY <2>5 DEF Captured
      <3> QED BY <2>3, <3>1, <3>2, <3>3, NothingLoads
    <2>6. CASE NotCaptured
      <3>1. ext_state = "capture" /\ ext_state' = "boot" /\ rom' = rom
        BY <2>6 DEF NotCaptured
      <3> QED BY <1>1, <2>1, <3>1 DEF Owner, Loads, rom_active
    <2>7. CASE ExtWaits
      BY <1>2, <2>1, <2>7 DEF ExtWaits, kernel
    <2> QED BY <1>9, <2>2, <2>4, <2>5, <2>6, <2>7 DEF ExtTask
  <1>10. CASE ButtonTask
    <2>1. rom' = rom /\ UNCHANGED <<mia_boot_state, mia_boot_settings, rom_mounted>>
      BY <1>10 DEF ButtonTask, miaV
    <2>2. CASE rom_active
      <3>1. NoPress
        BY <1>10, <2>2 DEF ButtonTask, Calm
      <3> QED BY <1>2, <2>1, <3>1 DEF NoPress
    <2>3. CASE ~rom_active
      BY <1>3, <2>1, <2>3 DEF rom_active
    <2> QED BY <2>2, <2>3
  <1>11. CASE EndOfPass
    <2>1. rom' = (IF is_breaking THEN [rom EXCEPT !.state = "idle"] ELSE rom)
      BY <1>1, <1>11, RomIsLeft
    <2>2. CASE is_breaking = TRUE
      BY <1>1, <1>3, <2>1, <2>2, RestsAreFiles DEF rom_active
    <2>3. CASE is_breaking = FALSE /\ main_state \in {"starting", "stopping"}
      <3>1. ~rom_active
        BY <1>1, <2>3, NothingLoads DEF Kernel
      <3> QED BY <1>3, <2>1, <2>3, <3>1 DEF rom_active
    <2>4. CASE is_breaking = FALSE /\ main_state \in {"stopped", "running"}
      <3>1. UNCHANGED <<mia_boot_state, mia_boot_settings, rom_mounted, ext_state, main_state>>
        BY <1>11, <2>4 DEF EndOfPass, miaV
      <3> QED BY <1>2, <2>1, <2>4, <3>1
    <2> QED BY <1>1, <2>2, <2>3, <2>4 DEF Switches, States
  <1> QED BY <1>4, <1>5, <1>6, <1>7, <1>8, <1>9, <1>10, <1>11 DEF Next, Loop

LEMMA ButtonStep ==
  ASSUME Calm, Control, [Next]_vars
  PROVE  Button'
  <1>1. Kernel /\ Calls /\ Owner /\ Button /\ Mapping /\ rom \in Files /\ HasChunk /\ Switches /\ States
    BY DEF Control, BootSound, TypeOK, RomsTyped, Files
  <1>2. rom' = rom => (rom_active' <=> rom_active)
    BY DEF rom_active
  <1>3. CASE Oric
    <2>1. rom_active' <=> rom_active
      BY <1>1, <1>2, <1>3, RomIsLeft
    <2>2. CASE Exited
      <3>1. map_trap' = FALSE /\ UNCHANGED <<ext_state, main_state, is_breaking, trap_holds, snoop_flag>>
        BY <2>2 DEF Exited, MiaStop, kernel
      <3>2. ext_state # "loading" /\ (ext_state = "capture" => snoop_flag = FALSE)
        BY <1>1, <2>2 DEF Exited, Button, Kernel, Switches
      <3> QED BY <1>1, <3>1, <3>2 DEF Button
    <2>3. CASE TakeTrap
      <3>1. cpu = "rom" /\ cpu' = "trap" /\ UNCHANGED <<map, trap, ext_state, snoop_flag, kernel, miaV, dsk_paused>>
        BY <1>1, <2>3 DEF TakeTrap, Calm
      <3>2. ext_state # "loading"
        BY <1>1, <3>1 DEF Button, Kernel
      <3> QED BY <1>1, <3>1, <3>2 DEF Button, Trapped, Caught, trap, kernel
    <2>4. CASE Snoop
      <3>1. /\ cpu = "trap" /\ turn' = turn
            /\ UNCHANGED <<map, trap, ext_state, kernel, miaV, dsk_paused, cpu, left>>
        BY <2>4 DEF Snoop, oric, history
      <3> QED BY <1>1, <2>1, <3>1 DEF Button, Trapped, Caught, Resumable, trap, kernel, map, miaV
    <2>5. CASE LeaveTrap
      <3>1. trap_holds = FALSE /\ UNCHANGED <<trap, ext_state, kernel, snoop_flag>> /\ cpu = "trap"
        BY <1>1, <2>5 DEF LeaveTrap, Switches
      <3>2. ext_state \notin {"loading", "capture"}
        BY <1>1, <3>1 DEF Button, Kernel
      <3> QED BY <1>1, <3>1, <3>2 DEF Button, Trapped, Caught, trap, kernel
    <2>6. CASE Started \/ Mount \/ Ask \/ Return \/ Switch \/ Exit
      <3>1. /\ cpu # "trap" /\ UNCHANGED <<trap, ext_state, kernel, snoop_flag, dsk_paused, turn>>
        BY <2>6 DEF Started, Mount, Ask, Return, Switch, Exit
      <3>2. main_state = "stopped" => cpu = "held"
        BY <1>1 DEF Kernel
      <3> QED BY <1>1, <2>1, <3>1, <3>2 DEF Button, Trapped, Caught, trap, kernel
    <2> QED BY <1>3, <2>2, <2>3, <2>4, <2>5, <2>6 DEF Oric
  <1>10. CASE Break
    <2>1. ext_state # "loading"
      BY <1>1, <1>10, Constants DEF Calm, Break, Button
    <2>2. is_breaking' = TRUE /\ UNCHANGED <<trap, ext_state, main_state, snoop_flag, cpu>>
      BY <1>10 DEF Break, oric
    <2> QED BY <1>1, <2>1, <2>2 DEF Button, Trapped, Caught, trap
  <1>11. CASE IrqTimeUp \/ UNCHANGED vars
    <2>1. rom_active' <=> rom_active
      BY <1>1, <1>2, <1>11, RomIsLeft
    <2>2. UNCHANGED <<map, trap, ext_state, kernel, snoop_flag, miaV, dsk_paused, turn, cpu, left>>
      BY <1>11 DEF IrqTimeUp, vars, oric, history
    <2> QED BY <1>1, <2>1, <2>2 DEF Button, Trapped, Caught, Resumable, trap, kernel, map, miaV
  <1>12. CASE RomTask
    <2>1. UNCHANGED <<map, trap, ext_state, kernel, snoop_flag, miaV, dsk_paused, cpu, left>> /\ turn' = "mia"
      BY <1>12 DEF RomTask, oric, history
    <2> QED BY <1>1, <2>1 DEF Button, Trapped, Caught, Resumable, trap, kernel, map, miaV
  <1>4. CASE ApiTask
    <2>1. UNCHANGED <<map, trap, ext_state, snoop_flag, is_breaking, cpu, left>>
      BY <1>4 DEF ApiTask, history
    <2>2. main_state' = main_state
      BY <1>1, <1>4, ApiBoots
    <2>3. CASE ext_state = "loading"
      <3>1. cpu # "asking"
        BY <1>1, <2>3 DEF Button, Kernel
      <3>2. UNCHANGED <<rom, miaV, dsk_paused>>
        BY <1>1, <1>4, <3>1, ApiBoots DEF Calls
      <3>3. rom_active'
        BY <1>1, <1>2, <1>4, <2>3, <3>2 DEF Button, ApiTask
      <3> QED BY <1>1, <2>1, <2>2, <3>2, <3>3 DEF Button, Trapped, Caught, Resumable, miaV, map, trap
    <2>4. CASE ext_state # "loading"
      BY <1>1, <2>1, <2>2, <2>4 DEF Button, Trapped, Caught, trap
    <2> QED BY <2>3, <2>4
  <1>5. CASE MiaTask
    <2>1. /\ main_state' = main_state /\ turn' = "ext"
          /\ UNCHANGED <<mia_boot_settings, saved_map_flags, trap, dsk_paused, ext_state,
                         snoop_flag, is_breaking, cpu, left>>
      BY <1>1, <1>5, MiaDoes
    <2> QED BY <1>1, <2>1 DEF Button, Trapped, Caught, Resumable, trap
  <1>6. CASE ExtTask
    <2>1. turn = "ext" /\ is_breaking = FALSE /\ main_state \in {"stopped", "running"}
      BY <1>1, <1>6 DEF ExtTask, Kernel, Switches, States
    <2>2. UNCHANGED <<miaV, snoop_flag, cpu, left>>
      BY <1>6 DEF ExtTask, oric
    <2>3. CASE LociLoaded \/ BootDiag
      BY <1>1, <2>1, <2>3 DEF LociLoaded, BootDiag, Launch, main_run, main_active, map, Button, Trapped, Caught
    <2>4. ASSUME NEW x, ~rom_active, ext_boot_loci(x), map_trap' = FALSE, is_breaking' = FALSE,
                 \/ main_state = "stopped"
                 \/ main_state = "running" /\ cpu = "trap" /\ trap_holds = TRUE /\ Resumable'
          PROVE  Button'
      <3>1. ext_state' \in {"loading", "idle"} /\ dsk_paused' = TRUE
        BY <1>1, <2>4, LociBegins DEF Launched
      <3>2. ext_state' = "loading" => UNCHANGED <<main_state, trap_holds>> /\ rom_active'
        BY <1>1, <2>4, LociBegins DEF Launched
      <3> QED BY <2>1, <2>2, <2>4, <3>1, <3>2 DEF Button
    <2>5. CASE BootLoci
      <3>1. main_state = "stopped" /\ ext_boot_loci(xram) /\ ext_state = "boot" /\ UNCHANGED <<map_trap, is_breaking>>
        BY <2>5 DEF BootLoci, main_active
      <3>2. ~rom_active
        BY <3>1, NothingLoads
      <3>3. map_trap = FALSE
        BY <1>1, <3>1 DEF Button, Switches
      <3> QED BY <2>1, <2>4, <3>1, <3>2, <3>3
    <2>6. CASE Captured
      <3>1. /\ ext_state = "capture" /\ snoop_flag = TRUE /\ map_trap' = FALSE /\ is_breaking' = FALSE
            /\ saved_map_flags' = map_flags
        BY <1>1, <2>1, <2>6 DEF Captured, Switches
      <3>2. PICK x : ext_boot_loci(x)
        BY <2>6 DEF Captured
      <3>3. main_state = "running" => cpu = "trap" /\ trap_holds = TRUE
        BY <1>1, <3>1 DEF Button
      <3>4. main_state = "running" => left = map_flags /\ (map_flags = "dev" => "fdc" \in mia_boot_settings)
        BY <1>1, <3>3 DEF Mapping
      <3>5. main_state = "running" => Resumable'
        BY <2>2, <3>1, <3>4 DEF Resumable, miaV
      <3> QED BY <2>1, <2>4, <3>1, <3>2, <3>3, <3>5, NothingLoads
    <2>7. CASE NotCaptured
      BY <1>1, <2>1, <2>2, <2>7 DEF NotCaptured, Button
    <2>8. CASE ExtWaits
      <3>1. UNCHANGED <<rom, map, trap, ext_state, kernel, dsk_paused>> /\ (ext_state = "loading" => rom_active)
        BY <2>8 DEF ExtWaits, map, trap, capture
      <3> QED BY <1>1, <1>2, <2>1, <2>2, <3>1 DEF Button, Trapped, Caught, Resumable, miaV, map, kernel, trap
    <2> QED BY <1>6, <2>3, <2>5, <2>6, <2>7, <2>8 DEF ExtTask
  <1>7. CASE ButtonTask
    <2>1. UNCHANGED <<miaV, map, dsk_paused, is_breaking, cpu, left>>
      BY <1>7 DEF ButtonTask, oric
    <2>2. CASE NoPress
      <3>1. ext_state = "loading" => rom_active'
        BY <1>1, <1>2, <1>7 DEF Button, ButtonTask
      <3> QED BY <1>1, <2>1, <2>2, <3>1 DEF NoPress, Button, Trapped, Caught, Resumable, miaV, map, trap
    <2>3. CASE ColdPress /\ UNCHANGED main_state /\ ~main_active
      BY <1>1, <2>1, <2>3 DEF ColdPress, main_active, Button, Trapped, Caught, trap
    <2>4. CASE WarmPress /\ UNCHANGED main_state /\ main_active
      BY <1>1, <2>1, <2>4 DEF WarmPress, main_active, Button, Trapped, Caught
    <2>5. CASE LongPress
      <3>1. map_trap = TRUE => main_state \in {"running", "stopping"}
        <4>1. main_state = "starting" /\ turn = "button" => ~Caught
          BY <1>1 DEF Kernel, Caught
        <4> QED BY <1>1, <1>7, <4>1 DEF ButtonTask, Button, Trapped, States
      <3>2. main_state' = IF main_state \in {"running", "stopping"} THEN "stopping" ELSE "stopped"
        BY <1>1, <2>5 DEF LongPress, main_stop, States
      <3>3. map_trap' = TRUE => trap_holds = TRUE /\ main_state' = "stopping"
        BY <1>1, <2>5, <3>1, <3>2 DEF LongPress, Button, Trapped, trap
      <3>4. ext_state' = "diag" /\ UNCHANGED trap
        BY <2>5 DEF LongPress
      <3> QED BY <3>2, <3>3, <3>4 DEF Button, Trapped, Caught, trap
    <2> QED BY <1>7, <2>2, <2>3, <2>4, <2>5 DEF ButtonTask, ShortPress
  <1>8. CASE EndOfPass
    <2>1. UNCHANGED <<saved_map_flags, trap_holds, ext_state, snoop_flag>> /\ turn = "end" /\ is_breaking' = FALSE
      BY <1>8 DEF EndOfPass
    <2>2. CASE main_state = "starting" /\ is_breaking = FALSE
      <3>1. main_state' = "running" /\ UNCHANGED <<miaV, map_trap, dsk_paused, left>>
        BY <1>8, <2>2 DEF EndOfPass, Run
      <3> QED BY <1>1, <2>1, <2>2, <3>1 DEF Button, Trapped, Caught, Kernel
    <2>3. CASE main_state = "stopping" \/ (main_state = "running" /\ is_breaking = TRUE)
      <3>1. main_state' = "stopped" /\ map_trap' = FALSE
        BY <1>8, <2>3 DEF EndOfPass, Broken, Stop, MiaStop
      <3> QED BY <1>1, <2>1, <2>3, <3>1 DEF Button, Trapped, Caught
    <2>4. CASE main_state = "stopped" \/ (main_state = "running" /\ is_breaking = FALSE)
      <3>1. main_state' = main_state /\ UNCHANGED <<cpu, miaV, map_trap, dsk_paused, left>>
        BY <1>8, <2>4 DEF EndOfPass, Broken
      <3>2. ext_state = "loading" => rom_active'
        BY <1>1, <1>2, <1>8, <2>1, RomIsLeft DEF Button
      <3> QED BY <1>1, <2>1, <2>4, <3>1, <3>2 DEF Button, Trapped, Caught, Resumable, miaV
    <2>5. ~(main_state = "starting" /\ is_breaking = TRUE)
      BY <1>1 DEF Kernel
    <2> QED BY <1>1, <2>2, <2>3, <2>4, <2>5 DEF Switches, States
  <1> QED BY <1>3, <1>4, <1>5, <1>6, <1>7, <1>8, <1>10, <1>11, <1>12 DEF Next, Loop

(***************************************************************************)
(* What is in extended RAM: n chunks of an image; a ROM that is ready for  *)
(* the 6502, whose vectors are its own unless it is to be caught.          *)
(***************************************************************************)
Filled(r, img, n) ==
  /\ \A c \in 1 .. n : r.code[c] = img
  /\ n > 0 => r.tap = FALSE
  /\ n = Chunks => r.vec = img
Contents ==
  /\ rom.state = "loading" => Filled(xram[Region(File(rom).img)], File(rom).img, File(rom).pos)
  /\ rom.state = "writing" =>
       /\ rom.chunk = File(rom) /\ File(rom).pos > 0
       /\ Filled(xram[Region(File(rom).img)], File(rom).img, File(rom).pos - 1)
  /\ ext_state = "loading" /\ ~rom_active => Filled(xram.bas, "loci", Chunks)

ReadyNow ==
  \/ cpu = "rom"
  \/ cpu = "asking" /\ mia_boot_state = "idle"
  \/ cpu = "trap" /\ trap_holds = FALSE
  \/ cpu = "held" /\ main_state \in {"starting", "running"}
BasOk(img, tap) == Holds(xram.bas, img, tap) /\ (Trapped \/ xram.bas.vec = img)
DevOk == Holds(xram.dev, "microdis", FALSE) /\ (Trapped \/ xram.dev.vec = "microdis")
Ready ==
  ReadyNow => /\ BasOk(meant.rom, meant.tap)
              /\ meant.fdc = TRUE => DevOk
              /\ meant # Diag => (dsk_paused = TRUE <=> meant.fdc = FALSE)

\* A boot that is under way, and what its loads have left when one is over.
Booting ==
  /\ mia_boot_state # "idle" => (dsk_paused = TRUE <=> "fdc" \notin mia_boot_settings)
  /\ mia_boot_state = "devrom" => "fdc" \in mia_boot_settings
  /\ mia_boot_state = "devrom" /\ ~rom_active => turn \in {"rom", "mia"} /\ DevOk
  /\ mia_boot_state = "bios" /\ "fdc" \in mia_boot_settings => DevOk
  /\ mia_boot_state = "bios" /\ ~rom_active => BasOk(Boots(mia_boot_settings).rom, FALSE)

\* An interrupt finds the trap only while somebody waits for it.
LEMMA TrapIsWaitedFor ==
  ASSUME Calm, Control, Ready, TakeTrap
  PROVE  cpu = "rom" /\ Trapped /\ cpu' = "trap" /\ left' = map_flags
         /\ UNCHANGED <<rom, xram, rom_mounted, miaV, map, trap, dsk_paused, ext_state, snoop_flag,
                        irq_timer, kernel, turn, regs, asked, entry, meant, pressed>>
  <1>1. /\ cpu = "rom" /\ cpu' = "trap" /\ left' = map_flags
        /\ IF map_flags = "ram" THEN map_trap = TRUE ELSE xram[map_flags].vec = "trap"
        /\ UNCHANGED <<rom, xram, rom_mounted, miaV, map, trap, dsk_paused, ext_state, snoop_flag,
                        irq_timer, kernel, turn, regs, asked, entry, meant, pressed>>
    BY DEF Calm, Control, BootSound, TypeOK, Switches, TakeTrap
  <1>2. BasOk(meant.rom, meant.tap) /\ (meant.fdc = TRUE => DevOk)
    BY <1>1 DEF Ready, ReadyNow
  <1>3. meant.rom # "trap"
    BY DEF Control, BootSound, TypeOK, RomsTyped, Images, Systems
  <1>4. map_flags \in {"ram", "bas", "dev"} /\ (map_flags = "dev" => meant.fdc = TRUE)
    BY DEF Control, BootSound, TypeOK, States, Mapping
  <1>5. map_trap = TRUE => Trapped
    BY DEF Control, Button
  <1>6. CASE map_flags = "ram"
    BY <1>1, <1>5, <1>6
  <1>7. CASE map_flags = "bas"
    <2>1. xram.bas.vec = "trap" /\ (Trapped \/ xram.bas.vec = meant.rom)
      BY <1>1, <1>2, <1>7 DEF BasOk
    <2> QED BY <1>1, <1>3, <2>1
  <1>8. CASE map_flags = "dev"
    <2>1. xram.dev.vec = "trap" /\ (Trapped \/ xram.dev.vec = "microdis")
      BY <1>1, <1>2, <1>4, <1>8 DEF DevOk
    <2> QED BY <1>1, <2>1
  <1> QED BY <1>4, <1>6, <1>7, <1>8

\* The end of a pass: a start, a stop, or neither.
LEMMA PassEnds ==
  ASSUME Control, EndOfPass
  PROVE  /\ UNCHANGED <<xram, rom_mounted, saved_map_flags, saved_vector, trap_holds, ext_state,
                        snoop_flag, irq_timer, entry, pressed>>
         /\ turn = "end" /\ turn' = "api" /\ is_breaking' = FALSE
         /\ \/ /\ main_state = "starting" /\ is_breaking = FALSE /\ main_state' = "running" /\ cpu' = "held"
               /\ cpu = "held" /\ map_flags' = "bas" /\ regs' = "free" /\ rom' = rom
               /\ mia_boot_state = "idle" /\ mia_boot_settings = {}
               /\ UNCHANGED <<miaV, map_trap, dsk_paused, meant, left>>
            \/ /\ main_state' = "stopped" /\ cpu' = "held" /\ MiaStop /\ dsk_paused' = TRUE /\ regs' = "free"
               /\ meant' = Menu /\ ~rom_active' /\ ext_state # "loading"
            \/ /\ main_state = "stopped" \/ (main_state = "running" /\ is_breaking = FALSE)
               /\ main_state' = main_state
               /\ rom' = rom \/ (~rom_active' /\ ext_state # "loading" /\ main_state = "stopped")
               /\ UNCHANGED <<cpu, asked, map_flags, regs, miaV, map_trap, dsk_paused, meant, left>>
  <1>1. Kernel /\ Button /\ rom \in Files /\ Switches /\ States
    BY DEF Control, BootSound, TypeOK, RomsTyped, Files
  <1>2. /\ UNCHANGED <<xram, rom_mounted, saved_map_flags, saved_vector, trap_holds, ext_state,
                        snoop_flag, irq_timer, entry, pressed>>
        /\ turn = "end" /\ turn' = "api" /\ is_breaking' = FALSE
    BY DEF EndOfPass
  <1>3. /\ is_breaking = FALSE => rom' = rom
        /\ is_breaking = TRUE => ~rom_active' /\ ext_state # "loading"
    BY <1>1, RomIsLeft, RestsAreFiles DEF Button, rom_active
  <1>4. CASE main_state = "starting"
    <2>1. is_breaking = FALSE /\ mia_boot_state = "idle" /\ mia_boot_settings = {} /\ cpu = "held"
      BY <1>1, <1>4 DEF Kernel
    <2>2. Run
      BY <1>4, <2>1 DEF EndOfPass
    <2> QED BY <1>2, <1>3, <1>4, <2>1, <2>2 DEF Run
  <1>5. CASE main_state = "stopping" \/ (main_state = "running" /\ is_breaking = TRUE)
    <2>1. Stop
      BY <1>5 DEF EndOfPass, Broken
    <2>2. ~rom_active' /\ ext_state # "loading"
      BY <1>1, <1>3, <1>5 DEF Kernel, Button, rom_active, Switches
    <2> QED BY <1>2, <2>1, <2>2 DEF Stop
  <1>6. CASE main_state = "stopped" \/ (main_state = "running" /\ is_breaking = FALSE)
    <2>1. /\ main_state' = main_state
          /\ UNCHANGED <<cpu, asked, map_flags, regs, miaV, map_trap, dsk_paused, meant, left>>
      BY <1>6 DEF EndOfPass, Broken
    <2>2. rom' = rom \/ (~rom_active' /\ ext_state # "loading" /\ main_state = "stopped")
      BY <1>1, <1>3, <1>6 DEF Switches
    <2> QED BY <1>2, <1>6, <2>1, <2>2
  <1> QED BY <1>1, <1>4, <1>5, <1>6 DEF States, Switches

LEMMA MappingStep ==
  ASSUME Calm, Control, Ready, [Next]_vars
  PROVE  Mapping'
  <1>1. Kernel /\ Calls /\ Owner /\ Button /\ Mapping /\ Resuming /\ rom \in Files /\ HasChunk /\ Switches /\ States
    BY DEF Control, BootSound, TypeOK, RomsTyped, Files
  <1>2. CASE Oric
    <2>1. CASE Switch
      <3>1. /\ cpu = "rom" /\ cpu' = cpu /\ (map_flags' = "dev" => meant.fdc)
            /\ UNCHANGED <<meant, mia_boot_settings>>
        BY <2>1 DEF Switch, oric, history, miaV
      <3>2. meant.fdc \in BOOLEAN
        BY DEF Control, BootSound, TypeOK, RomsTyped
      <3> QED BY <1>1, <3>1, <3>2 DEF Mapping
    <2>2. CASE Exited
      <3>1. cpu' = "own" /\ map_flags' = "ram"
        BY <2>2 DEF Exited, MiaStop
      <3> QED BY <3>1 DEF Mapping
    <2>3. CASE TakeTrap
      <3>1. /\ cpu = "rom" /\ Trapped /\ cpu' = "trap" /\ left' = map_flags
            /\ UNCHANGED <<miaV, map, trap, ext_state, kernel, meant>>
        BY <2>3, TrapIsWaitedFor
      <3> QED BY <1>1, <3>1 DEF Mapping, Trapped, Caught, miaV, map, trap, kernel
    <2>4. CASE Snoop
      BY <1>1, <2>4 DEF Snoop, Mapping, Caught, Resumable, miaV, map, trap, kernel, history, oric
    <2>5. CASE Started \/ LeaveTrap \/ Mount \/ Ask \/ Return \/ Exit
      <3>1. cpu' # "trap" /\ cpu # "own" /\ UNCHANGED <<map_flags, meant, mia_boot_settings>>
        BY <2>5 DEF Started, LeaveTrap, Mount, Ask, Return, Exit, map, miaV, history, oric
      <3> QED BY <1>1, <3>1 DEF Mapping
    <2> QED BY <1>2, <2>1, <2>2, <2>3, <2>4, <2>5 DEF Oric
  <1>3. CASE IrqTimeUp \/ UNCHANGED vars \/ RomTask
    BY <1>1, <1>3 DEF IrqTimeUp, vars, RomTask, Mapping, Caught, Resumable, miaV, map, trap, kernel, history, oric
  <1>4. CASE Break
    BY <1>1, <1>4 DEF Break, Mapping, Caught, Resumable, miaV, map, trap, oric
  <1>5. CASE ApiTask
    <2>1. UNCHANGED <<map, trap, ext_state, is_breaking, cpu, left, meant>>
      BY <1>5 DEF ApiTask, history
    <2>2. \/ UNCHANGED <<mia_boot_settings, main_state>>
          \/ regs = "busy" /\ main_state' = main_state
      BY <1>1, <1>5, ApiBoots DEF miaV
    <2>3. regs = "busy" => cpu = "asking" /\ meant.fdc = FALSE
      BY <1>1, Meanings DEF Calls
    <2> QED BY <1>1, <2>1, <2>2, <2>3 DEF Mapping, Caught, Resumable, map, trap
  <1>6. CASE MiaTask
    <2>1. /\ main_state' = main_state /\ MiaBoots
          /\ UNCHANGED <<mia_boot_settings, saved_map_flags, trap_holds, ext_state, is_breaking, cpu, left>>
      BY <1>1, <1>6, MiaDoes DEF trap
    <2>2. CASE UNCHANGED <<map_flags, meant>>
      BY <1>1, <2>1, <2>2 DEF Mapping, Caught, Resumable
    <2>3. CASE /\ mia_boot_state = "bios"
               /\ meant' = Boots(mia_boot_settings)
               /\ map_flags' = IF "resume" \in mia_boot_settings THEN saved_map_flags
                               ELSE IF "fdc" \in mia_boot_settings THEN "dev" ELSE "bas"
      <3>1. cpu = "asking"
        BY <1>1, <2>3 DEF Calls
      <3>2. meant'.fdc = ("fdc" \in mia_boot_settings)
        BY <2>3, BootsMean
      <3>3. map_flags' = "dev" => "fdc" \in mia_boot_settings
        BY <1>1, <2>3 DEF Resuming, Resumable
      <3> QED BY <2>1, <3>1, <3>2, <3>3 DEF Mapping
    <2> QED BY <2>1, <2>2, <2>3 DEF MiaBoots
  <1>7. CASE ExtTask
    <2>1. turn = "ext" /\ is_breaking = FALSE /\ main_state \in {"stopped", "running"}
      BY <1>1, <1>7 DEF ExtTask, Kernel, Switches, States
    <2>2. UNCHANGED <<miaV, cpu, left>>
      BY <1>7 DEF ExtTask, oric
    <2>3. main_state = "stopped" => map_flags # "dev" /\ cpu = "held"
      BY <1>1 DEF Kernel, Mapping
    <2>4. ASSUME Launch, main_state = "running" => cpu = "trap" /\ Resumable' PROVE Mapping'
      <3>1. CASE main_state = "stopped"
        BY <2>2, <2>3, <2>4, <3>1, Meanings DEF Launch, main_active, Mapping
      <3>2. CASE main_state = "running"
        BY <2>2, <2>4, <3>2, Meanings DEF Launch, main_active, Mapping
      <3> QED BY <2>1, <3>1, <3>2
    <2>5. CASE LociLoaded
      <3>1. main_state = "running" => cpu = "trap" /\ Resumable'
        BY <1>1, <2>2, <2>5 DEF LociLoaded, Button, Resumable, miaV
      <3> QED BY <2>4, <2>5, <3>1 DEF LociLoaded
    <2>6. ASSUME NEW x, ~rom_active, ext_boot_loci(x),
                 \/ main_state = "stopped"
                 \/ main_state = "running" /\ cpu = "trap" /\ trap_holds = TRUE /\ Resumable' /\ left = map_flags
          PROVE  Mapping'
      <3>1. CASE Launch
        BY <2>4, <2>6, <3>1
      <3>2. CASE ext_state' = "loading" /\ UNCHANGED <<main_state, map_flags, trap_holds, meant>>
        BY <1>1, <2>2, <2>3, <2>6, <3>2 DEF Mapping, miaV
      <3> QED BY <1>1, <2>6, <3>1, <3>2, LociBegins DEF Launched
    <2>7. CASE BootLoci
      <3>1. main_state = "stopped" /\ ext_boot_loci(xram) /\ ext_state = "boot"
        BY <2>7 DEF BootLoci, main_active
      <3>2. ~rom_active
        BY <3>1, NothingLoads
      <3> QED BY <2>6, <3>1, <3>2
    <2>8. CASE Captured
      <3>1. ext_state = "capture" /\ snoop_flag = TRUE /\ saved_map_flags' = map_flags
        BY <1>1, <2>8 DEF Captured, Switches
      <3>2. PICK x : ext_boot_loci(x)
        BY <2>8 DEF Captured
      <3>3. main_state = "running" => cpu = "trap" /\ trap_holds = TRUE
        BY <1>1, <3>1 DEF Button
      <3>4. main_state = "running" => left = map_flags /\ (map_flags = "dev" => "fdc" \in mia_boot_settings)
        BY <1>1, <3>3 DEF Mapping
      <3>5. main_state = "running" => Resumable'
        BY <2>2, <3>1, <3>4 DEF Resumable, miaV
      <3> QED BY <2>1, <2>6, <3>1, <3>2, <3>3, <3>4, <3>5, NothingLoads
    <2>9. CASE BootDiag
      <3>1. main_state = "stopped" /\ UNCHANGED map /\ meant' = Diag
        BY <2>9 DEF BootDiag, main_active
      <3> QED BY <2>2, <2>3, <3>1, Meanings DEF Mapping, map
    <2>10. CASE NotCaptured
      BY <1>1, <2>2, <2>10 DEF NotCaptured, Mapping, Caught, Resumable, map, miaV
    <2>11. CASE ExtWaits
      BY <1>1, <2>2, <2>11 DEF ExtWaits, Mapping, Caught, Resumable, map, miaV, kernel
    <2> QED BY <1>7, <2>5, <2>7, <2>8, <2>9, <2>10, <2>11 DEF ExtTask
  <1>8. CASE ButtonTask
    <2>1. UNCHANGED <<miaV, map, is_breaking, cpu, left, meant>>
      BY <1>8 DEF ButtonTask, oric
    <2>2. CASE NoPress
      BY <1>1, <2>1, <2>2 DEF NoPress, Mapping, Caught, Resumable, miaV, map, trap
    <2>3. CASE cpu # "trap"
      BY <1>1, <2>1, <2>3 DEF Mapping, miaV, map
    <2>4. CASE cpu = "trap" /\ ~NoPress
      <3>1. trap_holds = TRUE /\ (ShortPress \/ LongPress)
        BY <1>1, <1>8, <2>4 DEF ButtonTask, Switches
      <3>2. main_state \in {"running", "stopping"}
        BY <1>1, <2>4 DEF Kernel, States
      <3>3. Caught' /\ trap_holds' = TRUE
        BY <3>1, <3>2 DEF ShortPress, ColdPress, WarmPress, LongPress, main_stop, main_active, Caught, trap
      <3> QED BY <1>1, <2>1, <3>1, <3>3 DEF Mapping, miaV, map
    <2> QED BY <2>2, <2>3, <2>4
  <1>9. CASE EndOfPass
    <2>1. CASE UNCHANGED <<cpu, asked, map_flags, regs, miaV, map_trap, dsk_paused, meant, left>>
      BY <1>1, <1>9, <2>1, PassEnds DEF Mapping, Caught, Resumable, miaV, Kernel, MiaStop
    <2>2. CASE cpu' = "held" /\ map_flags' = "bas" /\ cpu = "held" /\ UNCHANGED <<miaV, meant>>
      BY <1>1, <2>2 DEF Mapping, miaV
    <2>3. CASE cpu' = "held" /\ MiaStop /\ meant' = Menu
      BY <2>3, Meanings DEF MiaStop, Mapping
    <2> QED BY <1>9, <2>1, <2>2, <2>3, PassEnds
  <1> QED BY <1>2, <1>3, <1>4, <1>5, <1>6, <1>7, <1>8, <1>9 DEF Next, Loop

LEMMA ResumingStep ==
  ASSUME Calm, Control, Ready, [Next]_vars
  PROVE  Resuming'
  <1>1. Kernel /\ Calls /\ Owner /\ Button /\ Mapping /\ Resuming /\ rom \in Files /\ HasChunk /\ Switches /\ States
    BY DEF Control, BootSound, TypeOK, RomsTyped, Files
  <1>2. CASE Oric
    <2>1. CASE Ask
      BY <1>1, <2>1 DEF Ask, Resuming, Resumable, Calls, map, miaV, history
    <2>2. CASE Return
      BY <1>1, <2>2 DEF Return, Resuming, Resumable, Calls, map, miaV, history
    <2>3. CASE LeaveTrap
      <3>1. /\ cpu = "trap" /\ trap_holds = FALSE /\ UNCHANGED <<map, miaV, meant, left, regs, asked>>
        BY <1>1, <2>3 DEF LeaveTrap, Switches
      <3> QED BY <1>1, <3>1 DEF Mapping, Resuming, Resumable, Calls, map, miaV
    <2>4. CASE TakeTrap
      <3>1. /\ cpu = "rom" /\ cpu' = "trap" /\ UNCHANGED <<map, miaV, meant, regs, asked>>
        BY <2>4, TrapIsWaitedFor
      <3> QED BY <1>1, <3>1 DEF Resuming, Calls, miaV
    <2>5. CASE Started \/ Switch
      BY <1>1, <2>5 DEF Started, Switch, Resuming, Resumable, Calls, map, miaV, history, oric
    <2>6. CASE Mount \/ Snoop \/ Exit \/ Exited
      BY <1>1, <2>6 DEF Mount, Snoop, Exit, Exited, MiaStop, Resuming, Resumable, Calls, map, miaV, history, oric
    <2> QED BY <1>2, <2>1, <2>2, <2>3, <2>4, <2>5, <2>6 DEF Oric
  <1>3. CASE IrqTimeUp \/ Break \/ UNCHANGED vars \/ RomTask
    BY <1>1, <1>3 DEF IrqTimeUp, Break, vars, RomTask, Resuming, Resumable, miaV, map, history, oric
  <1>4. CASE ApiTask
    <2>1. UNCHANGED <<map, cpu, asked, entry, left, meant>>
      BY <1>4 DEF ApiTask, history
    <2>2. CASE UNCHANGED <<rom, xram, miaV, dsk_paused, main_state, regs>>
      BY <1>1, <2>1, <2>2 DEF Resuming, Resumable, miaV, map
    <2>3. CASE /\ regs = "busy" /\ mia_boot_state = "idle" /\ mia_boot_settings' = asked
               /\ NoDisc(asked) /\ regs' = "free" /\ mia_boot_state' = mia_boot_state
      <3>1. cpu = "asking" /\ meant = Menu /\ "fdc" \in asked
        BY <1>1, <2>3 DEF Calls, NoDisc
      <3> QED BY <1>1, <2>1, <2>3, <3>1 DEF Resuming, Resumable, map
    <2>4. CASE /\ regs = "busy" /\ mia_boot_state = "idle" /\ mia_boot_settings' = asked
               /\ mia_boot_state' \in {"devrom", "bios"}
      <3>1. cpu = "asking" /\ meant = Menu
        BY <1>1, <2>4 DEF Calls
      <3>2. "resume" \in asked => entry = "nmi" /\ ("fdc" \in asked <=> "fdc" \in mia_boot_settings)
        BY <1>1, <2>4 DEF Resuming
      <3>3. "resume" \in asked => Resumable'
        BY <1>1, <2>1, <2>4, <3>1, <3>2 DEF Resuming, Resumable, map
      <3> QED BY <2>1, <2>4, <3>3 DEF Resuming
    <2> QED BY <1>1, <1>4, <2>2, <2>3, <2>4, ApiBoots
  <1>5. CASE MiaTask
    <2>1. /\ MiaBoots
          /\ UNCHANGED <<mia_boot_settings, saved_map_flags, cpu, asked, entry, left>>
      BY <1>1, <1>5, MiaDoes
    <2>2. CASE mia_boot_state # "idle" /\ mia_boot_state' # "idle" /\ UNCHANGED <<regs, meant>>
      BY <1>1, <2>1, <2>2 DEF Resuming, Resumable
    <2>3. CASE mia_boot_state = "bios" /\ mia_boot_state' = "idle" /\ meant' = Boots(mia_boot_settings) /\ regs' # "busy"
      <3>1. meant' # Menu
        BY <2>3, BootsMean
      <3> QED BY <2>3, <3>1 DEF Resuming
    <2>4. CASE UNCHANGED <<mia_boot_state, regs, meant>>
      BY <1>1, <2>1, <2>4 DEF Resuming, Resumable
    <2> QED BY <2>1, <2>2, <2>3, <2>4 DEF MiaBoots
  <1>6. CASE ExtTask
    <2>1. turn = "ext" /\ is_breaking = FALSE /\ main_state \in {"stopped", "running"}
      BY <1>1, <1>6 DEF ExtTask, Kernel, Switches, States
    <2>2. UNCHANGED <<miaV, cpu, regs, asked, entry, left>>
      BY <1>6 DEF ExtTask, oric
    <2>3. CASE cpu \in {"held", "trap"}
      BY <1>1, <2>2, <2>3 DEF Resuming, Calls, miaV
    <2>4. CASE cpu \notin {"held", "trap"}
      <3>1. main_state = "running" /\ ext_state # "loading" /\ ~(ext_state = "capture" /\ snoop_flag)
        BY <1>1, <2>1, <2>4 DEF Kernel, Button
      <3>2. UNCHANGED <<map, meant>>
        BY <1>6, <3>1 DEF ExtTask, LociLoaded, BootLoci, BootDiag, Captured, NotCaptured, ExtWaits, main_active
      <3> QED BY <1>1, <2>2, <3>2 DEF Resuming, Resumable, map, miaV
    <2> QED BY <2>3, <2>4
  <1>7. CASE ButtonTask
    BY <1>1, <1>7 DEF ButtonTask, Resuming, Resumable, miaV, map, oric
  <1>8. CASE EndOfPass
    <2>1. CASE UNCHANGED <<cpu, asked, map_flags, regs, miaV, map_trap, dsk_paused, meant, left>>
      BY <1>1, <1>8, <2>1, PassEnds DEF Resuming, Resumable, miaV
    <2>2. CASE cpu' = "held" /\ regs' = "free" /\ mia_boot_state' = "idle"
      BY <2>2 DEF Resuming
    <2> QED BY <1>8, <2>1, <2>2, PassEnds DEF MiaStop, miaV
  <1> QED BY <1>2, <1>3, <1>4, <1>5, <1>6, <1>7, <1>8 DEF Next, Loop

LEMMA ControlStep ==
  ASSUME Calm, Control, Ready, [Next]_vars
  PROVE  Control'
BY SoundStep, KernelStep, CallsStep, OwnerStep, ButtonStep, MappingStep, ResumingStep DEF Control

LEMMA WholeIsHeld ==
  ASSUME NEW img \in Images
  PROVE  Holds(Whole(img), img, FALSE) /\ Whole(img).vec = img
BY DEF Holds, Whole

LEMMA FilledIsHeld ==
  ASSUME NEW r \in Roms, NEW img \in Images, Filled(r, img, Chunks)
  PROVE  Holds(r, img, FALSE) /\ r.vec = img
  <1>1. r.code \in [1 .. Chunks -> Images \cup {Null}]
    BY DEF Roms
  <1>2. \A c \in 1 .. Chunks : r.code[c] = img
    BY DEF Filled
  <1>3. r.code = [c \in 1 .. Chunks |-> img]
    BY <1>1, <1>2
  <1>4. Whole(img).code = [c \in 1 .. Chunks |-> img]
    BY DEF Whole
  <1> QED BY <1>3, <1>4, Constants DEF Holds, Filled

LEMMA NothingFilled ==
  ASSUME NEW r, NEW img PROVE Filled(r, img, 0)
BY Constants DEF Filled

LEMMA OneMoreFilled ==
  ASSUME NEW r \in Roms, NEW img \in Images, NEW n \in 1 .. Chunks, Filled(r, img, n - 1)
  PROVE  Filled(WithChunk(r, img, n), img, n)
  <1>1. r.code \in [1 .. Chunks -> Images \cup {Null}] /\ r.tap \in BOOLEAN
    BY DEF Roms
  <1>2. WithChunk(r, img, n).code = [r.code EXCEPT ![n] = img]
    BY DEF WithChunk
  <1>3. \A c \in 1 .. n : WithChunk(r, img, n).code[c] = img
    BY <1>1, <1>2, Constants DEF Filled
  <1>4. n = Chunks => WithChunk(r, img, n).vec = img
    BY DEF WithChunk
  <1>5. WithChunk(r, img, n).tap = FALSE
    <2>1. CASE n = 1
      BY <2>1 DEF WithChunk
    <2>2. CASE n # 1
      <3>1. r.tap = FALSE
        BY <2>2, Constants DEF Filled
      <3> QED BY <3>1 DEF WithChunk
    <2> QED BY <2>1, <2>2
  <1> QED BY <1>3, <1>4, <1>5 DEF Filled

\* Whatever begins a load while none is under way begins with nothing filled.
LEMMA ContentsBegin ==
  ASSUME rom'.state = "loading", NEW img \in Images, File(rom') = Opening(img)
  PROVE  Contents'
  <1>1. rom_active' /\ File(rom').pos = 0
    BY OpensAFile DEF rom_active
  <1>2. Filled(xram'[Region(File(rom').img)], File(rom').img, 0)
    BY NothingFilled
  <1>3. rom'.state # "writing"
    OBVIOUS
  <1> QED BY <1>1, <1>2, <1>3 DEF Contents

LEMMA ContentsRest ==
  ASSUME ~rom_active', ext_state' # "loading"
  PROVE  Contents'
BY DEF Contents, rom_active

LEMMA LoaderFills ==
  ASSUME Calm, Control, Contents, RomTask
  PROVE  Contents'
  <1>1. Owner /\ rom \in Files /\ HasChunk /\ xram \in [bas : Roms, dev : Roms]
    BY DEF Control, BootSound, TypeOK, RomsTyped, Files
  <1>2. ext_state' = ext_state
    BY DEF RomTask
  <1> DEFINE img == File(rom).img
             reg == Region(File(rom).img)
             pos == File(rom).pos
  <1>3. rom_active => img \in Images /\ pos \in 0 .. Chunks /\ pos \in Nat /\ File(rom) # Null
    <2>1. File(rom) \in Places
      BY <1>1 DEF File, Files
    <2> QED BY <1>1, <2>1, Constants DEF Places, Owner
  <1>4. CASE ~rom_active' /\ xram' = xram /\ (rom_active => rom.state = "loading" /\ pos = Chunks)
    <2>1. CASE rom_active /\ ext_state = "loading"
      <3>1. img = "loci" /\ reg = "bas"
        <4>1. Loads(img)
          BY <1>1, <2>1 DEF Owner
        <4>2. mia_boot_state = "idle"
          BY <2>1, NothingLoads DEF Control, Button, Kernel
        <4> QED BY <4>1, <4>2 DEF Loads, Region
      <3>2. Filled(xram.bas, "loci", Chunks)
        BY <1>4, <2>1, <3>1 DEF Contents
      <3> QED BY <1>4, <3>2 DEF Contents, rom_active
    <2>2. CASE ~rom_active \/ ext_state # "loading"
      BY <1>2, <1>4, <2>2 DEF Contents, rom_active
    <2> QED BY <2>1, <2>2
  <1>5. CASE /\ rom.state = "loading" /\ rom'.state = "writing" /\ xram' = xram
             /\ File(rom') # Null /\ File(rom').img = img /\ File(rom').pos = pos + 1
             /\ rom'.chunk = File(rom') /\ pos \in Nat
    <2>1. Filled(xram[reg], img, pos)
      BY <1>5 DEF Contents
    <2>2. File(rom').pos > 0 /\ File(rom').pos - 1 = pos
      BY <1>5
    <2>3. Filled(xram'[Region(File(rom').img)], File(rom').img, File(rom').pos - 1)
      BY <1>5, <2>1, <2>2
    <2> QED BY <1>5, <2>2, <2>3 DEF Contents, rom_active
  <1>6. CASE /\ rom.state = "writing" /\ rom'.state = "loading" /\ File(rom') = File(rom)
             /\ xram' = [xram EXCEPT ![Region(rom.chunk.img)] = WithChunk(@, rom.chunk.img, rom.chunk.pos)]
    <2>1. rom.chunk = File(rom) /\ pos > 0 /\ Filled(xram[reg], img, pos - 1)
      BY <1>6 DEF Contents
    <2>2. img \in Images /\ pos \in 1 .. Chunks
      BY <1>3, <1>6, <2>1 DEF rom_active
    <2>3. xram[reg] \in Roms /\ reg \in {"bas", "dev"}
      BY <1>1 DEF Region
    <2>4. xram'[reg] = WithChunk(xram[reg], img, pos)
      BY <1>1, <1>6, <2>1, <2>3
    <2>5. Filled(xram'[reg], img, pos)
      BY <2>1, <2>2, <2>3, <2>4, OneMoreFilled
    <2> QED BY <1>6, <2>5 DEF Contents, rom_active
  <1> QED BY <1>1, <1>4, <1>5, <1>6, LoaderGoesOn DEF Owner

LEMMA ContentsStep ==
  ASSUME Calm, Control, Contents, [Next]_vars
  PROVE  Contents'
  <1>1. Kernel /\ Calls /\ Owner /\ Button /\ rom \in Files /\ HasChunk /\ Switches /\ States
    BY DEF Control, BootSound, TypeOK, RomsTyped, Files
  <1>2. CASE rom' = rom /\ xram' = xram /\ (ext_state' = "loading" => ext_state = "loading")
    BY <1>2 DEF Contents, rom_active
  <1>3. CASE Oric \/ IrqTimeUp \/ Break \/ UNCHANGED vars
    <2>1. xram' = xram /\ ext_state' = ext_state
      BY <1>3 DEF Oric, Started, Mount, Ask, Return, Switch, Exit, Exited, TakeTrap, Snoop, LeaveTrap, IrqTimeUp,
         Break, vars
    <2> QED BY <1>1, <1>2, <1>3, <2>1, RomIsLeft
  <1>4. cpu = "asking" => ext_state # "loading"
    BY <1>1 DEF Button, Kernel
  <1>5. "microdis" \in Images /\ "loci" \in Images
    BY DEF Images, Systems
  <1>6. CASE ApiTask
    <2>1. ext_state' = ext_state
      BY <1>6 DEF ApiTask
    <2>2. CASE UNCHANGED <<rom, xram>>
      BY <1>2, <2>1, <2>2
    <2>3. CASE LoadSystem("microdis") /\ regs = "busy" /\ mia_boot_state = "idle"
      <3>1. ~rom_active /\ ext_state' # "loading"
        BY <1>1, <1>4, <2>1, <2>3, NothingLoads DEF Calls
      <3> QED BY <1>1, <1>5, <2>3, <3>1, LoadBegins, ContentsBegin, ContentsRest DEF Begun
    <2>4. CASE LoadBios(asked) /\ regs = "busy" /\ mia_boot_state = "idle"
      <3>1. ~rom_active /\ ext_state' # "loading"
        BY <1>1, <1>4, <2>1, <2>4, NothingLoads DEF Calls
      <3>2. SystemRom(asked) \in Images
        BY SystemRoms
      <3> QED BY <1>1, <2>4, <3>1, <3>2, LoadBegins, ContentsBegin, ContentsRest DEF Begun
    <2> QED BY <1>1, <1>6, <2>2, <2>3, <2>4, ApiBoots
  <1>7. CASE MiaTask
    <2>1. ext_state' = ext_state /\ MiaBoots
      BY <1>1, <1>7, MiaDoes
    <2>2. CASE UNCHANGED <<rom, xram>>
      BY <1>2, <2>1, <2>2
    <2>3. CASE mia_boot_state # "idle" /\ ~rom_active
      <3>1. ext_state' # "loading"
        BY <1>1, <1>4, <2>1, <2>3 DEF Calls
      <3>2. rom' = rom => Contents'
        BY <2>3, <3>1, ContentsRest DEF rom_active
      <3>3. SystemRom(mia_boot_settings) \in Images
        BY SystemRoms
      <3>4. LoadBios(mia_boot_settings) => Contents'
        BY <1>1, <2>3, <3>1, <3>3, LoadBegins, ContentsBegin, ContentsRest DEF Begun
      <3> QED BY <2>1, <2>3, <3>2, <3>4 DEF MiaBoots
    <2> QED BY <2>1, <2>2, <2>3 DEF MiaBoots
  <1>8. CASE ExtTask
    <2>1. ASSUME NEW x, ~rom_active, ext_boot_loci(x) PROVE Contents'
      <3>1. CASE Launched(x)
        BY <3>1, ContentsRest DEF Launched
      <3>2. CASE rom'.state = "loading" /\ File(rom') = Opening("loci")
        BY <1>5, <3>2, ContentsBegin
      <3> QED BY <1>1, <2>1, <3>1, <3>2, LociBegins
    <2>2. CASE LociLoaded
      BY <1>2, <2>2 DEF LociLoaded
    <2>3. CASE BootLoci
      BY <1>1, <2>1, <2>3, NothingLoads DEF BootLoci, main_active
    <2>4. CASE Captured
      <3>1. ext_state = "capture" /\ snoop_flag = TRUE
        BY <1>1, <2>4 DEF Captured, Switches
      <3>2. PICK x : ext_boot_loci(x)
        BY <2>4 DEF Captured
      <3> QED BY <2>1, <3>1, <3>2, NothingLoads
    <2>5. CASE BootDiag
      <3>1. ext_state' # "loading" /\ rom' = rom /\ main_state = "stopped" /\ ext_state = "diag"
        BY <2>5 DEF BootDiag, main_active
      <3>2. ~rom_active
        BY <3>1, NothingLoads
      <3> QED BY <3>1, <3>2, ContentsRest DEF rom_active
    <2>6. CASE NotCaptured \/ ExtWaits
      BY <1>2, <2>6 DEF NotCaptured, ExtWaits
    <2> QED BY <1>8, <2>2, <2>3, <2>4, <2>5, <2>6 DEF ExtTask
  <1>9. CASE ButtonTask
    <2>1. rom' = rom
      BY <1>9 DEF ButtonTask
    <2>2. CASE NoPress
      BY <1>2, <2>1, <2>2 DEF NoPress
    <2>3. CASE ~NoPress
      <3>1. ~rom_active /\ ext_state' # "loading"
        BY <1>9, <2>3 DEF Calm, ButtonTask, ShortPress, ColdPress, WarmPress, LongPress
      <3> QED BY <2>1, <3>1, ContentsRest DEF rom_active
    <2> QED BY <2>2, <2>3
  <1>10. CASE EndOfPass
    <2>1. /\ UNCHANGED <<xram, ext_state>>
          /\ rom' = rom \/ (~rom_active' /\ ext_state # "loading")
      BY <1>10, PassEnds
    <2> QED BY <1>2, <2>1, ContentsRest
  <1> QED BY <1>3, <1>6, <1>7, <1>8, <1>9, <1>10, LoaderFills DEF Next, Loop

\* Extended RAM holds what it held, and traps are set only for who is to be caught.
Kept ==
  /\ Trapped => Trapped'
  /\ \/ xram' = xram
     \/ /\ xram' = [xram EXCEPT !.bas.vec = "trap", !.dev.vec = "trap"]
        /\ Trapped'
LEMMA KeptIsOk ==
  ASSUME xram \in [bas : Roms, dev : Roms], Kept
  PROVE  /\ DevOk => DevOk'
         /\ \A img, tap : BasOk(img, tap) => BasOk(img, tap)'
  <1>1. /\ xram'.bas.code = xram.bas.code /\ xram'.bas.tap = xram.bas.tap
        /\ xram'.dev.code = xram.dev.code /\ xram'.dev.tap = xram.dev.tap
        /\ Trapped' \/ (xram'.bas.vec = xram.bas.vec /\ xram'.dev.vec = xram.dev.vec)
    <2>1. CASE xram' = xram
      BY <2>1
    <2>2. CASE xram' = [xram EXCEPT !.bas.vec = "trap", !.dev.vec = "trap"] /\ Trapped'
      <3>1. /\ xram'.bas.code = xram.bas.code /\ xram'.bas.tap = xram.bas.tap
            /\ xram'.dev.code = xram.dev.code /\ xram'.dev.tap = xram.dev.tap
        BY <2>2 DEF Roms
      <3> QED BY <2>2, <3>1
    <2> QED BY <2>1, <2>2 DEF Kept
  <1> QED BY <1>1 DEF Kept, DevOk, BasOk, Holds

LEMMA ReadyStays ==
  ASSUME xram \in [bas : Roms, dev : Roms], Kept, Ready, ReadyNow' => ReadyNow,
         UNCHANGED <<meant, dsk_paused>>
  PROVE  Ready'
  <1>1. CASE ReadyNow
    <2>1. BasOk(meant.rom, meant.tap)'
      <3>1. BasOk(meant.rom, meant.tap)
        BY <1>1 DEF Ready
      <3> QED BY <3>1, KeptIsOk DEF Kept, BasOk, Holds
    <2>2. meant.fdc = TRUE => DevOk'
      BY <1>1, KeptIsOk DEF Ready
    <2> QED BY <1>1, <2>1, <2>2 DEF Ready
  <1>2. CASE ~ReadyNow
    BY <1>2 DEF Ready
  <1> QED BY <1>1, <1>2

\* Most steps leave who is to be caught alone.
LEMMA TrappedStays ==
  ASSUME trap_holds' = trap_holds, ext_state' = ext_state \/ is_breaking' = TRUE \/ main_state' = "stopping",
         is_breaking' = is_breaking \/ is_breaking' = TRUE, main_state' = main_state \/ main_state' = "stopping"
  PROVE  Trapped => Trapped'
BY DEF Trapped, Caught

LEMMA ReadyStep ==
  ASSUME Calm, Control, Contents, Ready, Booting, [Next]_vars
  PROVE  Ready'
  <1>1. /\ Kernel /\ Calls /\ Owner /\ Button /\ rom \in Files /\ HasChunk /\ Switches /\ States
        /\ xram \in [bas : Roms, dev : Roms]
    BY DEF Control, BootSound, TypeOK, RomsTyped, Files
  <1>2. ReadyNow => ~rom_active
    BY <1>1, NothingLoads DEF ReadyNow, Button, Owner, Loads, Kernel
  <1>3. CASE Oric
    <2>1. CASE TakeTrap
      <3>1. UNCHANGED <<xram, meant, dsk_paused, trap, ext_state, kernel>> /\ Trapped /\ cpu' = "trap"
        BY <2>1, TrapIsWaitedFor
      <3>2. ~ReadyNow'
        BY <3>1 DEF ReadyNow, Trapped, trap
      <3> QED BY <3>2 DEF Ready
    <2>2. CASE Started \/ Mount \/ Ask \/ Switch \/ Exit \/ Exited \/ Snoop
      <3>1. UNCHANGED <<xram, meant, dsk_paused, trap_holds, ext_state, kernel>>
        BY <2>2 DEF Started, Mount, Ask, Switch, Exit, Exited, Snoop, history, trap
      <3>2. ReadyNow' => ReadyNow
        BY <1>1, <2>2 DEF Started, Mount, Ask, Switch, Exit, Exited, Snoop, ReadyNow, trap, oric, miaV, kernel
      <3>3. Kept
        BY <3>1, TrappedStays DEF Kept, kernel
      <3> QED BY <1>1, <3>1, <3>2, <3>3, ReadyStays
    <2>3. CASE Return
      <3>1. UNCHANGED <<xram, meant, dsk_paused, trap_holds, ext_state, kernel>> /\ ReadyNow
        BY <1>1, <2>3 DEF Return, history, trap, Calls, ReadyNow
      <3>2. Kept
        BY <3>1, TrappedStays DEF Kept, kernel
      <3> QED BY <1>1, <3>1, <3>2, ReadyStays
    <2>4. CASE LeaveTrap
      <3>1. UNCHANGED <<xram, meant, dsk_paused, trap_holds, ext_state, kernel>> /\ ReadyNow
        BY <1>1, <2>4 DEF LeaveTrap, trap, ReadyNow, Switches
      <3>2. Kept
        BY <3>1, TrappedStays DEF Kept, kernel
      <3> QED BY <1>1, <3>1, <3>2, ReadyStays
    <2> QED BY <1>3, <2>1, <2>2, <2>3, <2>4 DEF Oric
  <1>4. CASE IrqTimeUp \/ Break \/ UNCHANGED vars
    <2>1. /\ UNCHANGED <<xram, meant, dsk_paused, trap_holds, ext_state, main_state, cpu, mia_boot_state>>
          /\ is_breaking' = is_breaking \/ is_breaking' = TRUE
      BY <1>4 DEF IrqTimeUp, Break, vars, history, trap, kernel, oric, miaV
    <2>2. Kept
      BY <2>1, TrappedStays DEF Kept
    <2>3. ReadyNow' => ReadyNow
      BY <2>1 DEF ReadyNow
    <2> QED BY <1>1, <2>1, <2>2, <2>3, ReadyStays
  <1>5. CASE ApiTask
    <2>1. UNCHANGED <<meant, trap_holds, ext_state, is_breaking, cpu>>
      BY <1>5 DEF ApiTask, history, trap
    <2>2. CASE UNCHANGED <<xram, mia_boot_state, dsk_paused>> /\ main_state' = main_state
      <3>1. Kept
        BY <2>1, <2>2, TrappedStays DEF Kept
      <3>2. ReadyNow' => ReadyNow
        BY <2>1, <2>2 DEF ReadyNow
      <3> QED BY <1>1, <2>1, <2>2, <3>1, <3>2, ReadyStays
    <2>3. CASE regs = "busy" /\ mia_boot_state' # "idle"
      <3>1. ~ReadyNow'
        BY <1>1, <2>1, <2>3 DEF ReadyNow, Calls
      <3> QED BY <3>1 DEF Ready
    <2> QED BY <1>1, <1>5, <2>2, <2>3, ApiBoots DEF miaV
  <1>6. CASE RomTask
    <2>1. /\ UNCHANGED <<meant, dsk_paused, trap_holds, ext_state, kernel, cpu, mia_boot_state>>
          /\ ~rom_active => xram' = xram
      BY <1>6 DEF RomTask, RomLoading, RomWriting, rom_active, history, trap, oric, miaV
    <2>2. ReadyNow' => ReadyNow
      BY <2>1 DEF ReadyNow, kernel
    <2>3. CASE ReadyNow
      <3>1. Kept
        BY <1>2, <2>1, <2>3, TrappedStays DEF Kept, kernel
      <3> QED BY <1>1, <2>1, <2>2, <3>1, ReadyStays
    <2>4. CASE ~ReadyNow
      BY <2>2, <2>4 DEF Ready
    <2> QED BY <2>3, <2>4
  <1>7. CASE MiaTask
    <2>1. /\ main_state' = main_state /\ MiaBoots
          /\ UNCHANGED <<mia_boot_settings, trap_holds, dsk_paused, ext_state, is_breaking, cpu>>
      BY <1>1, <1>7, MiaDoes DEF trap
    <2>2. CASE mia_boot_state # "idle" /\ mia_boot_state' # "idle"
      <3>1. ~ReadyNow'
        BY <1>1, <2>1, <2>2 DEF ReadyNow, Calls
      <3> QED BY <3>1 DEF Ready
    <2>3. CASE UNCHANGED <<xram, mia_boot_state, meant>>
      <3>1. Kept
        BY <2>1, <2>3, TrappedStays DEF Kept
      <3>2. ReadyNow' => ReadyNow
        BY <2>1, <2>3 DEF ReadyNow
      <3> QED BY <1>1, <2>1, <2>3, <3>1, <3>2, ReadyStays
    <2>4. CASE /\ mia_boot_state = "bios" /\ ~rom_active
               /\ xram' = IF ~rom_mounted /\ "tap" \in mia_boot_settings THEN [xram EXCEPT !.bas.tap = TRUE] ELSE xram
               /\ meant' = Boots(mia_boot_settings)
      <3> DEFINE b == Boots(mia_boot_settings)
      <3>1. b.fdc = ("fdc" \in mia_boot_settings) /\ b # Diag /\ b.tap = (~rom_mounted /\ "tap" \in mia_boot_settings)
        BY BootsMean
      <3> HIDE DEF b
      <3>2. BasOk(b.rom, FALSE) /\ ("fdc" \in mia_boot_settings => DevOk)
            /\ (dsk_paused = TRUE <=> "fdc" \notin mia_boot_settings)
        BY <2>4 DEF Booting, b
      <3>3. Trapped' <=> Trapped
        BY <2>1 DEF Trapped, Caught
      <3>4. /\ xram'.dev = xram.dev /\ xram'.bas.code = xram.bas.code /\ xram'.bas.vec = xram.bas.vec
            /\ xram.bas.tap = FALSE => xram'.bas.tap = b.tap
        <4>1. CASE ~rom_mounted /\ "tap" \in mia_boot_settings
          BY <1>1, <2>4, <3>1, <4>1 DEF Roms
        <4>2. CASE ~(~rom_mounted /\ "tap" \in mia_boot_settings)
          BY <2>4, <3>1, <4>2
        <4> QED BY <4>1, <4>2
      <3>5. meant' = b /\ BasOk(meant.rom, meant.tap)'
        <4>1. Holds(xram'.bas, b.rom, b.tap)
          BY <3>2, <3>4 DEF BasOk, Holds
        <4>2. Trapped' \/ xram'.bas.vec = b.rom
          BY <3>2, <3>3, <3>4 DEF BasOk
        <4>3. meant' = b
          BY <2>4 DEF b
        <4> QED BY <4>1, <4>2, <4>3 DEF BasOk
      <3>6. "fdc" \in mia_boot_settings => DevOk'
        BY <3>2, <3>3, <3>4 DEF DevOk
      <3>7. meant'.fdc = TRUE <=> "fdc" \in mia_boot_settings
        BY <3>1, <3>5
      <3>8. meant'.fdc = FALSE <=> "fdc" \notin mia_boot_settings
        <4>1. meant'.fdc \in BOOLEAN
          BY SoundStep DEF Control, BootSound, TypeOK, RomsTyped
        <4> QED BY <3>7, <4>1
      <3> QED BY <2>1, <3>2, <3>5, <3>6, <3>7, <3>8 DEF Ready
    <2> QED BY <2>1, <2>2, <2>3, <2>4 DEF MiaBoots
  <1>8. CASE ExtTask
    <2>1. turn = "ext" /\ is_breaking = FALSE /\ main_state \in {"stopped", "running"}
      BY <1>1, <1>8 DEF ExtTask, Kernel, Switches, States
    <2>2. UNCHANGED <<cpu, mia_boot_state>>
      BY <1>8 DEF ExtTask, oric, miaV
    <2>3. ASSUME meant' = Menu, dsk_paused' = TRUE, Holds(xram'.bas, "loci", FALSE), xram'.bas.vec = "loci"
          PROVE  Ready'
      BY <2>3, Meanings DEF Ready, BasOk
    <2>4. CASE LociLoaded
      <3>1. Filled(xram.bas, "loci", Chunks) /\ xram.bas \in Roms /\ dsk_paused = TRUE
        BY <1>1, <2>4 DEF LociLoaded, Contents, Button
      <3>2. Holds(xram.bas, "loci", FALSE) /\ xram.bas.vec = "loci"
        BY <3>1, FilledIsHeld DEF Images
      <3> QED BY <2>3, <2>4, <3>1, <3>2 DEF LociLoaded, Launch
    <2>5. ASSUME NEW x \in [bas : Roms, dev : Roms], ~rom_active, ext_boot_loci(x),
                 main_state = "stopped" \/ (cpu = "trap" /\ trap_holds = TRUE)
          PROVE  Ready'
      <3>1. CASE Launched(x)
        <4>1. xram'.bas = Whole("loci") /\ meant' = Menu
          BY <3>1 DEF Launched, Launch
        <4>2. dsk_paused' = TRUE
          BY <1>1, <2>5, LociBegins
        <4>3. Holds(xram'.bas, "loci", FALSE) /\ xram'.bas.vec = "loci"
          BY <4>1, WholeIsHeld DEF Images
        <4> QED BY <2>3, <4>1, <4>2, <4>3
      <3>2. CASE UNCHANGED <<main_state, trap_holds>>
        <4>1. ~ReadyNow'
          BY <1>1, <2>2, <2>5, <3>2 DEF ReadyNow, Kernel
        <4> QED BY <4>1 DEF Ready
      <3> QED BY <1>1, <2>5, <3>1, <3>2, LociBegins
    <2>6. CASE BootLoci
      BY <1>1, <2>5, <2>6, NothingLoads DEF BootLoci, main_active
    <2>7. CASE Captured
      <3>1. ext_state = "capture" /\ snoop_flag = TRUE
        BY <1>1, <2>7 DEF Captured, Switches
      <3> DEFINE x == [xram EXCEPT !.bas.vec = saved_vector.bas, !.dev.vec = saved_vector.dev]
      <3>2. ext_boot_loci(x)
        BY <2>7 DEF Captured
      <3>3. saved_vector.bas \in Vectors /\ saved_vector.dev \in Vectors
        BY DEF Control, BootSound, TypeOK, RomsTyped
      <3>4. x \in [bas : Roms, dev : Roms]
        BY <1>1, <3>3, PutVectors
      <3> HIDE DEF x
      <3>5. main_state = "stopped" \/ (cpu = "trap" /\ trap_holds = TRUE)
        BY <1>1, <3>1 DEF Button
      <3> QED BY <2>5, <3>1, <3>2, <3>4, <3>5, NothingLoads
    <2>8. CASE BootDiag
      <3>1. xram' = [xram EXCEPT !.bas = Whole("diag")] /\ meant' = Diag
        BY <2>8 DEF BootDiag
      <3>2. Holds(xram'.bas, "diag", FALSE) /\ xram'.bas.vec = "diag"
        BY <1>1, <3>1, WholeIsHeld DEF Images
      <3> QED BY <3>1, <3>2, Meanings DEF Ready, BasOk
    <2>9. CASE NotCaptured \/ ExtWaits
      <3>1. /\ UNCHANGED <<xram, meant, dsk_paused, trap_holds, main_state>>
            /\ (ext_state' = ext_state /\ is_breaking' = is_breaking) \/ is_breaking' = TRUE
        BY <2>9 DEF NotCaptured, ExtWaits, kernel
      <3>2. Kept
        BY <3>1, TrappedStays DEF Kept
      <3>3. ReadyNow' => ReadyNow
        BY <2>2, <3>1 DEF ReadyNow
      <3> QED BY <1>1, <3>1, <3>2, <3>3, ReadyStays
    <2> QED BY <1>8, <2>4, <2>6, <2>7, <2>8, <2>9 DEF ExtTask
  <1>9. CASE ButtonTask
    <2>1. UNCHANGED <<cpu, mia_boot_state, meant, dsk_paused, is_breaking>> /\ turn = "button"
      BY <1>9 DEF ButtonTask, oric, miaV
    <2>2. CASE NoPress
      <3>1. Kept
        BY <2>1, <2>2, TrappedStays DEF NoPress, Kept, trap
      <3>2. ReadyNow' => ReadyNow
        BY <2>1, <2>2 DEF NoPress, ReadyNow, trap
      <3> QED BY <1>1, <2>1, <3>1, <3>2, ReadyStays
    <2>3. CASE ColdPress /\ UNCHANGED main_state /\ ~main_active
      <3>1. ~ReadyNow'
        BY <1>1, <2>1, <2>3 DEF ColdPress, main_active, ReadyNow, Kernel
      <3> QED BY <3>1 DEF Ready
    <2>4. CASE WarmPress /\ UNCHANGED main_state
      <3>1. Kept
        BY <2>4 DEF WarmPress, Kept, Trapped, Caught
      <3>2. ReadyNow' => ReadyNow
        BY <2>1, <2>4 DEF WarmPress, ReadyNow
      <3> QED BY <1>1, <2>1, <3>1, <3>2, ReadyStays
    <2>5. CASE LongPress
      <3>1. CASE main_state \in {"stopped", "starting"}
        <4>1. ~ReadyNow'
          BY <1>1, <2>1, <2>5, <3>1 DEF LongPress, main_stop, ReadyNow, Kernel
        <4> QED BY <4>1 DEF Ready
      <3>2. CASE main_state \in {"running", "stopping"}
        <4>1. main_state' = "stopping" /\ UNCHANGED <<xram, trap>>
          BY <2>5, <3>2 DEF LongPress, main_stop
        <4>2. Kept
          BY <4>1 DEF Kept, Trapped, Caught, trap
        <4>3. ReadyNow' => ReadyNow
          BY <2>1, <4>1 DEF ReadyNow, trap
        <4> QED BY <1>1, <2>1, <4>2, <4>3, ReadyStays
      <3> QED BY <1>1, <3>1, <3>2 DEF States
    <2> QED BY <1>9, <2>2, <2>3, <2>4, <2>5 DEF ButtonTask, ShortPress
  <1>10. CASE EndOfPass
    <2>1. UNCHANGED <<xram, trap_holds, ext_state>> /\ is_breaking' = FALSE
      BY <1>10, PassEnds
    <2>2. CASE main_state' = "stopped" /\ cpu' = "held"
      BY <2>2 DEF Ready, ReadyNow
    <2>3. CASE main_state' = "stopped" /\ main_state' = main_state /\ UNCHANGED cpu
      <3>1. cpu' = "held"
        BY <1>1, <2>3 DEF Kernel
      <3> QED BY <2>2, <2>3, <3>1
    <2>4. CASE /\ is_breaking = FALSE /\ main_state' = "running" /\ UNCHANGED <<cpu, mia_boot_state, meant, dsk_paused>>
               /\ main_state \in {"running", "starting"}
      <3>1. Kept
        BY <2>1, <2>4 DEF Kept, Trapped, Caught
      <3>2. ReadyNow' => ReadyNow
        BY <2>1, <2>4 DEF ReadyNow
      <3> QED BY <1>1, <2>4, <3>1, <3>2, ReadyStays
    <2> QED BY <1>10, <2>2, <2>3, <2>4, PassEnds DEF miaV
  <1> QED BY <1>3, <1>4, <1>5, <1>6, <1>7, <1>8, <1>9, <1>10 DEF Next, Loop

LEMMA BootingStep ==
  ASSUME Calm, Control, Contents, Ready, Booting, [Next]_vars
  PROVE  Booting'
  <1>1. /\ Kernel /\ Calls /\ Owner /\ Button /\ rom \in Files /\ HasChunk /\ Switches /\ States
        /\ xram \in [bas : Roms, dev : Roms]
    BY DEF Control, BootSound, TypeOK, RomsTyped, Files
  <1>2. mia_boot_state # "idle" => cpu = "asking" /\ regs = "busy" /\ main_state \in {"running", "stopping"}
    BY NothingLoads
  <1>3. mia_boot_state' = "idle" => Booting'
    BY DEF Booting
  <1>4. ASSUME mia_boot_state # "idle", Kept, rom' = rom,
               mia_boot_state = "devrom" /\ ~rom_active => turn' \in {"rom", "mia"},
               UNCHANGED <<mia_boot_state, mia_boot_settings, dsk_paused, rom_mounted>>
        PROVE  Booting'
    <2>1. Boots(mia_boot_settings)' = Boots(mia_boot_settings)
      BY <1>4 DEF Boots
    <2>2. BasOk(Boots(mia_boot_settings).rom, FALSE) => BasOk(Boots(mia_boot_settings).rom, FALSE)'
      BY <1>1, <1>4, <2>1, KeptIsOk DEF Kept, BasOk, Holds
    <2>3. DevOk => DevOk'
      BY <1>1, <1>4, KeptIsOk
    <2> QED BY <1>4, <2>2, <2>3 DEF Booting, rom_active
  <1>5. CASE Oric
    <2>1. CASE mia_boot_state # "idle"
      BY <1>2, <1>5, <2>1 DEF Calm, Oric, Started, Mount, Ask, Return, Switch, Exit, Exited, TakeTrap, Snoop, LeaveTrap
    <2>2. CASE mia_boot_state = "idle"
      BY <1>3, <1>5, <2>2 DEF Oric, Started, Mount, Ask, Return, Switch, Exit, Exited, MiaStop, TakeTrap, Snoop,
         LeaveTrap, miaV
    <2> QED BY <2>1, <2>2
  <1>6. CASE IrqTimeUp \/ Break \/ UNCHANGED vars
    <2>1. /\ UNCHANGED <<xram, rom, rom_mounted, dsk_paused, trap_holds, ext_state, main_state, miaV, turn>>
          /\ is_breaking' = is_breaking \/ is_breaking' = TRUE
      BY <1>6 DEF IrqTimeUp, Break, vars, trap, kernel
    <2>2. Kept
      BY <2>1, TrappedStays DEF Kept
    <2> QED BY <1>3, <1>4, <2>1, <2>2 DEF Booting, miaV
  <1>7. CASE ApiTask
    <2>1. UNCHANGED <<rom_mounted, trap_holds, ext_state, is_breaking>> /\ turn' = "rom" /\ turn = "api"
      BY <1>7 DEF ApiTask, trap
    <2>2. CASE UNCHANGED <<rom, xram, miaV, dsk_paused, main_state, regs>>
      <3>1. Kept
        BY <2>1, <2>2, TrappedStays DEF Kept
      <3> QED BY <1>3, <1>4, <2>1, <2>2, <3>1 DEF miaV
    <2>3. CASE mia_boot_state = "idle" /\ UNCHANGED mia_boot_state
      BY <1>3, <2>3
    <2>4. CASE /\ regs = "busy" /\ mia_boot_state = "idle" /\ mia_boot_settings' = asked
               /\ "fdc" \in asked /\ LoadSystem("microdis") /\ dsk_paused' = FALSE
               /\ mia_boot_state' = "devrom"
      <3>1. ~rom_active
        BY <2>4, NothingLoads
      <3>2. ~rom_active' => xram'.dev = Whole("microdis")
        BY <1>1, <2>4, <3>1, LoadBegins DEF Region
      <3>3. ~rom_active' => DevOk'
        BY <3>2, WholeIsHeld DEF DevOk, Images, Systems
      <3> QED BY <2>1, <2>4, <3>3 DEF Booting
    <2>5. CASE /\ regs = "busy" /\ mia_boot_state = "idle" /\ mia_boot_settings' = asked
               /\ "fdc" \notin asked /\ LoadBios(asked) /\ dsk_paused' = dsk_paused
               /\ mia_boot_state' = "bios"
      <3>1. ~rom_active
        BY <2>5, NothingLoads
      <3>2. dsk_paused = TRUE
        BY <1>1, <2>5, Meanings DEF Calls, Ready, ReadyNow
      <3>3. ~rom_active' => xram'.bas = Whole(IF rom_mounted THEN "cart" ELSE SystemRom(asked))
        BY <1>1, <2>5, <3>1, LoadBegins, ZenonT(60)
      <3>4. Boots(mia_boot_settings)'.rom = IF rom_mounted THEN "cart" ELSE SystemRom(asked)
        BY <2>1, <2>5 DEF Boots
      <3>5. (IF rom_mounted THEN "cart" ELSE SystemRom(asked)) \in Images
        BY SystemRoms DEF Images
      <3>6. ~rom_active' => BasOk(Boots(mia_boot_settings).rom, FALSE)'
        BY <3>3, <3>4, <3>5, WholeIsHeld DEF BasOk
      <3> QED BY <2>5, <3>2, <3>6 DEF Booting
    <2> QED BY <1>1, <1>7, <2>2, <2>3, <2>4, <2>5, ApiBoots
  <1>8. CASE RomTask
    <2>1. /\ UNCHANGED <<rom_mounted, dsk_paused, trap_holds, ext_state, kernel, miaV>>
          /\ turn' = "mia" /\ (Trapped <=> Trapped')
      BY <1>8 DEF RomTask, trap, Trapped, Caught, kernel
    <2>2. CASE mia_boot_state = "idle"
      BY <1>3, <2>1, <2>2 DEF miaV
    <2>3. CASE mia_boot_state # "idle" /\ ~rom_active
      <3>1. xram' = xram /\ ~rom_active'
        BY <1>1, <1>8, <2>3, LoaderGoesOn DEF rom_active
      <3>2. Boots(mia_boot_settings)' = Boots(mia_boot_settings)
        BY <2>1 DEF Boots, miaV
      <3>3. BasOk(Boots(mia_boot_settings).rom, FALSE) => BasOk(Boots(mia_boot_settings).rom, FALSE)'
        BY <2>1, <3>1, <3>2 DEF BasOk
      <3>4. DevOk => DevOk'
        BY <2>1, <3>1 DEF DevOk
      <3> QED BY <2>1, <2>3, <3>1, <3>3, <3>4 DEF Booting, miaV
    <2>4. CASE mia_boot_state # "idle" /\ rom_active
      <3> DEFINE img == File(rom).img
      <3>1. Loads(img) /\ File(rom) # Null
        BY <1>1, <2>4 DEF Owner
      <3>2. /\ mia_boot_state = "devrom" => img = "microdis" /\ Region(img) = "dev"
            /\ mia_boot_state = "bios" => img = SystemRom(mia_boot_settings) /\ Region(img) = "bas" /\ rom_mounted = FALSE
        BY <2>4, <3>1, SystemRoms DEF Loads, Region
      <3>3. img \in Images
        BY <1>1, <2>4, <3>2, SystemRoms DEF States, Images, Systems
      <3>4. CASE ~rom_active' /\ xram' = xram /\ rom.state = "loading" /\ File(rom).pos = Chunks
        <4>1. Filled(xram[Region(img)], img, Chunks)
          BY <3>4 DEF Contents
        <4>2. xram[Region(img)] \in Roms
          BY <1>1, RegionIsThere
        <4>3. Holds(xram[Region(img)], img, FALSE) /\ xram[Region(img)].vec = img
          BY <3>3, <4>1, <4>2, FilledIsHeld
        <4>4. mia_boot_state = "devrom" => DevOk'
          BY <3>2, <3>4, <4>3 DEF DevOk
        <4>5. mia_boot_state = "bios" => Boots(mia_boot_settings)'.rom = img
          BY <2>1, <3>2 DEF Boots, miaV
        <4>6. mia_boot_state = "bios" => BasOk(Boots(mia_boot_settings).rom, FALSE)'
          BY <3>2, <3>4, <4>3, <4>5 DEF BasOk
        <4>7. DevOk => DevOk'
          BY <2>1, <3>4 DEF DevOk
        <4> QED BY <2>1, <4>4, <4>6, <4>7 DEF Booting, miaV
      <3>5. CASE rom_active' /\ (mia_boot_state = "bios" => xram'.dev = xram.dev)
        <4>1. mia_boot_state = "bios" /\ DevOk => DevOk'
          BY <2>1, <3>5 DEF DevOk
        <4> QED BY <2>1, <3>5, <4>1 DEF Booting, miaV
      <3>6. CASE /\ rom.state = "writing" /\ rom'.state = "loading"
                 /\ xram' = [xram EXCEPT ![Region(rom.chunk.img)] = WithChunk(@, rom.chunk.img, rom.chunk.pos)]
        <4>1. rom.chunk.img = img
          BY <3>6 DEF Contents
        <4>2. mia_boot_state = "bios" => xram'.dev = xram.dev
          BY <1>1, <3>2, <3>6, <4>1
        <4> QED BY <3>5, <3>6, <4>2 DEF rom_active
      <3>7. CASE rom'.state = "writing" /\ xram' = xram
        BY <3>5, <3>7 DEF rom_active
      <3> QED BY <1>1, <1>8, <2>4, <3>4, <3>6, <3>7, LoaderGoesOn DEF Owner
    <2> QED BY <2>2, <2>3, <2>4
  <1>9. CASE MiaTask
    <2>1. /\ main_state' = main_state /\ turn = "mia" /\ MiaBoots
          /\ UNCHANGED <<rom_mounted, mia_boot_settings, trap_holds, dsk_paused, ext_state, is_breaking>>
      BY <1>1, <1>9, MiaDoes DEF trap
    <2>2. Trapped <=> Trapped'
      BY <2>1 DEF Trapped, Caught
    <2>3. CASE /\ mia_boot_state = "devrom" /\ mia_boot_state' = "bios" /\ ~rom_active
               /\ LoadBios(mia_boot_settings)
      <3> DEFINE img == IF rom_mounted THEN "cart" ELSE SystemRom(mia_boot_settings)
      <3>1. \/ xram' = xram /\ rom_active'
            \/ ~rom_active' /\ xram' = [xram EXCEPT !.bas = Whole(img)]
        BY <1>1, <2>3, LoadBegins DEF Begun
      <3>2. xram'.dev = xram.dev /\ (~rom_active' => xram'.bas = Whole(img))
        BY <1>1, <3>1
      <3>3. img \in Images
        BY SystemRoms DEF Images
      <3>4. Boots(mia_boot_settings)'.rom = img
        BY <2>1 DEF Boots
      <3>5. ~rom_active' => BasOk(Boots(mia_boot_settings).rom, FALSE)'
        BY <3>2, <3>3, <3>4, WholeIsHeld DEF BasOk
      <3>6. DevOk'
        BY <2>2, <2>3, <3>2 DEF Booting, DevOk
      <3> QED BY <2>1, <2>3, <3>5, <3>6 DEF Booting
    <2>4. CASE (mia_boot_state = "idle" \/ rom_active) /\ UNCHANGED <<rom, xram, mia_boot_state>>
      <3>1. Kept
        BY <2>2, <2>4 DEF Kept
      <3> QED BY <1>3, <1>4, <2>1, <2>4, <3>1
    <2> QED BY <1>3, <2>1, <2>3, <2>4 DEF MiaBoots
  <1>10. CASE ExtTask
    <2>1. turn = "ext" /\ UNCHANGED <<rom_mounted, miaV>>
      BY <1>10 DEF ExtTask
    <2>2. CASE mia_boot_state = "idle"
      BY <1>3, <2>1, <2>2 DEF miaV
    <2>3. CASE mia_boot_state # "idle"
      <3>1. main_state # "stopped" /\ ext_state # "loading" /\ ~(ext_state = "capture" /\ snoop_flag)
        BY <1>1, <1>2, <2>3 DEF Button, Switches
      <3>2. NotCaptured \/ ExtWaits
        BY <1>10, <3>1 DEF ExtTask, LociLoaded, BootLoci, BootDiag, Captured, main_active
      <3>3. /\ UNCHANGED <<rom, xram, dsk_paused, trap_holds, main_state>>
            /\ (ext_state' = ext_state /\ is_breaking' = is_breaking) \/ is_breaking' = TRUE
        BY <3>2 DEF NotCaptured, ExtWaits, kernel
      <3>4. Kept
        BY <3>3, TrappedStays DEF Kept
      <3>5. ~(mia_boot_state = "devrom" /\ ~rom_active)
        BY <2>1 DEF Booting
      <3> QED BY <1>4, <2>1, <2>3, <3>3, <3>4, <3>5 DEF miaV
    <2> QED BY <2>2, <2>3
  <1>11. CASE ButtonTask
    <2>1. turn = "button" /\ UNCHANGED <<rom, rom_mounted, miaV, dsk_paused, is_breaking>>
      BY <1>11 DEF ButtonTask
    <2>2. CASE mia_boot_state = "idle"
      BY <1>3, <2>1, <2>2 DEF miaV
    <2>3. CASE mia_boot_state # "idle"
      <3>1. main_state \in {"running", "stopping"}
        BY <1>2, <2>3
      <3>2. NoPress => Kept
        BY <2>1, TrappedStays DEF NoPress, Kept, trap
      <3>3. ShortPress => Kept
        BY <3>1 DEF ShortPress, ColdPress, WarmPress, main_active, Kept, Trapped, Caught
      <3>4. LongPress => Kept
        BY <3>1 DEF LongPress, main_stop, Kept, Trapped, Caught, trap
      <3>5. Kept
        BY <1>11, <3>2, <3>3, <3>4 DEF ButtonTask
      <3>6. ~(mia_boot_state = "devrom" /\ ~rom_active)
        BY <2>1 DEF Booting
      <3> QED BY <1>4, <2>1, <2>3, <3>5, <3>6 DEF miaV
    <2> QED BY <2>2, <2>3
  <1>12. CASE EndOfPass
    <2>1. UNCHANGED <<xram, rom_mounted, trap_holds, ext_state>> /\ is_breaking' = FALSE /\ turn = "end"
      BY <1>12, PassEnds
    <2>2. CASE mia_boot_state' = "idle"
      BY <1>3, <2>2
    <2>3. CASE /\ mia_boot_state # "idle" /\ main_state' = main_state
               /\ main_state = "stopped" \/ (main_state = "running" /\ is_breaking = FALSE)
               /\ rom' = rom \/ main_state = "stopped"
               /\ UNCHANGED <<miaV, dsk_paused>>
      <3>1. is_breaking = FALSE /\ rom' = rom
        BY <1>2, <2>3
      <3>2. Kept
        BY <2>1, <2>3, <3>1 DEF Kept, Trapped, Caught
      <3>3. ~(mia_boot_state = "devrom" /\ ~rom_active)
        BY <2>1 DEF Booting
      <3> QED BY <1>4, <2>1, <2>3, <3>1, <3>2, <3>3 DEF miaV
    <2> QED BY <1>12, <2>2, <2>3, PassEnds DEF miaV, MiaStop
  <1> QED BY <1>5, <1>6, <1>7, <1>8, <1>9, <1>10, <1>11, <1>12 DEF Next, Loop

(***************************************************************************)
(* The inductive invariant.                                                *)
(***************************************************************************)
BootInv == Control /\ Contents /\ Ready /\ Booting

LEMMA BootAtFirst ==
  ASSUME Calm, Init
  PROVE  BootInv
  <1>1. BootSound /\ Kernel /\ Calls /\ Button /\ Mapping /\ Resuming
    BY SoundAtFirst, Meanings DEF Init, Kernel, Calls, Button, Trapped, Caught, Mapping, Resuming
  <1>2. rom.state = "idle" \/ (rom.state = "loading" /\ File(rom) = Opening("loci"))
    <2> DEFINE r == [state |-> "idle", fat |-> FALSE, lfs |-> Null, fil |-> Null, chunk |-> Null]
    <2>1. rom = r \/ rom = rom_load(r, "loci")
      BY DEF Init
    <2>2. rom_load(r, "loci").state = "loading" /\ rom_load(r, "loci").fat = FALSE
          /\ rom_load(r, "loci").lfs = Opening("loci")
      BY DEF rom_load
    <2>3. r.state = "idle"
      OBVIOUS
    <2> HIDE DEF r
    <2> QED BY <2>1, <2>2, <2>3 DEF File
  <1>3. Owner
    BY <1>2, OpensAFile DEF Init, Owner, Loads, rom_active, Images
  <1>4. Contents
    <2>1. ext_state # "loading"
      BY DEF Init
    <2>2. rom.state = "loading" => File(rom).pos = 0
      BY <1>2, OpensAFile DEF Images
    <2> QED BY <1>2, <2>1, <2>2, NothingFilled DEF Contents
  <1>5. Ready /\ Booting
    BY DEF Init, Ready, ReadyNow, Booting
  <1> QED BY <1>1, <1>3, <1>4, <1>5 DEF BootInv, Control

LEMMA BootStep ==
  ASSUME Calm, BootInv, [Next]_vars
  PROVE  BootInv'
BY ControlStep, ContentsStep, ReadyStep, BootingStep DEF BootInv

(***************************************************************************)
(* What the 6502 executes is what its last release was for: the whole of   *)
(* one image, patched if and only if that was asked for, with the disc's   *)
(* ROM and a drive that goes on beside it when there is a disc (mia.c:517- *)
(* 570, ext.c:148-368, rom.c:262-391, main.c:176-211).                     *)
(***************************************************************************)
THEOREM MeantIsRun == ASSUME Calm PROVE Spec => []RunsWhatWasMeant
  <1>1. Init => BootInv
    BY BootAtFirst
  <1>2. BootInv /\ [Next]_vars => BootInv'
    BY BootStep
  <1>3. BootInv => RunsWhatWasMeant
    <2> SUFFICES ASSUME BootInv, cpu = "rom"
                 PROVE  /\ Holds(xram.bas, meant.rom, meant.tap)
                        /\ meant.fdc => Holds(xram.dev, "microdis", FALSE)
                        /\ meant # Diag => (dsk_paused <=> ~meant.fdc)
      BY DEF RunsWhatWasMeant
    <2>1. meant.fdc \in BOOLEAN /\ dsk_paused \in BOOLEAN
      BY DEF BootInv, Control, BootSound, TypeOK, RomsTyped, Switches
    <2>2. /\ BasOk(meant.rom, meant.tap) /\ (meant.fdc = TRUE => DevOk)
          /\ meant # Diag => (dsk_paused = TRUE <=> meant.fdc = FALSE)
      BY DEF BootInv, Ready, ReadyNow
    <2> QED BY <2>1, <2>2 DEF BasOk, DevOk
  <1> QED BY <1>1, <1>2, <1>3, PTL DEF Spec

(***************************************************************************)
(* The vectors that the button replaced are the ROMs' own again once       *)
(* nobody waits for the trap (ext.c:246-276).                              *)
(***************************************************************************)
THEOREM VectorsAreBack == ASSUME Calm PROVE Spec => []VectorsBack
  <1>1. Init => BootInv
    BY BootAtFirst
  <1>2. BootInv /\ [Next]_vars => BootInv'
    BY BootStep
  <1>3. BootInv => VectorsBack
    <2> SUFFICES ASSUME BootInv, cpu = "rom", ~Waited
                 PROVE  xram.bas.vec = meant.rom /\ (meant.fdc => xram.dev.vec = "microdis")
      BY DEF VectorsBack
    <2>1. ~Trapped
      BY DEF Waited, Trapped, Caught
    <2>2. BasOk(meant.rom, meant.tap) /\ (meant.fdc = TRUE => DevOk)
      BY DEF BootInv, Ready, ReadyNow
    <2>3. meant.fdc \in BOOLEAN
      BY DEF BootInv, Control, BootSound, TypeOK, RomsTyped
    <2> QED BY <2>1, <2>2, <2>3 DEF BasOk, DevOk
  <1> QED BY <1>1, <1>2, <1>3, PTL DEF Spec

(***************************************************************************)
(* A 6502 that loops in the trap is waited for, or is about to be let out  *)
(* into the menu (ext.c:246-345).                                          *)
(***************************************************************************)
THEOREM NobodyForgotten == ASSUME Calm PROVE Spec => []TrapWatched
  <1>1. Init => BootInv
    BY BootAtFirst
  <1>2. BootInv /\ [Next]_vars => BootInv'
    BY BootStep
  <1>3. BootInv => TrapWatched
    <2> SUFFICES ASSUME BootInv, cpu = "trap" PROVE Waited \/ ext_state = "loading" \/ ~trap_holds
      BY DEF TrapWatched
    <2>1. trap_holds = TRUE => Caught \/ ext_state = "loading"
      BY DEF BootInv, Control, Mapping
    <2>2. trap_holds \in BOOLEAN
      BY DEF BootInv, Control, BootSound, TypeOK, Switches
    <2>3. Caught => Waited
      BY DEF Caught, Waited
    <2> QED BY <2>1, <2>2, <2>3
  <1> QED BY <1>1, <1>2, <1>3, PTL DEF Spec

(***************************************************************************)
(* A program that is resumed finds memory mapped as it was when the trap   *)
(* took it: the mapping that ext_task() saved is that of the trap, and no  *)
(* boot in between asks for another (ext.c:246, mia.c:545-560).            *)
(***************************************************************************)
THEOREM ResumedAsLeft == ASSUME Calm PROVE Spec => ResumesAsLeft
  <1>1. Init => BootInv
    BY BootAtFirst
  <1>2. BootInv /\ [Next]_vars => BootInv'
    BY BootStep
  <1>3. BootInv /\ [Next]_vars => [regs' = "resume" /\ regs # "resume" => map_flags' = left]_vars
    <2> SUFFICES ASSUME BootInv, [Next]_vars, regs' = "resume", regs # "resume" PROVE map_flags' = left
      OBVIOUS
    <2>1. Control
      BY DEF BootInv
    <2>2. MiaTask
      <3>1. ApiTask => regs' = regs \/ regs' = "free"
        BY DEF ApiTask, mia_api_boot
      <3>2. RomTask \/ ExtTask \/ ButtonTask => regs' = regs
        BY DEF RomTask, ExtTask, ButtonTask, oric
      <3>3. EndOfPass => regs' = regs \/ regs' = "free"
        BY DEF EndOfPass, Run, Stop
      <3>4. Oric => regs' \in {regs, "busy", "free"}
        BY DEF Oric, Started, Mount, Ask, Return, Switch, Exit, Exited, TakeTrap, Snoop, LeaveTrap, oric
      <3>5. IrqTimeUp \/ Break \/ UNCHANGED vars => regs' = regs
        BY DEF IrqTimeUp, Break, vars, oric
      <3> QED BY <3>1, <3>2, <3>3, <3>4, <3>5 DEF Next, Loop
    <2>3. MiaBoots
      BY <2>1, <2>2, MiaDoes DEF Control
    <2>4. mia_boot_state = "bios" /\ "resume" \in mia_boot_settings /\ map_flags' = saved_map_flags
      BY <2>3 DEF MiaBoots
    <2> QED BY <2>1, <2>4 DEF Control, Resuming, Resumable
  <1> QED BY <1>1, <1>2, <1>3, PTL DEF Spec, ResumesAsLeft
=============================================================================
