------------------------------- MODULE Files -------------------------------
(***************************************************************************)
(* Files and who holds them: descriptors of the 6502 (api/std.c), mounted  *)
(* images (api/mnt.c with the mount sides of oric/dsk.c, tap.c and rom.c), *)
(* the files of the ROM loader and of the upload at the prompt (mon/rom.c, *)
(* mon/fil.c), the settings (sys/cfg.c), the eight file configurations     *)
(* that files on the internal flash need (sys/lfs.c), and USB sticks that  *)
(* are pulled and put back (usb/msc.c).                                    *)
(*                                                                         *)
(* FatFs waits for a stick in disk_read(), which calls main_task() until   *)
(* the transfer is over: opening a file there is two steps (`waiting'      *)
(* between them), and a stick may come and go in between.  When one comes  *)
(* back its drives are mounted again, one after the other (`check').       *)
(*                                                                         *)
(* An operator that stands just before a mapped one and that nothing uses  *)
(* is a plausible slip in that code, for trying the properties against.    *)
(***************************************************************************)
EXTENDS FatFs

CONSTANTS
  StdFat, StdLfs,  (* descriptors of files on sticks, and on the flash     *)
  Drives,          (* out of 0..3 floppy drives, 4 tape, 5 ROM             *)
  Configs,         (* numbers of the slots of lfs_file_configs             *)
  Names,           (* names of files                                       *)
  Images,          (* names of files that a drive accepts                  *)
  Faults,          (* "open": a file is not there, or cannot be created;   *)
                   (* "flash": a mounted file on the flash is not there;   *)
                   (* "stale": and a floppy drive takes what is read of it *)
  MaxFails,        (* how many opens on the flash fail, at most            *)
  MaxMounts,       (* how often sticks are put in, at most                 *)
  Tidy,            (* programs close what they have open on the flash,     *)
                   (* once, before they end                                *)
  Hotplug          (* sticks come and go while no transfer is under way    *)
                   (* ("quiet") or at "any" time                           *)

ASSUME FilesAssumption ==
  /\ Drives \subseteq 0 .. 5 /\ StdFat \subseteq Nat /\ StdLfs \subseteq Nat
  /\ StdFat \cap StdLfs = {} /\ IsFiniteSet(StdFat) /\ Cardinality(StdFat) <= 16
  /\ Configs \subseteq Nat /\ IsFiniteSet(Configs) /\ Null \notin Configs
  /\ Images \subseteq Names /\ Names # {}
  /\ Faults \subseteq {"open", "flash", "stale"}
  /\ MaxFails \in Nat /\ MaxMounts \in Nat
  /\ NullIsNoRecord(Names)
  /\ Tidy \in BOOLEAN /\ Hotplug \in {"quiet", "any"}

(* File objects.  A drive has one for each kind of file, and so has the    *)
(* ROM loader.                                                             *)
Std(fd) == <<"std", fd>>
Mnt(d)  == <<"mnt", d>>
Rom     == <<"rom", 0>>
Up      == <<"up", 0>>
Cfg     == <<"cfg", 0>>
Held    == {Mnt(d) : d \in Drives} \cup {Rom}
LfsObjs == {Std(fd) : fd \in StdLfs} \cup {Cfg} \cup Held
FatObjs == {Std(fd) : fd \in StdFat} \cup {Up} \cup Held

(* A path names its device by its first digit; 0 is the flash.             *)
Flash == 0
Path  == [dev: {Flash} \cup Sticks, name: Names]
NoPath == [dev |-> -1, name |-> CHOOSE n \in Names : TRUE]

VARIABLES
  lfs,            (* slots in use, each file's slot, the files that        *)
                  (* LittleFS has in its list of open files                *)
  lfs_isopen,     (* the descriptors that std.c has for open               *)
  fat, fil,       (* FatFs and its file objects                            *)
  type, mnt_status, mnt_paths,
  rom_state, lfs_file_open,     (* mon/rom.c                               *)
  fil_state,      (* mon/fil.c                                             *)
  main_state,
  waiting,        (* the open that FatFs waits in, with what its LfnBuf    *)
                  (* says is looked for (`lfn'); or Null                   *)
  check,          (* mnt_check_lost() under way: which stick, which drive  *)
                  (* next; or Null                                         *)
  fails           (* history: opens on the flash that failed               *)

flash == <<lfs, lfs_isopen, fails>>
drives == <<type, mnt_status, mnt_paths>>
loader == <<rom_state, lfs_file_open, fil_state>>
vars == <<flash, fat, fil, drives, loader, main_state, waiting, check>>

(* Core 0 is not inside FatFs.                                             *)
Ready == waiting = Null /\ check = Null
Calling == main_state = "running" /\ Ready
-----------------------------------------------------------------------------
(* Files on the flash: a slot is taken even when the open fails, and by a  *)
(* file that is the first to close it.                                     *)
Free(l) == Configs \ l.busy

Unmarked(l, f, ok) ==
  LET c == IF Free(l) = {} THEN Null ELSE Min(Free(l))
  IN [busy |-> l.busy, cfg |-> [l.cfg EXCEPT ![f] = c],
      list |-> IF ok THEN l.list \cup {f} ELSE l.list]

LfsOpened(l, f, ok) ==
  LET c == IF Free(l) = {} THEN Null ELSE Min(Free(l))
  IN [busy |-> l.busy \cup ({c} \ {Null}), cfg |-> [l.cfg EXCEPT ![f] = c],
      list |-> IF ok THEN l.list \cup {f} ELSE l.list]

SlotKept(l, fs) == [l EXCEPT !.list = @ \ fs]
LfsClosed(l, fs) == [l EXCEPT !.busy = @ \ {l.cfg[f] : f \in fs}, !.list = @ \ fs]

(* Opens that succeed, and those that a fault makes fail.                  *)
Outcome(fault) ==
  {TRUE} \cup (IF fault \in Faults /\ fails < MaxFails THEN {FALSE} ELSE {})
Found == {TRUE} \cup (IF "open" \in Faults THEN {FALSE} ELSE {})
Failing(ok) == fails' = IF ok THEN fails ELSE fails + 1

(* FatFs has the name in LfnBuf and waits for the stick's directory.       *)
Wait(obj, path, acc) ==
  waiting' = [obj |-> obj, path |-> path, acc |-> acc, lfn |-> path.name]

(* The transfer is over, if the stick is still there: FatFs looks for the  *)
(* name that is in LfnBuf now, in the way the operator says.               *)
Arrived(obj) ==
  /\ waiting # Null /\ waiting.obj = obj /\ check = Null
  /\ waiting.path.dev \in Sticks /\ fat.id[waiting.path.dev] # 0
  /\ waiting' = Null
Looked(found) == Opened(fat, waiting.path.dev, waiting.lfn, waiting.acc, found)
-----------------------------------------------------------------------------
(* std.c: descriptors.  The lowest free one is taken; if none is free      *)
(* nothing changes.                                                        *)
StdOpenFlash ==
  LET fds == StdLfs \ lfs_isopen
      fd == Min(fds)
  IN /\ Calling /\ fds # {}
     /\ \E ok \in Outcome("open") :
          /\ lfs' = LfsOpened(lfs, Std(fd), ok)
          /\ lfs_isopen' = IF ok THEN lfs_isopen \cup {fd} ELSE lfs_isopen
          /\ Failing(ok)
     /\ UNCHANGED <<fat, fil, drives, loader, main_state, waiting, check>>

StdOpenStick(path, acc) ==
  LET fds == {fd \in StdFat : fil[Std(fd)] = Null}
  IN /\ Calling /\ fds # {} /\ path.dev \in Sticks /\ fat.id[path.dev] # 0
     /\ Wait(Std(Min(fds)), path, acc)
     /\ UNCHANGED <<flash, fat, fil, drives, loader, main_state, check>>

EndStdOpen(fd) ==
  /\ Arrived(Std(fd))
  /\ \E found \in Found : LET r == Looked(found) IN
       /\ fat' = r.fat
       /\ fil' = [fil EXCEPT ![Std(fd)] = r.fil]
  /\ UNCHANGED <<flash, drives, loader, main_state, check>>

(* A descriptor that is not open is accepted.                              *)
StdCloseFlash(fd) ==
  /\ Calling /\ (Tidy => fd \in lfs_isopen)
  /\ lfs' = LfsClosed(lfs, {Std(fd)})
  /\ lfs_isopen' = lfs_isopen \ {fd}
  /\ UNCHANGED <<fails, fat, fil, drives, loader, main_state, waiting, check>>

CloseFat(obj) ==
  LET r == Closed(fat, fil[obj])
  IN fat' = r.fat /\ fil' = [fil EXCEPT ![obj] = r.fil]

StdCloseStick(fd) ==
  /\ Calling
  /\ CloseFat(Std(fd))
  /\ UNCHANGED <<flash, drives, loader, main_state, waiting, check>>

(* main.c 327-339 and std_stop(): each file that FatFs can still close is  *)
(* closed.  lfs_isopen stays as it is.                                     *)
StdStop ==
  LET open == {Std(fd) : fd \in StdFat}
      valid == {o \in open : Valid(fat, fil[o])}
      users == [i \in Entries |-> Cardinality({o \in valid : fil[o].lockid = i})]
      flashes == {Std(fd) : fd \in lfs_isopen}
  IN /\ fat' = DecShare(fat, users)
     /\ fil' = [o \in FatObjs |-> IF o \in valid THEN Null ELSE fil[o]]
     /\ lfs' = LfsClosed(lfs, flashes)

Stop ==
  /\ Calling /\ (Tidy => lfs_isopen = {})
  /\ main_state' = "stopped"
  /\ StdStop
  /\ UNCHANGED <<lfs_isopen, fails, drives, loader, waiting, check>>

Run ==
  /\ main_state = "stopped" /\ Ready
  /\ main_state' = "running"
  /\ UNCHANGED <<flash, fat, fil, drives, loader, waiting, check>>
-----------------------------------------------------------------------------
(* mnt.c.  A mount takes the old file out first.  The emulation may turn a *)
(* file down, which nobody looks at; a tape takes any file.                *)
Takes(d, name) == d = 4 \/ name \in Images

(* An image that is not there: the tape and the ROM do not notice, and     *)
(* what a floppy drive reads of a file that is not open is LittleFS's to   *)
(* say.                                                                    *)
Unnoticed(d) == IF d > 3 THEN {TRUE} ELSE IF "stale" \in Faults THEN BOOLEAN ELSE {FALSE}

Umounted(d) ==
  IF type[d] = "FAT" THEN Closed(fat, fil[Mnt(d)]) ELSE [fat |-> fat, fil |-> fil[Mnt(d)]]

UmountDrive(d) ==
  /\ type' = [type EXCEPT ![d] = "EMPTY"]
  /\ lfs' = IF type[d] = "LFS" THEN LfsClosed(lfs, {Mnt(d)}) ELSE lfs
  /\ fat' = Umounted(d).fat

(* mnt_api_mount(): the old file goes.  For a file on a stick FatFs waits; *)
(* it clears the object when there is no stick.                            *)
Mount(d, path) ==
  /\ Calling
  /\ UmountDrive(d)
  /\ IF path.dev \in Sticks /\ fat.id[path.dev] = 0
     THEN /\ fil' = [fil EXCEPT ![Mnt(d)] = Null]
          /\ mnt_paths' = [mnt_paths EXCEPT ![d] = path]
          /\ UNCHANGED waiting
     ELSE /\ fil' = [fil EXCEPT ![Mnt(d)] = Umounted(d).fil]
          /\ Wait(Mnt(d), path, Writing)
          /\ UNCHANGED mnt_paths
  /\ UNCHANGED <<lfs_isopen, fails, mnt_status, loader, main_state, check>>

EndMountFlash(d) ==
  /\ waiting # Null /\ waiting.obj = Mnt(d) /\ waiting.path.dev = Flash
  /\ \E ok \in Outcome("flash"), unnoticed \in Unnoticed(d) :
       LET taken == IF ok THEN Takes(d, waiting.path.name) ELSE unnoticed
       IN /\ lfs' = LfsOpened(lfs, Mnt(d), ok)
          /\ type' = [type EXCEPT ![d] = IF taken THEN "LFS" ELSE "EMPTY"]
          /\ Failing(ok)
  /\ mnt_status' = [mnt_status EXCEPT ![d] = "MOUNTED"]
  /\ mnt_paths' = [mnt_paths EXCEPT ![d] = waiting.path]
  /\ waiting' = Null
  /\ UNCHANGED <<lfs_isopen, fat, fil, loader, main_state, check>>

(* The file opened for drive d, and what becomes of the drive.             *)
Loaded(d, r) ==
  /\ fat' = r.fat
  /\ fil' = [fil EXCEPT ![Mnt(d)] = r.fil]
  /\ type' = [type EXCEPT ![d] =
                IF r.fil # Null /\ Takes(d, r.fil.name) THEN "FAT" ELSE "EMPTY"]
  /\ mnt_status' = IF r.fil = Null THEN mnt_status ELSE [mnt_status EXCEPT ![d] = "MOUNTED"]

(* The path is remembered whatever came of the mount.                      *)
EndMountStick(d) ==
  /\ Arrived(Mnt(d))
  /\ \E found \in Found : Loaded(d, Looked(found))
  /\ mnt_paths' = [mnt_paths EXCEPT ![d] = waiting.path]
  /\ UNCHANGED <<flash, loader, main_state, check>>

Umount(d) ==
  /\ Calling
  /\ UmountDrive(d)
  /\ fil' = [fil EXCEPT ![Mnt(d)] = Umounted(d).fil]
  /\ mnt_status' = [mnt_status EXCEPT ![d] = "UNMOUNTED"]
  /\ UNCHANGED <<lfs_isopen, fails, mnt_paths, loader, main_state, waiting, check>>
-----------------------------------------------------------------------------
(* msc.c.  A stick is put in: the inquiry's callback mounts its volume and *)
(* looks for the drives that were lost.                                    *)
Undisturbed == Hotplug = "quiet" => waiting = Null

Plug(s) ==
  /\ fat.id[s] = 0 /\ check = Null /\ fat.Fsid < MaxMounts /\ Undisturbed
  /\ fat' = Mounted(fat, s)
  /\ check' = [dev |-> s, next |-> 0]
  /\ UNCHANGED <<flash, fil, drives, loader, main_state, waiting>>

LostOn(s) == {d \in Drives : mnt_status[d] = "LOST" /\ mnt_paths[d].dev = s}

(* mnt_check_lost(): the next lost drive is mounted from its path.         *)
CheckLost ==
  LET lost == {d \in LostOn(check.dev) : d >= check.next}
      d == Min(lost)
      name == mnt_paths[d].name
  IN /\ check # Null
     /\ IF lost = {}
        THEN /\ check' = Null
             /\ UNCHANGED <<lfs, fat, fil, type, mnt_status, waiting>>
        ELSE /\ \E found \in Found :
                  Loaded(d, Opened(Umounted(d).fat, check.dev, name, Writing, found))
             /\ lfs' = IF type[d] = "LFS" THEN LfsClosed(lfs, {Mnt(d)}) ELSE lfs
             /\ waiting' = IF waiting = Null THEN Null ELSE [waiting EXCEPT !.lfn = name]
             /\ check' = [check EXCEPT !.next = d + 1]
     /\ UNCHANGED <<lfs_isopen, fails, mnt_paths, loader, main_state>>

(* tuh_msc_umount_cb(): the stick is gone, and its drives are lost.        *)
LoseNone(s) == UNCHANGED mnt_status

LoseDrives(s) ==
  mnt_status' = [d \in Drives |->
    IF mnt_status[d] = "MOUNTED" /\ mnt_paths[d].dev = s THEN "LOST" ELSE mnt_status[d]]

Pull(s) ==
  /\ fat.id[s] # 0 /\ check = Null /\ Undisturbed
  /\ fat' = Unmounted(fat, s)
  /\ LoseDrives(s)
  /\ UNCHANGED <<flash, fil, type, mnt_paths, loader, main_state, waiting, check>>
-----------------------------------------------------------------------------
(* mon/rom.c: the loader, used from the prompt when it is idle and its     *)
(* files are closed.  A file without a header is left for rom_task().      *)
Prompt == main_state = "stopped" /\ Ready /\ rom_state = "IDLE" /\ fil_state = "IDLE"
LoaderFree == Prompt /\ ~lfs_file_open /\ ~Valid(fat, fil[Rom])

RomLoadFlash ==
  /\ LoaderFree
  /\ \E ok \in Outcome("open") :
       /\ lfs' = LfsOpened(lfs, Rom, ok)
       /\ lfs_file_open' = ok
       /\ Failing(ok)
       /\ \E header \in {ok, FALSE} : rom_state' = IF header THEN "LOADING" ELSE "IDLE"
  /\ UNCHANGED <<lfs_isopen, fat, fil, drives, fil_state, main_state, waiting, check>>

RomLoadStick(path) ==
  /\ LoaderFree /\ path.dev \in Sticks /\ fat.id[path.dev] # 0
  /\ Wait(Rom, path, Reading)
  /\ UNCHANGED <<flash, fat, fil, drives, loader, main_state, check>>

(* rom_mon_load() goes on to load; rom_mon_install() copies the file to    *)
(* the flash, closes both, and leaves the stick's to rom_task() when the   *)
(* flash takes no new one.  (Of images and raw ROMs it opens nothing: the  *)
(* rewind of the closed fat_fil fails, and nothing changes.)               *)
EndRomLoad ==
  /\ Arrived(Rom)
  /\ \E found \in Found : LET r == Looked(found) IN
       /\ fat' = r.fat
       /\ fil' = [fil EXCEPT ![Rom] = r.fil]
       /\ \E header \in {r.fil # Null, FALSE} :
            rom_state' = IF header THEN "LOADING" ELSE "IDLE"
  /\ UNCHANGED <<flash, drives, lfs_file_open, fil_state, main_state, check>>

EndRomInstall ==
  /\ Arrived(Rom)
  /\ \E found \in Found, ok \in Outcome("open") :
       LET r == Looked(found)
           made == r.fil # Null /\ ok
           c == Closed(r.fat, r.fil)
       IN /\ fat' = IF made THEN c.fat ELSE r.fat
          /\ fil' = [fil EXCEPT ![Rom] = IF made THEN c.fil ELSE r.fil]
          /\ lfs' = IF r.fil = Null THEN lfs
                    ELSE IF ok THEN LfsClosed(LfsOpened(lfs, Rom, ok), {Rom})
                    ELSE LfsOpened(lfs, Rom, ok)
          /\ fails' = IF r.fil # Null /\ ~ok THEN fails + 1 ELSE fails
  /\ UNCHANGED <<lfs_isopen, drives, loader, main_state, check>>

(* rom_task(): the end of a load, by itself or by a break, and what is     *)
(* open of an idle loader is closed.                                       *)
RomTask ==
  /\ Ready
  /\ rom_state # "IDLE" \/ lfs_file_open \/ fil[Rom] # Null
  /\ rom_state' = "IDLE"
  /\ lfs_file_open' = FALSE
  /\ lfs' = IF lfs_file_open THEN LfsClosed(lfs, {Rom}) ELSE lfs
  /\ CloseFat(Rom)
  /\ UNCHANGED <<lfs_isopen, fails, drives, fil_state, main_state, waiting, check>>
-----------------------------------------------------------------------------
(* mon/fil.c: a file is received over the console, in chunks.  It is made  *)
(* if it is not there.                                                     *)
Upload(path) ==
  /\ Prompt /\ ~Valid(fat, fil[Up]) /\ path.dev \in Sticks /\ fat.id[path.dev] # 0
  /\ Wait(Up, path, Writing)
  /\ UNCHANGED <<flash, fat, fil, drives, loader, main_state, check>>

EndUploadOpen ==
  /\ Arrived(Up)
  /\ \E found \in Found : LET r == Looked(found) IN
       /\ fat' = r.fat
       /\ fil' = [fil EXCEPT ![Up] = r.fil]
       /\ fil_state' = IF r.fil # Null THEN "COMMAND" ELSE "IDLE"
  /\ UNCHANGED <<flash, drives, rom_state, lfs_file_open, main_state, check>>

(* END, or an empty line.                                                  *)
UploadEnd ==
  /\ Ready /\ fil_state = "COMMAND" /\ fil_state' = "IDLE"
  /\ CloseFat(Up)
  /\ UNCHANGED <<flash, drives, rom_state, lfs_file_open, main_state, waiting, check>>

(* A timeout, a bad chunk, a write that fails, or a break (fil_reset()):   *)
(* fil_task() closes the file.                                             *)
UploadFails ==
  /\ Ready /\ fil_state = "COMMAND" /\ fil_state' = "IDLE"
  /\ UNCHANGED <<flash, fat, fil, drives, rom_state, lfs_file_open, main_state, waiting, check>>

FilTask ==
  /\ Ready /\ fil_state = "IDLE" /\ fil[Up] # Null
  /\ CloseFat(Up)
  /\ UNCHANGED <<flash, drives, loader, main_state, waiting, check>>

(* sys/cfg.c: settings are read at the start and written at every change,  *)
(* and the slot given back, in one go; not when the file cannot be opened. *)
CfgFile ==
  /\ Prompt
  /\ \E ok \in Outcome("open") :
       /\ lfs' = IF ok THEN lfs ELSE LfsOpened(lfs, Cfg, FALSE)
       /\ Failing(ok)
  /\ UNCHANGED <<lfs_isopen, fat, fil, drives, loader, main_state, waiting, check>>
-----------------------------------------------------------------------------
Init ==
  /\ lfs = [busy |-> {}, cfg |-> [f \in LfsObjs |-> Null], list |-> {}]
  /\ lfs_isopen = {} /\ fails = 0
  /\ fat = FatInit /\ fil = [o \in FatObjs |-> Null]
  /\ type = [d \in Drives |-> "EMPTY"]
  /\ mnt_status = [d \in Drives |-> "UNMOUNTED"]
  /\ mnt_paths = [d \in Drives |-> NoPath]
  /\ rom_state = "IDLE" /\ lfs_file_open = FALSE /\ fil_state = "IDLE"
  /\ main_state = "stopped"
  /\ waiting = Null /\ check = Null

Calls ==
  \/ StdOpenFlash
  \/ \E path \in Path, acc \in {Reading, Writing} : StdOpenStick(path, acc)
  \/ \E fd \in StdLfs : StdCloseFlash(fd)
  \/ \E fd \in StdFat : StdCloseStick(fd)
  \/ \E d \in Drives, path \in Path : Mount(d, path)
  \/ \E d \in Drives : Umount(d)

Answers ==
  \/ \E fd \in StdFat : EndStdOpen(fd)
  \/ \E d \in Drives : EndMountFlash(d) \/ EndMountStick(d)
  \/ EndRomLoad \/ EndRomInstall \/ EndUploadOpen

Monitor ==
  \/ RomLoadFlash \/ CfgFile \/ UploadEnd \/ UploadFails
  \/ \E path \in Path : RomLoadStick(path) \/ Upload(path)

Next ==
  \/ Calls \/ Answers \/ Monitor \/ RomTask \/ FilTask \/ Stop \/ Run \/ CheckLost
  \/ \E s \in Sticks : Plug(s) \/ Pull(s)

Spec == Init /\ [][Next]_vars
-----------------------------------------------------------------------------
(* Every variable keeps its type; FatFs's table has room for every file    *)
(* that is open, and std.c and rom.c have no more files open on the flash  *)
(* than LittleFS knows of (ff.c:941-1033, std.c:18-21, rom.c:29).          *)
LfsType == [busy: SUBSET Configs, cfg: [LfsObjs -> Configs \cup {Null}], list: SUBSET LfsObjs]
Waits == [obj: FatObjs, path: Path, acc: {Reading, Writing}, lfn: Names]

FlashTyped ==
  /\ lfs \in LfsType /\ lfs_isopen \subseteq StdLfs /\ lfs_file_open \in BOOLEAN
  /\ fails \in 0 .. MaxFails
FatTyped == fat \in FatType(Names) /\ fil \in [FatObjs -> FilType(Names)]
DrivesTyped ==
  /\ type \in [Drives -> {"EMPTY", "LFS", "FAT"}]
  /\ mnt_status \in [Drives -> {"UNMOUNTED", "MOUNTED", "LOST"}]
  /\ mnt_paths \in [Drives -> Path \cup {NoPath}]
TasksTyped ==
  /\ rom_state \in {"IDLE", "LOADING"} /\ fil_state \in {"IDLE", "COMMAND"}
  /\ main_state \in {"stopped", "running"}
  /\ waiting \in Waits \cup {Null}
  /\ check \in [dev: Sticks, next: 0 .. 6] \cup {Null}
TypeOK == FlashTyped /\ FatTyped /\ DrivesTyped /\ TasksTyped

(* The pool of configurations, seen as Pool: who holds which slot, and     *)
(* will give it back.  The tape and the ROM hold what they think is open.  *)
(* A busy slot that nobody holds is lost.                                  *)
Holding == {Std(fd) : fd \in lfs_isopen} \cup {Mnt(d) : d \in {e \in Drives : type[e] = "LFS"}}
           \cup (IF lfs_file_open THEN {Rom} ELSE {})
UsersOf(c) == {f \in Holding : lfs.cfg[f] = c}
Holder == [c \in Configs |-> IF UsersOf(c) # {} THEN CHOOSE f \in UsersOf(c) : TRUE
                             ELSE IF c \in lfs.busy THEN <<"lost", 0>> ELSE <<"nobody", 0>>]

P == INSTANCE Pool WITH Slots <- Configs, Users <- LfsObjs, holder <- Holder,
                        Nobody <- <<"nobody", 0>>, Lost <- <<"lost", 0>>

(* No two files on the flash that the firmware has for open share a        *)
(* configuration, and none is taken away from one that will still give it  *)
(* back, through all orders of opens, closes, mounts, loads, installs and  *)
(* failures (lfs.c:46-64 and the calls of it).                             *)
ImplementsPool == P!Spec

(* Where drives take every file, slots are lost by opens that fail and in  *)
(* no other way: the file that was not opened keeps its slot, and nobody   *)
(* closes it (std.c:102-104, rom.c:71-77, rom.c:270-280, cfg.c:119-124).   *)
LeaksAreFailures ==
  Cardinality(lfs.busy) <= Cardinality({f \in lfs.list : lfs.cfg[f] # Null}) + fails

(* FatFs's locks belong to files that can still be closed: what a stick    *)
(* took with it, or a close after its return, leaves no file locked and    *)
(* takes no other's lock (ff.c:966-1046, msc.c:101-107, mnt.c:130-143).    *)
LocksOwned ==
  \A i \in Entries \ Blank(fat) :
    LET owners == {o \in FatObjs : Valid(fat, fil[o]) /\ fil[o].lockid = i}
        e == fat.Files[i]
    IN /\ Cardinality(owners) = IF e.ctr = WriteMode THEN 1 ELSE e.ctr
       /\ \A o \in owners : fil[o].stick = e.stick /\ fil[o].name = e.name

(* A drive that is mounted and not empty has its file open, and it is the  *)
(* file that the menu shows (mnt.c:38-97).                                 *)
DriveHasItsFile ==
  \A d \in Drives :
    mnt_status[d] = "MOUNTED" =>
      CASE type[d] = "LFS" -> Mnt(d) \in lfs.list /\ mnt_paths[d].dev = Flash
        [] type[d] = "FAT" -> /\ Valid(fat, fil[Mnt(d)])
                              /\ mnt_paths[d].dev = fil[Mnt(d)].stick
                              /\ mnt_paths[d].name = fil[Mnt(d)].name
        [] OTHER -> TRUE

(* A stopped program leaves no descriptor in use: "Be sure any state is    *)
(* reset in a stop() handler." (main.c:208; std.c:477-489).                *)
StopsClean ==
  main_state = "stopped" =>
    lfs_isopen = {} /\ \A o \in FatObjs \ (Held \cup {Up}) : fil[o] = Null

(* A file that is opened is the one that was asked for, though FatFs waits *)
(* for the stick in between: "These tasks run when FatFs is blocking.      *)
(* Calling FatFs in here may cause undefined behavior." (main.c:98-99).    *)
OpensItsName ==
  [][waiting # Null /\ waiting' = Null /\ fil' # fil /\ fil'[waiting.obj] # Null
       => fil'[waiting.obj].name = waiting.path.name]_vars
=============================================================================
