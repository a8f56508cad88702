---------------------------- MODULE Files_proofs ----------------------------
(***************************************************************************)
(* Theorems about files and who holds them, for every value of the         *)
(* constants: any number of descriptors, drives, configurations, locks,    *)
(* sticks and failures.                                                    *)
(***************************************************************************)
EXTENDS Files, FatFs_proofs

LEMMA Objects ==
  /\ Rom \in LfsObjs /\ Cfg \in LfsObjs
  /\ \A fd \in StdLfs : Std(fd) \in LfsObjs
  /\ \A d \in Drives : Mnt(d) \in LfsObjs /\ Mnt(d) # Rom
  /\ \A fd \in Nat : Std(fd) # Rom /\ \A d : Std(fd) # Mnt(d)
  /\ \A d, e : Mnt(d) = Mnt(e) => d = e
  /\ \A d, e : Std(d) = Std(e) => d = e
BY DEF LfsObjs, Held, Std, Mnt, Rom, Cfg

(***************************************************************************)
(* The pool of configurations.  `hs' are files that hold what they have.   *)
(***************************************************************************)
Owned(l, hs) ==
  /\ \A f \in hs : l.cfg[f] # Null => l.cfg[f] \in l.busy
  /\ \A f, g \in hs : l.cfg[f] = l.cfg[g] /\ l.cfg[f] # Null => f = g

Users(l, hs, c) == {f \in hs : l.cfg[f] = c}
OneOf(fs) == CHOOSE f \in fs : TRUE
HolderIn(l, hs) ==
  [c \in Configs |-> IF Users(l, hs, c) # {} THEN OneOf(Users(l, hs, c))
                     ELSE IF c \in l.busy THEN <<"lost", 0>> ELSE <<"nobody", 0>>]

Given(h, us) == [c \in Configs |-> IF h[c] \in us THEN <<"nobody", 0>> ELSE h[c]]
Taken(h, g, u) ==
  \E c \in Configs : /\ h[c] = <<"nobody", 0>> /\ \A t \in Configs : h[t] # u
                     /\ g = [h EXCEPT ![c] = u]
Gone(h, g) ==
  \E c \in Configs : h[c] = <<"nobody", 0>> /\ g = [h EXCEPT ![c] = <<"lost", 0>>]

LEMMA OneOfThem ==
  /\ \A us : us # {} => OneOf(us) \in us
  /\ \A f : OneOf({f}) = f
BY DEF OneOf

LEMMA NotAFile == <<"lost", 0>> \notin LfsObjs /\ <<"nobody", 0>> \notin LfsObjs
BY DEF LfsObjs, Held, Std, Mnt, Rom, Cfg

LEMMA WhoHolds ==
  ASSUME NEW l, NEW hs \in SUBSET LfsObjs, NEW c \in Configs
  PROVE  /\ Users(l, hs, c) = {} /\ c \in l.busy => HolderIn(l, hs)[c] = <<"lost", 0>>
         /\ Users(l, hs, c) = {} /\ c \notin l.busy => HolderIn(l, hs)[c] = <<"nobody", 0>>
         /\ \A f : Users(l, hs, c) = {f} => HolderIn(l, hs)[c] = f
         /\ Users(l, hs, c) # {} => HolderIn(l, hs)[c] \in hs
  <1>1. /\ Users(l, hs, c) # {} => HolderIn(l, hs)[c] = OneOf(Users(l, hs, c))
        /\ Users(l, hs, c) = {} => HolderIn(l, hs)[c] = IF c \in l.busy THEN <<"lost", 0>> ELSE <<"nobody", 0>>
    BY DEF HolderIn
  <1>2. Users(l, hs, c) \subseteq hs
    BY DEF Users
  <1>3. \A f : Users(l, hs, c) = {f} => HolderIn(l, hs)[c] = f
    BY <1>1, OneOfThem
  <1>4. Users(l, hs, c) # {} => HolderIn(l, hs)[c] \in hs
    BY <1>1, <1>2, OneOfThem
  <1> QED BY <1>1, <1>3, <1>4

LEMMA SameHolder ==
  ASSUME NEW l, NEW m, NEW hs \in SUBSET LfsObjs, NEW gs \in SUBSET LfsObjs, NEW c \in Configs,
         Users(m, gs, c) = Users(l, hs, c), c \in m.busy <=> c \in l.busy
  PROVE  HolderIn(m, gs)[c] = HolderIn(l, hs)[c]
  <1>1. CASE Users(l, hs, c) = {}
    BY <1>1, WhoHolds
  <1>2. CASE Users(l, hs, c) # {}
    BY <1>2 DEF HolderIn
  <1> QED BY <1>1, <1>2

LEMMA HolderIsAFunction ==
  ASSUME NEW l, NEW hs
  PROVE  HolderIn(l, hs) = [c \in Configs |-> HolderIn(l, hs)[c]]
BY DEF HolderIn

LEMMA Constants ==
  /\ Configs \subseteq Nat /\ Null \notin Configs /\ StdLfs \subseteq Nat
  /\ Drives \subseteq 0 .. 5 /\ MaxFails \in Nat
BY FilesAssumption

\* A file that is opened gets a slot that is free, or none.
LEMMA SlotOf ==
  ASSUME NEW l \in LfsType, NEW f \in LfsObjs, NEW ok \in BOOLEAN
  PROVE  \E c \in Configs \cup {Null} :
           /\ c # Null => c \notin l.busy
           /\ LfsOpened(l, f, ok).busy = l.busy \cup ({c} \ {Null})
           /\ LfsOpened(l, f, ok).cfg = [l.cfg EXCEPT ![f] = c]
           /\ LfsOpened(l, f, ok) \in LfsType
  <1> DEFINE c == IF Free(l) = {} THEN Null ELSE Min(Free(l))
  <1>1. Free(l) \subseteq Nat
    BY Constants DEF Free
  <1>2. c \in Configs \cup {Null} /\ (c # Null => c \notin l.busy)
    BY <1>1, MinOfNats DEF Free
  <1>3. LfsOpened(l, f, ok) = [busy |-> l.busy \cup ({c} \ {Null}), cfg |-> [l.cfg EXCEPT ![f] = c],
                               list |-> IF ok THEN l.list \cup {f} ELSE l.list]
    BY DEF LfsOpened
  <1> HIDE DEF c
  <1>4. [l.cfg EXCEPT ![f] = c] \in [LfsObjs -> Configs \cup {Null}]
    BY <1>2 DEF LfsType
  <1>5. l.busy \cup ({c} \ {Null}) \in SUBSET Configs
    BY <1>2 DEF LfsType
  <1>6. LfsOpened(l, f, ok) \in LfsType
    BY <1>3, <1>4, <1>5 DEF LfsType
  <1> QED BY <1>2, <1>3, <1>6

LEMMA OpenHeld ==
  ASSUME NEW l \in LfsType, NEW hs \in SUBSET LfsObjs, NEW f \in LfsObjs, f \notin hs,
         NEW ok \in BOOLEAN, Owned(l, hs)
  PROVE  LET m == LfsOpened(l, f, ok)
         IN /\ m \in LfsType
            /\ Owned(m, hs \cup {f}) /\ Owned(m, hs)
            /\ \/ HolderIn(m, hs \cup {f}) = HolderIn(l, hs)
               \/ Taken(HolderIn(l, hs), HolderIn(m, hs \cup {f}), f)
            /\ HolderIn(m, hs) = HolderIn(l, hs) \/ Gone(HolderIn(l, hs), HolderIn(m, hs))
  <1> DEFINE m == LfsOpened(l, f, ok)
             h == HolderIn(l, hs)
  <1>1. PICK c \in Configs \cup {Null} :
             /\ c # Null => c \notin l.busy
             /\ m.busy = l.busy \cup ({c} \ {Null})
             /\ m.cfg = [l.cfg EXCEPT ![f] = c]
             /\ m \in LfsType
    BY SlotOf
  <1>2. l.cfg \in [LfsObjs -> Configs \cup {Null}] /\ l.busy \subseteq Configs
    BY DEF LfsType
  <1> HIDE DEF m
  <1>3. m.cfg[f] = c /\ \A g \in hs : m.cfg[g] = l.cfg[g]
    BY <1>1, <1>2
  <1>4. Owned(m, hs \cup {f}) /\ Owned(m, hs)
    BY <1>1, <1>3 DEF Owned
  <1>5. \A b \in Configs : Users(m, hs, b) = Users(l, hs, b)
    BY <1>3 DEF Users
  <1>6. \A b \in Configs : Users(m, hs \cup {f}, b) = IF b = c THEN Users(l, hs, b) \cup {f}
                                                             ELSE Users(l, hs, b)
    BY <1>3 DEF Users
  <1>7. CASE c = Null
    <2>1. c \notin Configs /\ m.busy = l.busy
      BY <1>1, <1>7, Constants
    <2>2. \A b \in Configs : Users(m, hs \cup {f}, b) = Users(l, hs, b)
      BY <1>6, <2>1
    <2>3. HolderIn(m, hs \cup {f}) = h
      <3>1. \A b \in Configs : HolderIn(m, hs \cup {f})[b] = h[b]
        <4> TAKE b \in Configs
        <4>1. hs \cup {f} \in SUBSET LfsObjs /\ (b \in m.busy <=> b \in l.busy)
          BY <2>1
        <4>2. Users(m, hs \cup {f}, b) = Users(l, hs, b)
          BY <2>2
        <4> QED BY <4>1, <4>2, SameHolder
      <3> QED BY <3>1 DEF HolderIn
    <2>4. HolderIn(m, hs) = h
      <3>1. \A b \in Configs : HolderIn(m, hs)[b] = h[b]
        BY <1>5, <2>1, SameHolder
      <3> QED BY <3>1 DEF HolderIn
    <2> QED BY <1>1, <1>4, <2>3, <2>4 DEF m
  <1>8. CASE c # Null
    <2>1. c \in Configs /\ c \notin l.busy /\ m.busy = l.busy \cup {c}
      BY <1>1, <1>8
    <2>2. Users(l, hs, c) = {}
      BY <1>8, <2>1 DEF Owned, Users
    <2>3. h[c] = <<"nobody", 0>>
      BY <2>1, <2>2, WhoHolds
    <2>4. ASSUME NEW t \in Configs PROVE h[t] # f
      <3>1. h[t] \in hs \cup {<<"lost", 0>>, <<"nobody", 0>>}
        BY WhoHolds
      <3> QED BY <3>1, NotAFile
    <2>5. HolderIn(m, hs \cup {f}) = [h EXCEPT ![c] = f]
      <3>1. Users(m, hs \cup {f}, c) = {f}
        BY <1>6, <2>1, <2>2
      <3>2. HolderIn(m, hs \cup {f})[c] = f
        BY <2>1, <3>1, WhoHolds
      <3>3. ASSUME NEW b \in Configs \ {c} PROVE HolderIn(m, hs \cup {f})[b] = h[b]
        <4>1. Users(m, hs \cup {f}, b) = Users(l, hs, b) /\ (b \in m.busy <=> b \in l.busy)
          BY <1>6, <2>1
        <4> QED BY <4>1, SameHolder
      <3> QED BY <2>1, <3>2, <3>3, HolderIsAFunction DEF HolderIn
    <2>6. HolderIn(m, hs) = [h EXCEPT ![c] = <<"lost", 0>>]
      <3>1. HolderIn(m, hs)[c] = <<"lost", 0>>
        BY <1>5, <2>1, <2>2, WhoHolds
      <3>2. ASSUME NEW b \in Configs \ {c} PROVE HolderIn(m, hs)[b] = h[b]
        <4>1. Users(m, hs, b) = Users(l, hs, b) /\ (b \in m.busy <=> b \in l.busy)
          BY <1>5, <2>1
        <4> QED BY <4>1, SameHolder
      <3> QED BY <2>1, <3>1, <3>2 DEF HolderIn
    <2> QED BY <1>1, <1>4, <2>1, <2>3, <2>4, <2>5, <2>6 DEF m, Taken, Gone
  <1> QED BY <1>7, <1>8

LEMMA CloseHeld ==
  ASSUME NEW l \in LfsType, NEW hs \in SUBSET LfsObjs, NEW fs \in SUBSET hs, Owned(l, hs)
  PROVE  LET m == LfsClosed(l, fs)
         IN /\ m \in LfsType
            /\ Owned(m, hs \ fs)
            /\ HolderIn(m, hs \ fs) = Given(HolderIn(l, hs), fs)
  <1> DEFINE m == LfsClosed(l, fs)
             h == HolderIn(l, hs)
  <1>1. l.cfg \in [LfsObjs -> Configs \cup {Null}] /\ l.busy \subseteq Configs /\ l.list \subseteq LfsObjs
    BY DEF LfsType
  <1>2. /\ m.busy = l.busy \ {l.cfg[f] : f \in fs} /\ m.cfg = l.cfg /\ m.list = l.list \ fs
        /\ m \in LfsType
    BY DEF LfsClosed, LfsType
  <1> HIDE DEF m
  <1>3. Owned(m, hs \ fs)
    BY <1>2 DEF Owned
  <1>4. ASSUME NEW c \in Configs
        PROVE  HolderIn(m, hs \ fs)[c] = IF h[c] \in fs THEN <<"nobody", 0>> ELSE h[c]
    <2>0. c # Null
      BY Constants
    <2>1. CASE Users(l, hs, c) = {}
      <3>1. Users(m, hs \ fs, c) = {} /\ (c \in m.busy <=> c \in l.busy)
        BY <1>2, <2>1 DEF Users
      <3>2. h[c] \in {<<"lost", 0>>, <<"nobody", 0>>}
        BY <2>1, WhoHolds
      <3>3. h[c] \notin fs
        BY <3>2, NotAFile
      <3>4. HolderIn(m, hs \ fs)[c] = h[c]
        <4>1. Users(m, hs \ fs, c) = Users(l, hs, c) /\ hs \ fs \in SUBSET LfsObjs
          BY <3>1, <2>1
        <4> QED BY <3>1, <4>1, SameHolder
      <3> QED BY <3>3, <3>4
    <2>2. CASE Users(l, hs, c) # {}
      <3>1. PICK f \in hs : l.cfg[f] = c
        BY <2>2 DEF Users
      <3>2. Users(l, hs, c) = {f}
        BY <2>0, <3>1 DEF Users, Owned
      <3>3. h[c] = f
        BY <3>2, WhoHolds
      <3>4. CASE f \in fs
        <4>1. Users(m, hs \ fs, c) = {}
          BY <1>2, <3>2, <3>4 DEF Users
        <4>2. c \notin m.busy
          BY <1>2, <3>1, <3>4
        <4> QED BY <3>3, <3>4, <4>1, <4>2, WhoHolds
      <3>5. CASE f \notin fs
        <4>1. Users(m, hs \ fs, c) = {f}
          BY <1>2, <3>2, <3>5 DEF Users
        <4>2. HolderIn(m, hs \ fs)[c] = f
          BY <4>1, WhoHolds
        <4> QED BY <3>3, <3>5, <4>2
      <3> QED BY <3>4, <3>5
    <2> QED BY <2>1, <2>2
  <1>5. HolderIn(m, hs \ fs) = Given(h, fs)
    BY <1>4 DEF HolderIn, Given
  <1> QED BY <1>2, <1>3, <1>5 DEF m

(***************************************************************************)
(* The types of the drives and of the tasks: which steps change which.     *)
(***************************************************************************)
LEMMA FatObjects ==
  /\ Rom \in FatObjs /\ Up \in FatObjs
  /\ \A fd \in StdFat : Std(fd) \in FatObjs
  /\ \A d \in Drives : Mnt(d) \in FatObjs
BY DEF FatObjs, Held

LEMMA LowestStd ==
  ASSUME NEW fds \in SUBSET StdFat, fds # {}
  PROVE  Min(fds) \in StdFat
  <1>1. fds \subseteq Nat
    BY FilesAssumption
  <1> QED BY <1>1, MinOfNats

\* The drive that is next to be mounted again.
LEMMA NextLost ==
  ASSUME NEW ds \in SUBSET Drives, ds # {}
  PROVE  Min(ds) \in ds /\ Min(ds) \in 0 .. 5 /\ Min(ds) + 1 \in 0 .. 6
  <1>1. ds \subseteq Nat /\ ds \subseteq 0 .. 5
    BY Constants
  <1>2. Min(ds) \in ds
    BY <1>1, MinOfNats
  <1>3. Min(ds) \in 0 .. 5
    BY <1>1, <1>2
  <1>4. ASSUME NEW n \in 0 .. 5 PROVE n + 1 \in 0 .. 6
    OBVIOUS
  <1> QED BY <1>2, <1>3, <1>4

LEMMA PathsHaveNames ==
  \A p \in Path \cup {NoPath} : p.name \in Names
  <1>1. NoPath.name \in Names
    BY FilesAssumption DEF NoPath
  <1> QED BY <1>1 DEF Path

LEMMA WaitingTyped ==
  ASSUME DrivesTyped, TasksTyped, [Next]_vars
  PROVE  waiting' \in Waits \cup {Null}
  <1>1. waiting \in Waits \cup {Null}
    BY DEF TasksTyped
  <1>2. ASSUME NEW obj \in FatObjs, NEW path \in Path, NEW acc \in {Reading, Writing}, Wait(obj, path, acc)
        PROVE  waiting' \in Waits
    BY <1>2, PathsHaveNames DEF Wait, Waits
  <1>3. ASSUME NEW path \in Path, NEW acc \in {Reading, Writing}, StdOpenStick(path, acc)
        PROVE  waiting' \in Waits
    BY <1>2, <1>3, LowestStd, FatObjects DEF StdOpenStick
  <1>4. ASSUME NEW path \in Path, NEW d \in Drives, Mount(d, path)
        PROVE  waiting' \in Waits \cup {Null}
    BY <1>1, <1>2, <1>4, FatObjects DEF Mount
  <1>5. ASSUME NEW path \in Path, RomLoadStick(path) \/ Upload(path)
        PROVE  waiting' \in Waits
    BY <1>2, <1>5, FatObjects DEF RomLoadStick, Upload
  <1>6. ASSUME CheckLost
        PROVE  waiting' \in Waits \cup {Null}
    <2> DEFINE lost == {d \in LostOn(check.dev) : d >= check.next}
    <2>1. CASE lost = {}
      BY <1>1, <1>6, <2>1 DEF CheckLost
    <2>2. CASE lost # {}
      <3>1. Min(lost) \in Drives
        BY <2>2, NextLost DEF LostOn
      <3>2. mnt_paths[Min(lost)].name \in Names
        BY <3>1, PathsHaveNames DEF DrivesTyped
      <3>3. waiting' = IF waiting = Null THEN Null ELSE [waiting EXCEPT !.lfn = mnt_paths[Min(lost)].name]
        BY <1>6, <2>2 DEF CheckLost
      <3> QED BY <1>1, <3>2, <3>3 DEF Waits
    <2> QED BY <2>1, <2>2
  <1>7. ASSUME UNCHANGED waiting \/ waiting' = Null
        PROVE  waiting' \in Waits \cup {Null}
    BY <1>1, <1>7
  <1>8. Calls => \/ UNCHANGED waiting
                 \/ \E path \in Path, acc \in {Reading, Writing} : StdOpenStick(path, acc)
                 \/ \E d \in Drives, path \in Path : Mount(d, path)
    BY DEF Calls, StdOpenFlash, StdCloseFlash, StdCloseStick, Umount
  <1>9. Answers => waiting' = Null
    BY DEF Answers, EndStdOpen, EndMountFlash, EndMountStick, EndRomLoad, EndRomInstall,
           EndUploadOpen, Arrived
  <1>10. Monitor => \/ UNCHANGED waiting
                    \/ \E path \in Path : RomLoadStick(path) \/ Upload(path)
    BY DEF Monitor, RomLoadFlash, CfgFile, UploadEnd, UploadFails
  <1>11. RomTask \/ FilTask \/ Stop \/ Run \/ (\E s \in Sticks : Plug(s) \/ Pull(s)) => UNCHANGED waiting
    BY DEF RomTask, FilTask, Stop, Run, Plug, Pull
  <1> QED BY <1>3, <1>4, <1>5, <1>6, <1>7, <1>8, <1>9, <1>10, <1>11 DEF Next, vars

LEMMA CheckTyped ==
  ASSUME TasksTyped, [Next]_vars
  PROVE  check' \in [dev: Sticks, next: 0 .. 6] \cup {Null}
  <1>1. check \in [dev: Sticks, next: 0 .. 6] \cup {Null}
    BY DEF TasksTyped
  <1>2. CheckLost \/ (\E s \in Sticks : Plug(s)) \/ UNCHANGED check
    BY DEF Next, vars, Calls, Answers, Monitor, StdOpenFlash, StdOpenStick, StdCloseFlash,
           StdCloseStick, Mount, Umount, EndStdOpen, EndMountFlash, EndMountStick, EndRomLoad,
           EndRomInstall, EndUploadOpen, RomLoadFlash, CfgFile, UploadEnd, UploadFails,
           RomLoadStick, Upload, RomTask, FilTask, Stop, Run, Pull
  <1>3. ASSUME CheckLost
        PROVE  check' \in [dev: Sticks, next: 0 .. 6] \cup {Null}
    <2> DEFINE lost == {d \in LostOn(check.dev) : d >= check.next}
    <2>1. CASE lost = {}
      BY <1>3, <2>1 DEF CheckLost
    <2>2. CASE lost # {}
      <3>1. lost \in SUBSET Drives
        BY DEF LostOn
      <3>2. check' = [check EXCEPT !.next = Min(lost) + 1] /\ check # Null
        BY <1>3, <2>2 DEF CheckLost
      <3> HIDE DEF lost
      <3>3. Min(lost) + 1 \in 0 .. 6
        BY <2>2, <3>1, NextLost
      <3> QED BY <1>1, <3>2, <3>3
    <2> QED BY <2>1, <2>2
  <1>4. ASSUME NEW s \in Sticks, Plug(s)
        PROVE  check' \in [dev: Sticks, next: 0 .. 6]
    BY <1>4 DEF Plug
  <1> QED BY <1>1, <1>2, <1>3, <1>4

LEMMA PathsTyped ==
  ASSUME DrivesTyped, TasksTyped, [Next]_vars
  PROVE  mnt_paths' \in [Drives -> Path \cup {NoPath}]
  <1>1. mnt_paths \in [Drives -> Path \cup {NoPath}] /\ waiting \in Waits \cup {Null}
    BY DEF DrivesTyped, TasksTyped
  <1>2. \/ UNCHANGED mnt_paths
        \/ \E d \in Drives, path \in Path : Mount(d, path)
        \/ \E d \in Drives : EndMountFlash(d) \/ EndMountStick(d)
    BY DEF Next, vars, Calls, Answers, Monitor, StdOpenFlash, StdOpenStick, StdCloseFlash,
           StdCloseStick, Umount, EndStdOpen, EndRomLoad, EndRomInstall, EndUploadOpen,
           RomLoadFlash, CfgFile, UploadEnd, UploadFails, RomLoadStick, Upload, RomTask,
           FilTask, Stop, Run, Plug, Pull, CheckLost, drives
  <1>3. ASSUME NEW d \in Drives, NEW path \in Path, Mount(d, path)
        PROVE  mnt_paths' \in [Drives -> Path \cup {NoPath}]
    BY <1>1, <1>3 DEF Mount
  <1>4. ASSUME NEW d \in Drives, EndMountFlash(d) \/ EndMountStick(d)
        PROVE  mnt_paths' \in [Drives -> Path \cup {NoPath}]
    BY <1>1, <1>4 DEF EndMountFlash, EndMountStick, Arrived, Waits
  <1> QED BY <1>1, <1>2, <1>3, <1>4

LEMMA StatusTyped ==
  ASSUME DrivesTyped, [Next]_vars
  PROVE  mnt_status' \in [Drives -> {"UNMOUNTED", "MOUNTED", "LOST"}]
  <1>1. mnt_status \in [Drives -> {"UNMOUNTED", "MOUNTED", "LOST"}]
    BY DEF DrivesTyped
  <1>2. \/ UNCHANGED mnt_status
        \/ \E d \in Drives : mnt_status' = [mnt_status EXCEPT ![d] = "MOUNTED"]
        \/ \E d \in Drives : mnt_status' = [mnt_status EXCEPT ![d] = "UNMOUNTED"]
        \/ CheckLost \/ \E s \in Sticks : LoseDrives(s)
    BY DEF Next, vars, Calls, Answers, Monitor, StdOpenFlash, StdOpenStick, StdCloseFlash,
           StdCloseStick, Mount, Umount, EndStdOpen, EndRomLoad, EndRomInstall, EndUploadOpen,
           RomLoadFlash, CfgFile, UploadEnd, UploadFails, RomLoadStick, Upload, RomTask,
           FilTask, Stop, Run, Plug, Pull, EndMountFlash, EndMountStick, Loaded, drives
  <1>3. ASSUME CheckLost
        PROVE  \/ UNCHANGED mnt_status
               \/ \E d : mnt_status' = [mnt_status EXCEPT ![d] = "MOUNTED"]
    <2> DEFINE lost == {d \in LostOn(check.dev) : d >= check.next}
    <2>1. CASE lost = {}
      <3>1. UNCHANGED mnt_status
        BY <1>3, <2>1 DEF CheckLost
      <3> QED BY <3>1
    <2>2. CASE lost # {}
      BY <1>3, <2>2 DEF CheckLost, Loaded
    <2> QED BY <2>1, <2>2
  <1>4. ASSUME NEW s \in Sticks, LoseDrives(s)
        PROVE  mnt_status' \in [Drives -> {"UNMOUNTED", "MOUNTED", "LOST"}]
    BY <1>1, <1>4 DEF LoseDrives
  <1> QED BY <1>1, <1>2, <1>3, <1>4

LEMMA KindsTyped ==
  ASSUME DrivesTyped, [Next]_vars
  PROVE  type' \in [Drives -> {"EMPTY", "LFS", "FAT"}]
  <1>1. type \in [Drives -> {"EMPTY", "LFS", "FAT"}]
    BY DEF DrivesTyped
  <1>2. \/ UNCHANGED type
        \/ \E d \in Drives : UmountDrive(d)
        \/ \E d, r : Loaded(d, r)
        \/ \E d \in Drives : EndMountFlash(d)
    BY DEF Next, vars, Calls, Answers, Monitor, StdOpenFlash, StdOpenStick, StdCloseFlash,
           StdCloseStick, Umount, EndStdOpen, EndRomLoad, EndRomInstall, EndUploadOpen,
           RomLoadFlash, CfgFile, UploadEnd, UploadFails, RomLoadStick, Upload, RomTask,
           FilTask, Stop, Run, Plug, Pull, Mount, EndMountStick, CheckLost, drives
  <1>3. ASSUME NEW d, NEW r, Loaded(d, r)
        PROVE  \E k \in {"FAT", "EMPTY"} : type' = [type EXCEPT ![d] = k]
    BY <1>3 DEF Loaded
  <1>4. ASSUME NEW d \in Drives, EndMountFlash(d)
        PROVE  \E k \in {"LFS", "EMPTY"} : type' = [type EXCEPT ![d] = k]
    BY <1>4 DEF EndMountFlash
  <1>5. ASSUME NEW d \in Drives, UmountDrive(d)
        PROVE  type' = [type EXCEPT ![d] = "EMPTY"]
    BY <1>5 DEF UmountDrive
  <1> QED BY <1>1, <1>2, <1>3, <1>4, <1>5

LEMMA StatesTyped ==
  ASSUME TasksTyped, [Next]_vars
  PROVE  /\ rom_state' \in {"IDLE", "LOADING"} /\ fil_state' \in {"IDLE", "COMMAND"}
         /\ main_state' \in {"stopped", "running"}
  <1>1. /\ rom_state \in {"IDLE", "LOADING"} /\ fil_state \in {"IDLE", "COMMAND"}
        /\ main_state \in {"stopped", "running"}
    BY DEF TasksTyped
  <1>2. Calls => UNCHANGED <<loader, main_state>>
    BY DEF Calls, StdOpenFlash, StdOpenStick, StdCloseFlash, StdCloseStick, Mount, Umount
  <1>3. Answers => /\ UNCHANGED main_state /\ rom_state' \in {rom_state, "IDLE", "LOADING"}
                   /\ fil_state' \in {fil_state, "IDLE", "COMMAND"}
    BY DEF Answers, EndStdOpen, EndMountFlash, EndMountStick, EndRomLoad, EndRomInstall,
           EndUploadOpen, loader
  <1>4. Monitor => /\ UNCHANGED main_state /\ rom_state' \in {rom_state, "IDLE", "LOADING"}
                   /\ fil_state' \in {fil_state, "IDLE"}
    BY DEF Monitor, RomLoadFlash, CfgFile, UploadEnd, UploadFails, RomLoadStick, Upload, loader
  <1>5. RomTask \/ FilTask \/ Stop \/ Run \/ CheckLost \/ (\E s \in Sticks : Plug(s) \/ Pull(s))
          => /\ main_state' \in {main_state, "stopped", "running"}
             /\ rom_state' \in {rom_state, "IDLE"} /\ fil_state' = fil_state
    BY DEF RomTask, FilTask, Stop, Run, CheckLost, Plug, Pull, loader
  <1> QED BY <1>1, <1>2, <1>3, <1>4, <1>5 DEF Next, vars, loader

Settled == DrivesTyped /\ TasksTyped

LEMMA SettledStep ==
  ASSUME Settled, [Next]_vars
  PROVE  Settled'
BY WaitingTyped, CheckTyped, PathsTyped, StatusTyped, KindsTyped, StatesTyped
   DEF Settled, DrivesTyped, TasksTyped

LEMMA SettledAtFirst == Init => Settled
BY DEF Init, Settled, DrivesTyped, TasksTyped

(***************************************************************************)
(* What holds of the files on the flash in every state: a slot that a file *)
(* holds is busy and nobody else's, and the file that an open waits for is *)
(* not held yet.                                                           *)
(***************************************************************************)
NotYet ==
  waiting # Null =>
    /\ \A d \in Drives : waiting.obj = Mnt(d) => type[d] # "LFS"
    /\ waiting.obj = Rom => lfs_file_open = FALSE

Kinds == type \in [Drives -> {"EMPTY", "LFS", "FAT"}]

Slots == FlashTyped /\ Kinds /\ Owned(lfs, Holding) /\ NotYet

PoolStep(h, g) ==
  \/ g = h
  \/ \E u \in LfsObjs : Taken(h, g, u)
  \/ \E us \in SUBSET LfsObjs : g = Given(h, us)
  \/ Gone(h, g)

Pooled == PoolStep(HolderIn(lfs, Holding), HolderIn(lfs, Holding)')

\* The steps that leave the flash and the kinds of the drives as they are.
Elsewhere ==
  /\ UNCHANGED <<lfs, lfs_isopen, fails, type, lfs_file_open>>
  /\ \/ waiting' = waiting \/ waiting' = Null
     \/ waiting'.obj \in {Std(fd) : fd \in StdFat} \cup {Up}

LEMMA WhoUsesTheFlash ==
  ASSUME [Next]_vars
  PROVE  \/ StdOpenFlash \/ \E fd \in StdLfs : StdCloseFlash(fd)
         \/ \E d \in Drives, path \in Path : Mount(d, path)
         \/ \E d \in Drives : Umount(d) \/ EndMountFlash(d) \/ EndMountStick(d)
         \/ RomLoadFlash \/ CfgFile \/ \E path \in Path : RomLoadStick(path)
         \/ EndRomInstall \/ RomTask \/ Stop \/ CheckLost \/ Elsewhere
  <1>1. ASSUME NEW path \in Path, NEW acc \in {Reading, Writing}, StdOpenStick(path, acc)
        PROVE  Elsewhere
    <2>1. {fd \in StdFat : fil[Std(fd)] = Null} \subseteq Nat
      BY FilesAssumption
    <2>2. Min({fd \in StdFat : fil[Std(fd)] = Null}) \in StdFat
      BY <1>1, <2>1, MinOfNats DEF StdOpenStick
    <2> QED BY <1>1, <2>2 DEF StdOpenStick, Wait, Elsewhere, flash, drives, loader
  <1>2. ASSUME NEW fd \in StdFat, StdCloseStick(fd) \/ EndStdOpen(fd)
        PROVE  Elsewhere
    BY <1>2 DEF StdCloseStick, EndStdOpen, Arrived, Elsewhere, flash, drives, loader
  <1>3. ASSUME EndRomLoad \/ EndUploadOpen \/ UploadEnd \/ UploadFails \/ FilTask \/ Run
        PROVE  Elsewhere
    BY <1>3 DEF EndRomLoad, EndUploadOpen, UploadEnd, UploadFails, FilTask, Run, Arrived,
                Elsewhere, flash, drives, loader
  <1>4. ASSUME NEW path \in Path, Upload(path)
        PROVE  Elsewhere
    BY <1>4 DEF Upload, Wait, Elsewhere, flash, drives, loader
  <1>5. ASSUME NEW s \in Sticks, Plug(s) \/ Pull(s)
        PROVE  Elsewhere
    BY <1>5 DEF Plug, Pull, Elsewhere, flash, drives, loader
  <1>6. ASSUME UNCHANGED vars
        PROVE  Elsewhere
    BY <1>6 DEF vars, Elsewhere, flash, drives, loader
  <1> QED BY <1>1, <1>2, <1>3, <1>4, <1>5, <1>6 DEF Next, Calls, Answers, Monitor

\* Who holds a slot, when the kind of one drive or the ROM changes.
LEMMA HoldingChanges ==
  ASSUME Slots, lfs_isopen' = lfs_isopen
  PROVE  /\ Holding \subseteq LfsObjs
         /\ \A d \in Drives : type[d] # "LFS" => Mnt(d) \notin Holding
         /\ lfs_file_open = FALSE => Rom \notin Holding
         /\ Cfg \notin Holding
         /\ lfs_file_open' = lfs_file_open =>
              /\ type' = type => Holding' = Holding
              /\ \A d \in Drives :
                   /\ type' = [type EXCEPT ![d] = "LFS"] => Holding' = Holding \cup {Mnt(d)}
                   /\ \A k \in {"EMPTY", "FAT"} :
                        type' = [type EXCEPT ![d] = k] => Holding' = Holding \ {Mnt(d)}
         /\ type' = type =>
              /\ lfs_file_open' = TRUE => Holding' = Holding \cup {Rom}
              /\ lfs_file_open' = FALSE => Holding' = Holding \ {Rom}
  <1> DEFINE stds == {Std(fd) : fd \in lfs_isopen}
             mnts(t) == {Mnt(d) : d \in {e \in Drives : t[e] = "LFS"}}
             roms(b) == IF b THEN {Rom} ELSE {}
  <1>1. Holding = stds \cup mnts(type) \cup roms(lfs_file_open)
    BY DEF Holding
  <1>2. Holding' = stds \cup mnts(type') \cup roms(lfs_file_open')
    BY DEF Holding
  <1>3. lfs_isopen \subseteq StdLfs /\ type \in [Drives -> {"EMPTY", "LFS", "FAT"}]
    BY DEF Slots, FlashTyped, Kinds
  <1>4. stds \subseteq LfsObjs /\ Rom \notin stds /\ Cfg \notin stds /\ \A d : Mnt(d) \notin stds
    BY <1>3 DEF LfsObjs, Std, Mnt, Rom, Cfg
  <1>5. \A t : /\ mnts(t) \subseteq LfsObjs /\ Rom \notin mnts(t) /\ Cfg \notin mnts(t)
               /\ \A d \in Drives : Mnt(d) \in mnts(t) <=> t[d] = "LFS"
    BY DEF LfsObjs, Held, Mnt, Rom, Cfg
  <1>6. Rom \in LfsObjs /\ \A d \in Drives : Mnt(d) # Rom
    BY Objects
  <1>7. ASSUME NEW d \in Drives, NEW k \in {"EMPTY", "LFS", "FAT"}, type' = [type EXCEPT ![d] = k]
        PROVE  mnts(type') = IF k = "LFS" THEN mnts(type) \cup {Mnt(d)} ELSE mnts(type) \ {Mnt(d)}
    <2>1. \A e \in Drives : Mnt(e) = Mnt(d) => e = d
      BY DEF Mnt
    <2>2. \A e \in Drives : type'[e] = IF e = d THEN k ELSE type[e]
      BY <1>3, <1>7
    <2> QED BY <2>1, <2>2
  <1>8. Cfg # Rom
    BY DEF Cfg, Rom
  <1> HIDE DEF stds, mnts
  <1>9. ASSUME lfs_file_open' = lfs_file_open, NEW d \in Drives
        PROVE  /\ type' = [type EXCEPT ![d] = "LFS"] => Holding' = Holding \cup {Mnt(d)}
               /\ \A k \in {"EMPTY", "FAT"} :
                    type' = [type EXCEPT ![d] = k] => Holding' = Holding \ {Mnt(d)}
    <2>1. Mnt(d) \notin stds /\ Mnt(d) \notin roms(lfs_file_open)
      BY <1>4, <1>6
    <2> QED BY <1>1, <1>2, <1>7, <1>9, <2>1
  <1>10. ASSUME type' = type
         PROVE  /\ lfs_file_open' = TRUE => Holding' = Holding \cup {Rom}
                /\ lfs_file_open' = FALSE => Holding' = Holding \ {Rom}
    BY <1>1, <1>2, <1>4, <1>5, <1>10
  <1>11. Holding \subseteq LfsObjs
    BY <1>1, <1>4, <1>5, <1>6
  <1>12. /\ \A d \in Drives : type[d] # "LFS" => Mnt(d) \notin Holding
         /\ lfs_file_open = FALSE => Rom \notin Holding
         /\ Cfg \notin Holding
    BY <1>1, <1>4, <1>5, <1>6, <1>8
  <1>13. lfs_file_open' = lfs_file_open /\ type' = type => Holding' = Holding
    BY <1>1, <1>2
  <1> QED BY <1>9, <1>10, <1>11, <1>12, <1>13

\* Nobody's slot changes.
LEMMA SameSlots ==
  ASSUME Slots, lfs' = lfs, Holding' = Holding
  PROVE  Owned(lfs, Holding)' /\ Pooled
BY DEF Slots, Owned, Pooled, PoolStep, HolderIn, Users

\* One file is opened, and held if that succeeds.
LEMMA OpenSlots ==
  ASSUME Slots, NEW f \in LfsObjs, f \notin Holding, NEW ok \in BOOLEAN,
         lfs' = LfsOpened(lfs, f, ok), Holding \subseteq LfsObjs,
         Holding' = Holding \/ Holding' = Holding \cup {f}
  PROVE  lfs' \in LfsType /\ Owned(lfs, Holding)' /\ Pooled
  <1>1. lfs \in LfsType /\ Owned(lfs, Holding)
    BY DEF Slots, FlashTyped
  <1>2. /\ LfsOpened(lfs, f, ok) \in LfsType
        /\ Owned(lfs', Holding \cup {f}) /\ Owned(lfs', Holding)
        /\ \/ HolderIn(lfs', Holding \cup {f}) = HolderIn(lfs, Holding)
           \/ Taken(HolderIn(lfs, Holding), HolderIn(lfs', Holding \cup {f}), f)
        /\ \/ HolderIn(lfs', Holding) = HolderIn(lfs, Holding)
           \/ Gone(HolderIn(lfs, Holding), HolderIn(lfs', Holding))
    BY <1>1, OpenHeld
  <1>3. Owned(lfs', Holding')
    BY <1>2
  <1>4. PoolStep(HolderIn(lfs, Holding), HolderIn(lfs', Holding'))
    <2>1. CASE Holding' = Holding
      BY <1>2, <2>1 DEF PoolStep
    <2>2. CASE Holding' = Holding \cup {f}
      BY <1>2, <2>2 DEF PoolStep
    <2> QED BY <2>1, <2>2
  <1>5. Owned(lfs, Holding)' = Owned(lfs', Holding')
    BY DEF Owned
  <1>6. HolderIn(lfs, Holding)' = HolderIn(lfs', Holding')
    BY DEF HolderIn, Users
  <1> QED BY <1>2, <1>3, <1>4, <1>5, <1>6 DEF Pooled

\* Files that are held are closed.
LEMMA CloseSlots ==
  ASSUME Slots, NEW fs \in SUBSET Holding, lfs' = LfsClosed(lfs, fs), Holding \subseteq LfsObjs,
         Holding' = Holding \ fs
  PROVE  lfs' \in LfsType /\ Owned(lfs, Holding)' /\ Pooled
  <1>1. lfs \in LfsType /\ Owned(lfs, Holding)
    BY DEF Slots, FlashTyped
  <1>2. /\ lfs' \in LfsType
        /\ Owned(lfs', Holding \ fs)
        /\ HolderIn(lfs', Holding \ fs) = Given(HolderIn(lfs, Holding), fs)
    BY <1>1, CloseHeld
  <1>3. Owned(lfs', Holding')
    BY <1>2
  <1>4. PoolStep(HolderIn(lfs, Holding), HolderIn(lfs', Holding'))
    BY <1>2 DEF PoolStep
  <1>5. Owned(lfs, Holding)' = Owned(lfs', Holding')
    BY DEF Owned
  <1>6. HolderIn(lfs, Holding)' = HolderIn(lfs', Holding')
    BY DEF HolderIn, Users
  <1> QED BY <1>2, <1>3, <1>4, <1>5, <1>6 DEF Pooled

\* How an open on the flash counts.
LEMMA Counted ==
  ASSUME NEW fault, NEW ok \in Outcome(fault), fails \in 0 .. MaxFails
  PROVE  ok \in BOOLEAN /\ (IF ok THEN fails ELSE fails + 1) \in 0 .. MaxFails
  <1>1. ok \in BOOLEAN /\ (~ok => fails < MaxFails)
    BY DEF Outcome
  <1>2. MaxFails \in Nat
    BY Constants
  <1> QED BY <1>1, <1>2

LEMMA SlotsAtStdOpen ==
  ASSUME Slots, StdOpenFlash
  PROVE  Slots' /\ Pooled
  <1> DEFINE fd == Min(StdLfs \ lfs_isopen)
  <1>1. fd \in StdLfs /\ fd \notin lfs_isopen
    BY Constants, MinOfNats DEF StdOpenFlash
  <1> HIDE DEF fd
  <1>2. PICK ok \in Outcome("open") :
             /\ lfs' = LfsOpened(lfs, Std(fd), ok)
             /\ lfs_isopen' = IF ok THEN lfs_isopen \cup {fd} ELSE lfs_isopen
             /\ fails' = IF ok THEN fails ELSE fails + 1
    BY DEF StdOpenFlash, Failing, fd
  <1>3. type' = type /\ lfs_file_open' = lfs_file_open /\ waiting' = waiting
    BY DEF StdOpenFlash, drives, loader
  <1>4. ok \in BOOLEAN /\ fails' \in 0 .. MaxFails
    BY <1>2, Counted DEF Slots, FlashTyped
  <1>5. Holding \subseteq LfsObjs /\ Std(fd) \notin Holding /\ Std(fd) \in LfsObjs
    BY <1>1 DEF Slots, FlashTyped, Holding, LfsObjs, Held, Std, Mnt, Rom
  <1>6. Holding' = Holding \/ Holding' = Holding \cup {Std(fd)}
    <2>1. CASE ok
      BY <1>2, <1>3, <2>1 DEF Holding
    <2>2. CASE ~ok
      BY <1>2, <1>3, <2>2 DEF Holding
    <2> QED BY <2>1, <2>2
  <1>7. lfs' \in LfsType /\ Owned(lfs, Holding)' /\ Pooled
    BY <1>2, <1>4, <1>5, <1>6, OpenSlots
  <1>8. lfs_isopen' \subseteq StdLfs
    BY <1>1, <1>2 DEF Slots, FlashTyped
  <1>9. NotYet'
    BY <1>3 DEF Slots, NotYet
  <1>10. Kinds' /\ lfs_file_open' \in BOOLEAN
    BY <1>3 DEF Slots, Kinds, FlashTyped
  <1> QED BY <1>4, <1>7, <1>8, <1>9, <1>10 DEF Slots, FlashTyped

LEMMA SlotsAtStdClose ==
  ASSUME Slots, Tidy, NEW fd \in StdLfs, StdCloseFlash(fd)
  PROVE  Slots' /\ Pooled
  <1>1. /\ fd \in lfs_isopen /\ lfs' = LfsClosed(lfs, {Std(fd)}) /\ lfs_isopen' = lfs_isopen \ {fd}
        /\ type' = type /\ lfs_file_open' = lfs_file_open /\ waiting' = waiting /\ fails' = fails
    BY DEF StdCloseFlash, drives, loader
  <1>2. Holding \subseteq LfsObjs /\ {Std(fd)} \subseteq Holding
    BY <1>1 DEF Slots, FlashTyped, Holding, LfsObjs, Held, Std, Mnt, Rom
  <1>3. Holding' = Holding \ {Std(fd)}
    <2>1. \A e : Std(e) = Std(fd) => e = fd
      BY DEF Std
    <2>2. {Std(e) : e \in lfs_isopen'} = {Std(e) : e \in lfs_isopen} \ {Std(fd)}
      BY <1>1, <2>1
    <2>3. Rom # Std(fd) /\ \A d : Mnt(d) # Std(fd)
      BY DEF Rom, Mnt, Std
    <2> QED BY <1>1, <2>2, <2>3 DEF Holding
  <1>4. lfs' \in LfsType /\ Owned(lfs, Holding)' /\ Pooled
    BY <1>1, <1>2, <1>3, CloseSlots
  <1>5. NotYet' /\ Kinds'
    BY <1>1 DEF Slots, NotYet, Kinds
  <1>6. lfs_isopen' \subseteq StdLfs /\ lfs_file_open' \in BOOLEAN /\ fails' \in 0 .. MaxFails
    BY <1>1 DEF Slots, FlashTyped
  <1> QED BY <1>4, <1>5, <1>6 DEF Slots, FlashTyped

\* A program that has closed its files stops: nothing of the flash is closed.
LEMMA SlotsAtStop ==
  ASSUME Slots, Tidy, Stop
  PROVE  Slots' /\ Pooled
  <1>1. /\ lfs_isopen = {} /\ lfs' = LfsClosed(lfs, {Std(fd) : fd \in lfs_isopen})
        /\ UNCHANGED <<lfs_isopen, fails, type, lfs_file_open, waiting>>
    BY DEF Stop, StdStop, drives, loader
  <1>2. lfs' = LfsClosed(lfs, {})
    BY <1>1
  <1>3. Holding' = Holding \ {} /\ Holding \subseteq LfsObjs
    BY <1>1, HoldingChanges
  <1>4. lfs' \in LfsType /\ Owned(lfs, Holding)' /\ Pooled
    BY <1>2, <1>3, CloseSlots
  <1> QED BY <1>1, <1>4 DEF Slots, FlashTyped, Kinds, NotYet

\* The old file of a drive is taken out.
LEMMA SlotsAtUmount ==
  ASSUME Slots, NEW d \in Drives, NEW k \in {"EMPTY", "FAT"}, type' = [type EXCEPT ![d] = k],
         lfs' = IF type[d] = "LFS" THEN LfsClosed(lfs, {Mnt(d)}) ELSE lfs,
         UNCHANGED <<lfs_isopen, fails, lfs_file_open>>
  PROVE  FlashTyped' /\ Kinds' /\ Owned(lfs, Holding)' /\ Pooled
  <1>1. Holding' = Holding \ {Mnt(d)} /\ Holding \subseteq LfsObjs
    BY HoldingChanges
  <1>2. CASE type[d] = "LFS"
    <2>1. {Mnt(d)} \subseteq Holding
      BY <1>2 DEF Holding
    <2>2. lfs' \in LfsType /\ Owned(lfs, Holding)' /\ Pooled
      BY <1>1, <1>2, <2>1, CloseSlots
    <2> QED BY <2>2 DEF Slots, FlashTyped, Kinds
  <1>3. CASE type[d] # "LFS"
    <2>1. Holding' = Holding
      BY <1>1, <1>3, HoldingChanges
    <2>2. Owned(lfs, Holding)' /\ Pooled
      BY <1>3, <2>1, SameSlots
    <2> QED BY <1>3, <2>2 DEF Slots, FlashTyped, Kinds
  <1> QED BY <1>2, <1>3

LEMMA SlotsAtMount ==
  ASSUME Slots, NEW d \in Drives, NEW path \in Path, Mount(d, path)
  PROVE  Slots' /\ Pooled
  <1>1. FlashTyped' /\ Kinds' /\ Owned(lfs, Holding)' /\ Pooled
    BY SlotsAtUmount DEF Mount, UmountDrive, loader
  <1>2. type' = [type EXCEPT ![d] = "EMPTY"] /\ lfs_file_open' = lfs_file_open /\ waiting = Null
    BY DEF Mount, UmountDrive, loader, Calling, Ready
  <1>3. waiting' = Null \/ waiting'.obj = Mnt(d)
    BY <1>2 DEF Mount, Wait
  <1>4. NotYet'
    <2>1. Mnt(d) # Rom /\ \A e \in Drives : Mnt(d) = Mnt(e) => e = d
      BY DEF Mnt, Rom
    <2>2. type'[d] # "LFS"
      BY <1>2 DEF Slots, Kinds
    <2> QED BY <1>3, <2>1, <2>2 DEF NotYet
  <1> QED BY <1>1, <1>4 DEF Slots

LEMMA SlotsAtOtherUmounts ==
  ASSUME Slots, NEW d \in Drives, Umount(d)
  PROVE  Slots' /\ Pooled
  <1>1. FlashTyped' /\ Kinds' /\ Owned(lfs, Holding)' /\ Pooled
    BY SlotsAtUmount DEF Umount, UmountDrive, loader
  <1>2. waiting' = Null
    BY DEF Umount, Calling, Ready
  <1> QED BY <1>1, <1>2 DEF Slots, NotYet

LEMMA SlotsAtEndMountFlash ==
  ASSUME Slots, NEW d \in Drives, EndMountFlash(d)
  PROVE  Slots' /\ Pooled
  <1>1. PICK ok \in Outcome("flash") :
             /\ lfs' = LfsOpened(lfs, Mnt(d), ok)
             /\ \E k \in {"LFS", "EMPTY"} : type' = [type EXCEPT ![d] = k]
             /\ fails' = IF ok THEN fails ELSE fails + 1
    BY DEF EndMountFlash, Failing
  <1>2. /\ type[d] # "LFS" /\ waiting' = Null
        /\ UNCHANGED <<lfs_isopen, lfs_file_open>>
    BY DEF Slots, NotYet, EndMountFlash, loader
  <1>3. ok \in BOOLEAN /\ fails' \in 0 .. MaxFails
    BY <1>1, Counted DEF Slots, FlashTyped
  <1>4. Holding \subseteq LfsObjs /\ Mnt(d) \notin Holding /\ Mnt(d) \in LfsObjs
    BY <1>2, HoldingChanges, Objects
  <1>5. Holding' = Holding \/ Holding' = Holding \cup {Mnt(d)}
    <2>1. CASE type' = [type EXCEPT ![d] = "LFS"]
      BY <1>2, <2>1, HoldingChanges
    <2>2. CASE type' = [type EXCEPT ![d] = "EMPTY"]
      <3>1. Holding' = Holding \ {Mnt(d)}
        BY <1>2, <2>2, HoldingChanges
      <3> QED BY <1>4, <3>1
    <2> QED BY <1>1, <2>1, <2>2
  <1>6. lfs' \in LfsType /\ Owned(lfs, Holding)' /\ Pooled
    BY <1>1, <1>3, <1>4, <1>5, OpenSlots
  <1>7. Kinds'
    BY <1>1 DEF Slots, Kinds
  <1> QED BY <1>2, <1>3, <1>6, <1>7 DEF Slots, FlashTyped, NotYet

LEMMA SlotsAtEndMountStick ==
  ASSUME Slots, NEW d \in Drives, EndMountStick(d)
  PROVE  Slots' /\ Pooled
  <1>1. /\ \E k \in {"FAT", "EMPTY"} : type' = [type EXCEPT ![d] = k]
        /\ type[d] # "LFS" /\ waiting' = Null
        /\ UNCHANGED <<lfs, lfs_isopen, fails, lfs_file_open>>
    BY DEF EndMountStick, Loaded, Arrived, flash, loader, Slots, NotYet
  <1>2. FlashTyped' /\ Kinds' /\ Owned(lfs, Holding)' /\ Pooled
    BY <1>1, SlotsAtUmount
  <1> QED BY <1>1, <1>2 DEF Slots, NotYet

LEMMA SlotsAtCheckLost ==
  ASSUME Slots, TasksTyped, CheckLost
  PROVE  Slots' /\ Pooled
  <1> DEFINE lost == {d \in LostOn(check.dev) : d >= check.next}
  <1>1. UNCHANGED <<lfs_isopen, fails, lfs_file_open>>
    BY DEF CheckLost, loader
  <1>2. CASE lost = {}
    <2>1. UNCHANGED <<lfs, type, waiting>>
      BY <1>2 DEF CheckLost
    <2>2. Owned(lfs, Holding)' /\ Pooled
      BY <1>1, <2>1, HoldingChanges, SameSlots
    <2> QED BY <1>1, <2>1, <2>2 DEF Slots, FlashTyped, Kinds, NotYet
  <1>3. CASE lost # {}
    <2> DEFINE d == Min(lost)
    <2>1. /\ \E k \in {"FAT", "EMPTY"} : type' = [type EXCEPT ![d] = k]
          /\ lfs' = IF type[d] = "LFS" THEN LfsClosed(lfs, {Mnt(d)}) ELSE lfs
      BY <1>3 DEF CheckLost, Loaded
    <2>2. waiting' = Null \/ (waiting # Null /\ waiting' = [waiting EXCEPT !.lfn = mnt_paths[d].name])
      BY <1>3 DEF CheckLost
    <2>3. lost \subseteq Drives
      BY DEF LostOn
    <2>9. Drives \subseteq Nat
      BY Constants
    <2> HIDE DEF lost
    <2>4. d \in Drives
      BY <1>3, <2>3, <2>9, MinOfNats
    <2> HIDE DEF d
    <2>5. FlashTyped' /\ Kinds' /\ Owned(lfs, Holding)' /\ Pooled
      BY <1>1, <2>1, <2>4, SlotsAtUmount
    <2>6. \A e \in Drives : type'[e] = "LFS" => type[e] = "LFS"
      BY <2>1, <2>4 DEF Slots, Kinds
    <2>7. waiting' # Null => waiting # Null /\ waiting'.obj = waiting.obj
      BY <2>2 DEF TasksTyped, Waits
    <2>8. NotYet'
      BY <1>1, <2>6, <2>7 DEF Slots, NotYet
    <2> QED BY <2>5, <2>8, SMTT(60) DEF Slots
  <1> QED BY <1>2, <1>3

LEMMA SlotsAtRomLoad ==
  ASSUME Slots, RomLoadFlash
  PROVE  Slots' /\ Pooled
  <1>1. PICK ok \in Outcome("open") :
             /\ lfs' = LfsOpened(lfs, Rom, ok) /\ lfs_file_open' = ok
             /\ fails' = IF ok THEN fails ELSE fails + 1
    BY DEF RomLoadFlash, Failing
  <1>2. /\ waiting = Null /\ waiting' = Null /\ type' = type /\ lfs_isopen' = lfs_isopen
        /\ ~lfs_file_open
    BY DEF RomLoadFlash, LoaderFree, Prompt, Ready, drives
  <1>3. ok \in BOOLEAN /\ fails' \in 0 .. MaxFails
    BY <1>1, Counted DEF Slots, FlashTyped
  <1>4. lfs_file_open = FALSE
    BY <1>2 DEF Slots, FlashTyped
  <1>5. Holding \subseteq LfsObjs /\ Rom \notin Holding /\ Rom \in LfsObjs
    BY <1>2, <1>4, HoldingChanges, Objects
  <1>6. Holding' = Holding \/ Holding' = Holding \cup {Rom}
    BY <1>1, <1>2, <1>3, <1>5, HoldingChanges
  <1>7. lfs' \in LfsType /\ Owned(lfs, Holding)' /\ Pooled
    BY <1>1, <1>3, <1>5, <1>6, OpenSlots
  <1> QED BY <1>1, <1>2, <1>3, <1>7 DEF Slots, FlashTyped, Kinds, NotYet

LEMMA SlotsAtCfgFile ==
  ASSUME Slots, CfgFile
  PROVE  Slots' /\ Pooled
  <1>1. PICK ok \in Outcome("open") :
             /\ lfs' = IF ok THEN lfs ELSE LfsOpened(lfs, Cfg, FALSE)
             /\ fails' = IF ok THEN fails ELSE fails + 1
    BY DEF CfgFile, Failing
  <1>2. UNCHANGED <<waiting, type, lfs_isopen, lfs_file_open>>
    BY DEF CfgFile, drives, loader
  <1>3. ok \in BOOLEAN /\ fails' \in 0 .. MaxFails
    BY <1>1, Counted DEF Slots, FlashTyped
  <1>4. Holding \subseteq LfsObjs /\ Cfg \notin Holding /\ Cfg \in LfsObjs /\ Holding' = Holding
    BY <1>2, HoldingChanges, Objects
  <1>5. lfs' \in LfsType /\ Owned(lfs, Holding)' /\ Pooled
    <2>1. CASE ok
      BY <1>1, <1>4, <2>1, SameSlots DEF Slots, FlashTyped
    <2>2. CASE ~ok
      BY <1>1, <1>4, <2>2, OpenSlots
    <2> QED BY <2>1, <2>2
  <1> QED BY <1>2, <1>3, <1>5 DEF Slots, FlashTyped, Kinds, NotYet

LEMMA SlotsAtRomTask ==
  ASSUME Slots, RomTask
  PROVE  Slots' /\ Pooled
  <1>1. /\ waiting = Null /\ waiting' = Null /\ UNCHANGED <<type, lfs_isopen, fails>>
        /\ lfs_file_open' = FALSE
        /\ lfs' = IF lfs_file_open THEN LfsClosed(lfs, {Rom}) ELSE lfs
    BY DEF RomTask, Ready, drives
  <1>2. Holding \subseteq LfsObjs /\ Holding' = Holding \ {Rom}
    BY <1>1, HoldingChanges
  <1>3. lfs' \in LfsType /\ Owned(lfs, Holding)' /\ Pooled
    <2>1. CASE lfs_file_open
      <3>1. {Rom} \subseteq Holding
        BY <2>1 DEF Holding
      <3> QED BY <1>1, <1>2, <2>1, <3>1, CloseSlots
    <2>2. CASE ~lfs_file_open
      <3>1. lfs_file_open = FALSE
        BY <2>2 DEF Slots, FlashTyped
      <3>2. Holding' = Holding
        BY <1>1, <1>2, <3>1, HoldingChanges
      <3> QED BY <1>1, <2>2, <3>2, SameSlots DEF Slots, FlashTyped
    <2> QED BY <2>1, <2>2
  <1> QED BY <1>1, <1>3 DEF Slots, FlashTyped, Kinds, NotYet

\* The copy of a ROM is opened, written and closed in one go.
LEMMA SlotsAtRomInstall ==
  ASSUME Slots, EndRomInstall
  PROVE  Slots' /\ Pooled
  <1>1. PICK found \in Found, ok \in Outcome("open") :
             \/ lfs' = lfs /\ fails' = fails
             \/ lfs' = LfsClosed(LfsOpened(lfs, Rom, TRUE), {Rom}) /\ fails' = fails
             \/ ~ok /\ lfs' = LfsOpened(lfs, Rom, FALSE) /\ fails' = fails + 1
    <2>1. PICK found \in Found, ok \in Outcome("open") :
               /\ lfs' = IF Looked(found).fil = Null THEN lfs
                         ELSE IF ok THEN LfsClosed(LfsOpened(lfs, Rom, ok), {Rom})
                         ELSE LfsOpened(lfs, Rom, ok)
               /\ fails' = IF Looked(found).fil # Null /\ ~ok THEN fails + 1 ELSE fails
      BY DEF EndRomInstall
    <2>2. ok \in BOOLEAN
      BY Counted DEF Slots, FlashTyped
    <2>3. CASE ok = TRUE
      BY <2>1, <2>3
    <2>4. CASE ok = FALSE
      BY <2>1, <2>4
    <2> QED BY <2>2, <2>3, <2>4
  <1>2. /\ waiting' = Null /\ UNCHANGED <<type, lfs_isopen, lfs_file_open>>
        /\ lfs_file_open = FALSE
    BY DEF EndRomInstall, Arrived, drives, loader, Slots, NotYet
  <1>3. Holding \subseteq LfsObjs /\ Rom \notin Holding /\ Rom \in LfsObjs /\ Holding' = Holding
    BY <1>2, HoldingChanges, Objects
  <1>4. fails' \in 0 .. MaxFails
    <2>1. fails \in 0 .. MaxFails
      BY DEF Slots, FlashTyped
    <2> QED BY <1>1, <2>1, Counted
  <1>5. lfs' \in LfsType /\ Owned(lfs, Holding)' /\ Pooled
    <2>1. CASE lfs' = lfs
      BY <1>3, <2>1, SameSlots DEF Slots, FlashTyped
    <2>2. CASE lfs' = LfsOpened(lfs, Rom, FALSE)
      BY <1>3, <2>2, OpenSlots
    <2>3. CASE lfs' = LfsClosed(LfsOpened(lfs, Rom, TRUE), {Rom})
      <3> DEFINE m == LfsOpened(lfs, Rom, TRUE)
                 h == HolderIn(lfs, Holding)
                 g == HolderIn(m, Holding \cup {Rom})
      <3>1. /\ m \in LfsType /\ Owned(m, Holding \cup {Rom})
            /\ g = h \/ Taken(h, g, Rom)
        BY <1>3, OpenHeld DEF Slots, FlashTyped
      <3> HIDE DEF m
      <3>2. /\ lfs' \in LfsType /\ Owned(lfs', (Holding \cup {Rom}) \ {Rom})
            /\ HolderIn(lfs', (Holding \cup {Rom}) \ {Rom}) = Given(g, {Rom})
        <4>1. lfs' = LfsClosed(m, {Rom})
          BY <2>3 DEF m
        <4>2. Holding \cup {Rom} \in SUBSET LfsObjs /\ {Rom} \in SUBSET (Holding \cup {Rom})
          BY <1>3
        <4> QED BY <3>1, <4>1, <4>2, CloseHeld
      <3>3. (Holding \cup {Rom}) \ {Rom} = Holding
        BY <1>3
      <3>4. \A c \in Configs : h[c] # Rom
        <4>1. ASSUME NEW c \in Configs PROVE h[c] \in Holding \cup {<<"lost", 0>>, <<"nobody", 0>>}
          BY <1>3, WhoHolds
        <4> QED BY <1>3, <4>1, NotAFile
      <3>5. h = [c \in Configs |-> h[c]]
        BY DEF HolderIn
      <3> HIDE DEF g, h
      <3>6. Given(g, {Rom}) = h
        <4>1. CASE g = h
          BY <3>4, <3>5, <4>1 DEF Given
        <4>2. CASE Taken(h, g, Rom)
          <5>1. PICK c \in Configs : h[c] = <<"nobody", 0>> /\ g = [h EXCEPT ![c] = Rom]
            BY <4>2 DEF Taken
          <5>2. \A b \in Configs : (IF g[b] \in {Rom} THEN <<"nobody", 0>> ELSE g[b]) = h[b]
            BY <3>4, <3>5, <5>1
          <5> QED BY <3>5, <5>2 DEF Given
        <4> QED BY <3>1, <4>1, <4>2
      <3>7. Owned(lfs', Holding') /\ HolderIn(lfs', Holding') = HolderIn(lfs, Holding)
        BY <1>3, <3>2, <3>3, <3>6 DEF h
      <3>8. Owned(lfs, Holding)' /\ HolderIn(lfs, Holding)' = HolderIn(lfs, Holding)
        BY <3>7 DEF Owned, HolderIn, Users
      <3> QED BY <3>2, <3>8 DEF Pooled, PoolStep
    <2> QED BY <1>1, <2>1, <2>2, <2>3
  <1> QED BY <1>2, <1>4, <1>5 DEF Slots, FlashTyped, Kinds, NotYet

LEMMA SlotsElsewhere ==
  ASSUME Slots, Elsewhere
  PROVE  Slots' /\ Pooled
  <1>1. UNCHANGED <<lfs, lfs_isopen, fails, type, lfs_file_open>>
    BY DEF Elsewhere
  <1>2. Owned(lfs, Holding)' /\ Pooled
    BY <1>1, HoldingChanges, SameSlots
  <1>3. NotYet'
    <2>1. waiting' # Null /\ waiting' # waiting => waiting'.obj # Rom /\ \A d : waiting'.obj # Mnt(d)
      BY DEF Elsewhere, Std, Up, Mnt, Rom
    <2> QED BY <1>1, <2>1 DEF Slots, NotYet
  <1> QED BY <1>1, <1>2, <1>3 DEF Slots, FlashTyped, Kinds

LEMMA SlotsAtRomLoadStick ==
  ASSUME Slots, NEW path \in Path, RomLoadStick(path)
  PROVE  Slots' /\ Pooled
  <1>1. UNCHANGED <<lfs, lfs_isopen, fails, type, lfs_file_open>> /\ ~lfs_file_open
        /\ waiting'.obj = Rom
    BY DEF RomLoadStick, LoaderFree, Wait, flash, drives, loader
  <1>2. Owned(lfs, Holding)' /\ Pooled
    BY <1>1, HoldingChanges, SameSlots
  <1>3. lfs_file_open' = FALSE /\ \A d \in Drives : Rom # Mnt(d)
    BY <1>1, Objects DEF Slots, FlashTyped
  <1> QED BY <1>1, <1>2, <1>3 DEF Slots, FlashTyped, Kinds, NotYet

LEMMA SlotsStep ==
  ASSUME Slots, TasksTyped, Tidy, [Next]_vars
  PROVE  Slots' /\ Pooled
BY WhoUsesTheFlash, SlotsAtStdOpen, SlotsAtStdClose, SlotsAtMount, SlotsAtOtherUmounts,
   SlotsAtEndMountFlash, SlotsAtEndMountStick, SlotsAtRomLoad, SlotsAtCfgFile,
   SlotsAtRomLoadStick, SlotsAtRomInstall, SlotsAtRomTask, SlotsAtStop, SlotsAtCheckLost,
   SlotsElsewhere

LEMMA SlotsAtFirst ==
  ASSUME Init
  PROVE  Slots /\ Holder = [c \in Configs |-> <<"nobody", 0>>]
  <1>1. /\ lfs = [busy |-> {}, cfg |-> [f \in LfsObjs |-> Null], list |-> {}]
        /\ lfs_isopen = {} /\ fails = 0 /\ lfs_file_open = FALSE /\ waiting = Null
        /\ type = [d \in Drives |-> "EMPTY"]
    BY DEF Init
  <1>2. lfs \in LfsType
    <2>1. {} \in SUBSET Configs /\ {} \in SUBSET LfsObjs
      OBVIOUS
    <2>2. [f \in LfsObjs |-> Null] \in [LfsObjs -> Configs \cup {Null}]
      OBVIOUS
    <2> QED BY <1>1, <2>1, <2>2 DEF LfsType
  <1>3. fails \in 0 .. MaxFails
    BY <1>1, Constants
  <1>4. Holding = {}
    BY <1>1 DEF Holding
  <1>5. Owned(lfs, Holding)
    BY <1>4 DEF Owned
  <1>6. Kinds /\ NotYet
    BY <1>1 DEF Kinds, NotYet
  <1>7. lfs_isopen \subseteq StdLfs /\ lfs_file_open \in BOOLEAN
    BY <1>1
  <1>8. \A c \in Configs : UsersOf(c) = {} /\ c \notin lfs.busy
    BY <1>1, <1>4 DEF UsersOf
  <1>9. Holder = [c \in Configs |-> <<"nobody", 0>>]
    BY <1>8 DEF Holder
  <1> QED BY <1>2, <1>3, <1>5, <1>6, <1>7, <1>9 DEF Slots, FlashTyped

(***************************************************************************)
(* Programs that close the files they have open on the flash: no two files *)
(* ever share a configuration, and none is taken from one that will still  *)
(* give it back (lfs.c:46-64), in any order of opens, closes, mounts,      *)
(* loads, installs and failures.                                           *)
(***************************************************************************)
THEOREM PoolKept == ASSUME Tidy PROVE Spec => ImplementsPool
  <1>1. Init => Settled /\ Slots /\ P!Init
    BY SettledAtFirst, SlotsAtFirst DEF P!Init
  <1>2. Settled /\ Slots /\ [Next]_vars => Settled' /\ Slots' /\ [P!Next]_Holder
    <2> SUFFICES ASSUME Settled, Slots, [Next]_vars PROVE Settled' /\ Slots' /\ [P!Next]_Holder
      OBVIOUS
    <2>1. Settled' /\ Slots' /\ Pooled
      BY SettledStep, SlotsStep DEF Settled
    <2>2. Holder = HolderIn(lfs, Holding) /\ Holder' = HolderIn(lfs, Holding)'
      BY DEF Holder, HolderIn, UsersOf, Users, OneOf
    <2>3. PoolStep(Holder, Holder')
      BY <2>1, <2>2 DEF Pooled
    <2>4. [P!Next]_Holder
      BY <2>3 DEF PoolStep, Taken, Given, Gone, P!Next, P!Take, P!Give, P!Lose
    <2> QED BY <2>1, <2>4
  <1> QED BY <1>1, <1>2, PTL DEF Spec, ImplementsPool, P!Spec

(***************************************************************************)
(* Sticks that come and go while nothing waits.  Nothing happens then      *)
(* while an open waits, and what FatFs looks for is what was asked for.    *)
(***************************************************************************)
Alone == waiting # Null => check = Null /\ waiting.lfn = waiting.path.name

LEMMA WhoGoesOn ==
  ASSUME Settled, Alone, Hotplug = "quiet", [Next]_vars
  PROVE  /\ Alone'
         /\ waiting # Null => Answers \/ UNCHANGED vars
  <1>1. waiting # Null => Answers \/ UNCHANGED vars
    <2> SUFFICES ASSUME waiting # Null PROVE Answers \/ UNCHANGED vars
      OBVIOUS
    <2>1. ~Ready /\ check = Null
      BY DEF Ready, Alone
    <2>2. ~Calls
      BY <2>1 DEF Calls, Calling, StdOpenFlash, StdOpenStick, StdCloseFlash, StdCloseStick, Mount, Umount
    <2>3. ~Monitor
      BY <2>1 DEF Monitor, RomLoadFlash, CfgFile, UploadEnd, UploadFails, RomLoadStick, Upload,
                  LoaderFree, Prompt
    <2>4. ~RomTask /\ ~FilTask /\ ~Stop /\ ~Run /\ ~CheckLost
      BY <2>1 DEF RomTask, FilTask, Stop, Run, CheckLost, Calling
    <2>5. \A s \in Sticks : ~Plug(s) /\ ~Pull(s)
      BY DEF Plug, Pull, Undisturbed
    <2> QED BY <2>2, <2>3, <2>4, <2>5 DEF Next
  <1>2. CASE waiting # Null
    <2>1. Answers => waiting' = Null
      BY DEF Answers, EndStdOpen, EndMountFlash, EndMountStick, EndRomLoad, EndRomInstall,
             EndUploadOpen, Arrived
    <2>2. UNCHANGED vars => Alone'
      BY DEF vars, Alone
    <2> QED BY <1>1, <1>2, <2>1, <2>2 DEF Alone
  <1>3. CASE waiting = Null
    <2>1. CheckLost => waiting' = Null
      BY <1>3 DEF CheckLost
    <2>2. (\E s \in Sticks : Plug(s) \/ Pull(s)) \/ RomTask \/ FilTask \/ Stop \/ Run \/ UNCHANGED vars
            => waiting' = Null
      BY <1>3 DEF Plug, Pull, RomTask, FilTask, Stop, Run, vars
    <2>3. ~Answers
      BY <1>3 DEF Answers, EndStdOpen, EndMountFlash, EndMountStick, EndRomLoad, EndRomInstall,
             EndUploadOpen, Arrived
    <2>4. ASSUME NEW obj, NEW path, NEW acc, Wait(obj, path, acc), check = Null, check' = check
          PROVE  Alone'
      BY <2>4 DEF Wait, Alone
    <2>5. Calls => Alone'
      <3>1. ASSUME NEW path \in Path, NEW acc \in {Reading, Writing}, StdOpenStick(path, acc)
            PROVE  Alone'
        BY <2>4, <3>1 DEF StdOpenStick, Calling, Ready
      <3>2. ASSUME NEW d \in Drives, NEW path \in Path, Mount(d, path)
            PROVE  Alone'
        <4>1. CASE waiting' = waiting
          BY <1>3, <4>1 DEF Alone
        <4>2. CASE waiting' # waiting
          BY <2>4, <3>2, <4>2 DEF Mount, Calling, Ready
        <4> QED BY <4>1, <4>2
      <3>3. ASSUME StdOpenFlash \/ (\E fd \in StdLfs : StdCloseFlash(fd))
                   \/ (\E fd \in StdFat : StdCloseStick(fd)) \/ \E d \in Drives : Umount(d)
            PROVE  Alone'
        BY <1>3, <3>3 DEF StdOpenFlash, StdCloseFlash, StdCloseStick, Umount, Alone
      <3> QED BY <3>1, <3>2, <3>3 DEF Calls
    <2>6. Monitor => Alone'
      <3>1. ASSUME NEW path \in Path, RomLoadStick(path) \/ Upload(path)
            PROVE  Alone'
        BY <2>4, <3>1 DEF RomLoadStick, Upload, LoaderFree, Prompt, Ready
      <3>2. ASSUME RomLoadFlash \/ CfgFile \/ UploadEnd \/ UploadFails
            PROVE  Alone'
        BY <1>3, <3>2 DEF RomLoadFlash, CfgFile, UploadEnd, UploadFails, LoaderFree, Prompt, Ready, Alone
      <3> QED BY <3>1, <3>2 DEF Monitor
    <2>7. waiting' = Null => Alone'
      BY DEF Alone
    <2>8. Alone'
      BY <2>1, <2>2, <2>3, <2>5, <2>6, <2>7 DEF Next
    <2> QED BY <1>3, <2>8
  <1> QED BY <1>1, <1>2, <1>3

(***************************************************************************)
(* What is in the file objects, whatever the locks are.                    *)
(***************************************************************************)
OnSticks(fl) ==
  /\ fl = [o \in FatObjs |-> fl[o]]
  /\ \A o \in FatObjs : fl[o] # Null => fl[o].stick \in Sticks

FilesShaped == Shaped(fat) /\ OnSticks(fil)

OnlyAt(g, fl, o) == \A p \in FatObjs \ {o} : g[p] = fl[p]

LEMMA OnSticksKept ==
  ASSUME NEW fl, OnSticks(fl), NEW o \in FatObjs, NEW f, f # Null => f.stick \in Sticks,
         NEW g, g = [fl EXCEPT ![o] = f]
  PROVE  OnSticks(g) /\ g[o] = f /\ OnlyAt(g, fl, o)
BY DEF OnSticks, OnlyAt

LEMMA CloseFatShaped ==
  ASSUME FilesShaped, NEW o \in FatObjs, CloseFat(o)
  PROVE  /\ FilesShaped' /\ fat'.id = fat.id
         /\ OnlyAt(fil', fil, o)
  <1>1. PICK f \in {fil[o], Null} : Closed(fat, fil[o]).fil = f
    BY CloseShaped DEF FilesShaped
  <1>2. /\ Shaped(Closed(fat, fil[o]).fat) /\ Closed(fat, fil[o]).fat.id = fat.id
    BY CloseShaped DEF FilesShaped
  <1>3. fil' = [fil EXCEPT ![o] = f] /\ fat' = Closed(fat, fil[o]).fat
    BY <1>1 DEF CloseFat
  <1>4. f # Null => f.stick \in Sticks
    BY <1>1 DEF FilesShaped, OnSticks
  <1>5. OnSticks(fil') /\ OnlyAt(fil', fil, o)
    BY <1>3, <1>4, OnSticksKept DEF FilesShaped
  <1>6. Shaped(fat') /\ fat'.id = fat.id
    BY <1>2, <1>3
  <1> QED BY <1>5, <1>6 DEF FilesShaped, Shaped, OnSticks

\* A file is opened for `obj', by the name that was asked for.
LEMMA AnswerShaped ==
  ASSUME FilesShaped, Alone, TasksTyped, NEW obj \in FatObjs, Arrived(obj), NEW found,
         fat' = Looked(found).fat, fil' = [fil EXCEPT ![obj] = Looked(found).fil]
  PROVE  /\ FilesShaped' /\ fat'.id = fat.id /\ waiting.obj = obj
         /\ OnlyAt(fil', fil, obj)
         /\ fil'[obj] = Looked(found).fil
         /\ fil'[obj] # Null => /\ Valid(fat', fil'[obj])
                                /\ fil'[obj].stick = waiting.path.dev
                                /\ fil'[obj].name = waiting.path.name
  <1>1. waiting \in Waits /\ waiting.path.dev \in Sticks /\ waiting.lfn = waiting.path.name
    BY DEF Arrived, TasksTyped, Alone
  <1> DEFINE r == Looked(found)
  <1>2. /\ Shaped(r.fat) /\ r.fat.id = fat.id
        /\ r.fil # Null => Valid(r.fat, r.fil) /\ r.fil.stick = waiting.path.dev
                           /\ r.fil.name = waiting.path.name
    BY <1>1, OpenShaped DEF FilesShaped, Looked
  <1> HIDE DEF r
  <1>3. fat' = r.fat /\ fil' = [fil EXCEPT ![obj] = r.fil]
    BY DEF r
  <1>4. r.fil # Null => r.fil.stick \in Sticks
    BY <1>1, <1>2
  <1>5. OnSticks(fil') /\ fil'[obj] = r.fil /\ OnlyAt(fil', fil, obj)
    BY <1>3, <1>4, OnSticksKept DEF FilesShaped
  <1>6. Shaped(fat') /\ fat'.id = fat.id
    BY <1>2, <1>3
  <1>7. FilesShaped'
    BY <1>5, <1>6 DEF FilesShaped, Shaped, OnSticks
  <1> QED BY <1>2, <1>3, <1>5, <1>6, <1>7 DEF Arrived, r

\* A copy of a ROM: what was opened may be closed at once.
LEMMA InstallShaped ==
  ASSUME FilesShaped, Alone, TasksTyped, EndRomInstall
  PROVE  /\ FilesShaped' /\ fat'.id = fat.id
         /\ OnlyAt(fil', fil, Rom)
         /\ fil'[Rom] # Null => fil'[Rom].name = waiting.path.name
  <1>1. waiting \in Waits /\ waiting.path.dev \in Sticks /\ waiting.lfn = waiting.path.name
    BY DEF EndRomInstall, Arrived, TasksTyped, Alone
  <1>2. PICK found \in Found :
             \/ fat' = Looked(found).fat /\ fil' = [fil EXCEPT ![Rom] = Looked(found).fil]
             \/ /\ fat' = Closed(Looked(found).fat, Looked(found).fil).fat
                /\ fil' = [fil EXCEPT ![Rom] = Closed(Looked(found).fat, Looked(found).fil).fil]
    <2>1. PICK found \in Found, ok \in Outcome("open") :
             LET r == Looked(found)
                 made == r.fil # Null /\ ok
                 c == Closed(r.fat, r.fil)
             IN /\ fat' = IF made THEN c.fat ELSE r.fat
                /\ fil' = [fil EXCEPT ![Rom] = IF made THEN c.fil ELSE r.fil]
      BY DEF EndRomInstall
    <2>2. CASE Looked(found).fil # Null /\ ok
      BY <2>1, <2>2
    <2>3. CASE ~(Looked(found).fil # Null /\ ok)
      BY <2>1, <2>3
    <2> QED BY <2>2, <2>3
  <1> DEFINE r == Looked(found)
  <1>3. /\ Shaped(r.fat) /\ r.fat.id = fat.id
        /\ r.fil # Null => r.fil.stick = waiting.path.dev /\ r.fil.name = waiting.path.name
    BY <1>1, OpenShaped DEF FilesShaped, Looked
  <1> HIDE DEF r
  <1>4. PICK kept \in {r.fil, Null} :
             fil' = [fil EXCEPT ![Rom] = kept] /\ Shaped(fat') /\ fat'.id = fat.id
    <2>1. /\ Closed(r.fat, r.fil).fil \in {r.fil, Null}
          /\ Shaped(Closed(r.fat, r.fil).fat) /\ Closed(r.fat, r.fil).fat.id = fat.id
      BY <1>3, CloseShaped
    <2> QED BY <1>2, <1>3, <2>1 DEF r
  <1>5. kept # Null => kept.stick \in Sticks /\ kept.name = waiting.path.name
    BY <1>1, <1>3, <1>4
  <1>6. OnSticks(fil') /\ fil'[Rom] = kept /\ OnlyAt(fil', fil, Rom)
    <2>1. Rom \in FatObjs /\ OnSticks(fil)
      BY FatObjects DEF FilesShaped
    <2>2. fil' = [fil EXCEPT ![Rom] = kept] /\ (kept # Null => kept.stick \in Sticks)
      BY <1>4, <1>5
    <2> QED BY <2>1, <2>2 DEF OnSticks, OnlyAt
  <1>7. FilesShaped'
    BY <1>4, <1>6 DEF FilesShaped, Shaped, OnSticks
  <1> QED BY <1>4, <1>5, <1>6, <1>7

(***************************************************************************)
(* Steps that change nothing of the drives and their files.                *)
(***************************************************************************)
Untouched ==
  /\ UNCHANGED drives /\ fat'.id = fat.id /\ FilesShaped'
  /\ \A d \in Drives : /\ fil'[Mnt(d)] = fil[Mnt(d)]
                       /\ Mnt(d) \in lfs.list => Mnt(d) \in lfs'.list

LEMMA MountedApart ==
  /\ \A d : Mnt(d) # Rom /\ Mnt(d) # Up
  /\ \A d : \A fd : Mnt(d) # Std(fd)
BY DEF Mnt, Rom, Up, Std

LEMMA ListKept ==
  ASSUME NEW l \in LfsType, NEW fs, \A d \in Drives : Mnt(d) \notin fs,
         NEW f \in LfsObjs, NEW ok \in BOOLEAN
  PROVE  \A d \in Drives : Mnt(d) \in l.list =>
           Mnt(d) \in LfsClosed(l, fs).list /\ Mnt(d) \in LfsOpened(l, f, ok).list
BY DEF LfsClosed, LfsOpened, LfsType

LEMMA UntouchedSteps ==
  ASSUME FilesShaped, Settled, Alone, FlashTyped, [Next]_vars
  PROVE  \/ Untouched
         \/ \E d \in Drives, path \in Path : Mount(d, path)
         \/ \E d \in Drives : Umount(d) \/ EndMountFlash(d) \/ EndMountStick(d)
         \/ CheckLost \/ \E s \in Sticks : Plug(s) \/ Pull(s)
  <1>1. ASSUME UNCHANGED <<drives, fat, fil>>, lfs.list \subseteq lfs'.list
        PROVE  Untouched
    BY <1>1 DEF Untouched, FilesShaped, Shaped, OnSticks
  <1>2. ASSUME NEW o \in FatObjs, UNCHANGED drives, CloseFat(o), \A d \in Drives : o # Mnt(d),
               \A d \in Drives : Mnt(d) \in lfs.list => Mnt(d) \in lfs'.list
        PROVE  Untouched
    BY <1>2, CloseFatShaped, FatObjects DEF Untouched, OnlyAt
  <1>3. ASSUME NEW o \in FatObjs, Arrived(o), NEW found, UNCHANGED <<drives, lfs>>,
               fat' = Looked(found).fat, fil' = [fil EXCEPT ![o] = Looked(found).fil],
               \A d \in Drives : o # Mnt(d)
        PROVE  Untouched
    <2>1. FilesShaped' /\ fat'.id = fat.id /\ OnlyAt(fil', fil, o)
      BY <1>3, AnswerShaped DEF Settled
    <2> QED BY <1>3, <2>1, FatObjects DEF Untouched, OnlyAt
  <1>4. StdOpenFlash => Untouched
    <2>1. ASSUME StdOpenFlash PROVE lfs.list \subseteq lfs'.list
      BY <2>1 DEF StdOpenFlash, LfsOpened
    <2> QED BY <1>1, <2>1 DEF StdOpenFlash
  <1>5. ASSUME NEW path, NEW acc, StdOpenStick(path, acc)
        PROVE  Untouched
    BY <1>1, <1>5 DEF StdOpenStick, flash
  <1>6. ASSUME NEW fd \in StdLfs, StdCloseFlash(fd)
        PROVE  Untouched
    <2>1. \A d \in Drives : Mnt(d) \in lfs.list => Mnt(d) \in lfs'.list
      BY <1>6, MountedApart DEF StdCloseFlash, LfsClosed, FlashTyped, LfsType
    <2> QED BY <1>6, <2>1 DEF StdCloseFlash, Untouched, FilesShaped, Shaped, OnSticks
  <1>7. ASSUME NEW fd \in StdFat, StdCloseStick(fd)
        PROVE  Untouched
    BY <1>2, <1>7, FatObjects, MountedApart DEF StdCloseStick, flash
  <1>8. ASSUME NEW fd \in StdFat, EndStdOpen(fd)
        PROVE  Untouched
    <2>1. PICK found \in Found : /\ fat' = Looked(found).fat
                                /\ fil' = [fil EXCEPT ![Std(fd)] = Looked(found).fil]
      BY <1>8 DEF EndStdOpen
    <2>2. Arrived(Std(fd)) /\ UNCHANGED <<drives, lfs>> /\ Std(fd) \in FatObjs
      BY <1>8, FatObjects DEF EndStdOpen, flash
    <2>3. \A d \in Drives : Std(fd) # Mnt(d)
      BY MountedApart
    <2> QED BY <1>3, <2>1, <2>2, <2>3
  <1>9. EndRomLoad \/ EndUploadOpen => Untouched
    BY <1>3, FatObjects, MountedApart DEF EndRomLoad, EndUploadOpen, flash
  <1>10. ASSUME EndRomInstall
         PROVE  Untouched
    <2>1. FilesShaped' /\ fat'.id = fat.id /\ OnlyAt(fil', fil, Rom)
      BY <1>10, InstallShaped DEF Settled
    <2>2. \A d \in Drives : Mnt(d) \in lfs.list => Mnt(d) \in lfs'.list
      <3>1. lfs \in LfsType /\ Rom \in LfsObjs
        BY Objects DEF FlashTyped
      <3>2. PICK ok \in Outcome("open") :
              lfs' = lfs \/ lfs' = LfsOpened(lfs, Rom, ok) \/ lfs' = LfsClosed(LfsOpened(lfs, Rom, ok), {Rom})
        BY <1>10 DEF EndRomInstall
      <3>3. lfs.list \subseteq LfsOpened(lfs, Rom, ok).list
        BY DEF LfsOpened
      <3>4. LfsClosed(LfsOpened(lfs, Rom, ok), {Rom}).list = LfsOpened(lfs, Rom, ok).list \ {Rom}
        BY DEF LfsClosed, LfsOpened
      <3> QED BY <3>2, <3>3, <3>4, MountedApart
    <2> QED BY <1>10, <2>1, <2>2, FatObjects, MountedApart DEF EndRomInstall, Untouched, OnlyAt
  <1>11. ASSUME RomTask
         PROVE  Untouched
    <2>1. \A d \in Drives : Mnt(d) \in lfs.list => Mnt(d) \in lfs'.list
      BY <1>11, MountedApart DEF RomTask, LfsClosed, FlashTyped, LfsType
    <2> QED BY <1>2, <1>11, <2>1, FatObjects, MountedApart DEF RomTask
  <1>12. UploadEnd \/ FilTask => Untouched
    BY <1>2, FatObjects, MountedApart DEF UploadEnd, FilTask, flash
  <1>13. ASSUME RomLoadFlash \/ CfgFile
         PROVE  Untouched
    <2>1. lfs.list \subseteq lfs'.list
      BY <1>13 DEF RomLoadFlash, CfgFile, LfsOpened
    <2> QED BY <1>1, <1>13, <2>1 DEF RomLoadFlash, CfgFile
  <1>14. UploadFails \/ Run \/ UNCHANGED vars => Untouched
    BY <1>1 DEF UploadFails, Run, flash, vars
  <1>15. ASSUME NEW path \in Path, RomLoadStick(path) \/ Upload(path)
         PROVE  Untouched
    BY <1>1, <1>15 DEF RomLoadStick, Upload, flash
  <1>16. ASSUME Stop
         PROVE  Untouched
    <2> DEFINE open == {Std(fd) : fd \in StdFat}
               valid == {o \in open : Valid(fat, fil[o])}
               users == [i \in Entries |-> Cardinality({o \in valid : fil[o].lockid = i})]
               flashes == {Std(fd) : fd \in lfs_isopen}
    <2>1. /\ fat' = DecShare(fat, users) /\ fil' = [o \in FatObjs |-> IF o \in valid THEN Null ELSE fil[o]]
          /\ lfs' = LfsClosed(lfs, flashes) /\ UNCHANGED drives
      BY <1>16 DEF Stop, StdStop
    <2>2. \A d \in Drives : Mnt(d) \notin valid /\ Mnt(d) \notin flashes
      BY MountedApart
    <2> HIDE DEF users, valid, flashes
    <2>3. Shaped(fat') /\ fat'.id = fat.id
      BY <2>1, CloseShaped DEF FilesShaped
    <2>4. OnSticks(fil')
      BY <2>1 DEF OnSticks, FilesShaped
    <2>5. \A d \in Drives : fil'[Mnt(d)] = fil[Mnt(d)]
      BY <2>1, <2>2, FatObjects
    <2>6. \A d \in Drives : Mnt(d) \in lfs.list => Mnt(d) \in lfs'.list
      BY <2>1, <2>2, SMTT(60) DEF LfsClosed, FlashTyped, LfsType
    <2> QED BY <2>1, <2>3, <2>4, <2>5, <2>6 DEF Untouched, FilesShaped, Shaped, OnSticks
  <1> QED BY <1>4, <1>5, <1>6, <1>7, <1>8, <1>9, <1>10, <1>11, <1>12, <1>13, <1>14, <1>15, <1>16
          DEF Next, Calls, Answers, Monitor

(***************************************************************************)
(* The types of the flash, whatever programs leave open.                   *)
(***************************************************************************)
LEMMA ClosedType ==
  ASSUME NEW l \in LfsType, NEW fs
  PROVE  LfsClosed(l, fs) \in LfsType
BY DEF LfsClosed, LfsType

LEMMA FlashStep ==
  ASSUME FlashTyped, [Next]_vars
  PROVE  FlashTyped'
  <1>1. lfs \in LfsType /\ lfs_isopen \subseteq StdLfs /\ lfs_file_open \in BOOLEAN /\ fails \in 0 .. MaxFails
    BY DEF FlashTyped
  <1> DEFINE IsFlash == /\ lfs' \in LfsType /\ lfs_isopen' \subseteq StdLfs
                        /\ lfs_file_open' \in BOOLEAN /\ fails' \in 0 .. MaxFails
  <1>2. ASSUME StdOpenFlash PROVE IsFlash
    <2> DEFINE fd == Min(StdLfs \ lfs_isopen)
    <2>1. fd \in StdLfs /\ Std(fd) \in LfsObjs
      BY <1>2, Constants, MinOfNats, Objects DEF StdOpenFlash
    <2> HIDE DEF fd
    <2>2. PICK ok \in Outcome("open") :
               /\ lfs' = LfsOpened(lfs, Std(fd), ok)
               /\ lfs_isopen' = IF ok THEN lfs_isopen \cup {fd} ELSE lfs_isopen
               /\ fails' = IF ok THEN fails ELSE fails + 1
      BY <1>2 DEF StdOpenFlash, Failing, fd
    <2>3. ok \in BOOLEAN /\ fails' \in 0 .. MaxFails
      BY <1>1, <2>2, Counted
    <2>4. lfs' \in LfsType
      BY <1>1, <2>1, <2>2, <2>3, SlotOf
    <2>5. lfs_isopen' \subseteq StdLfs
      BY <1>1, <2>1, <2>2
    <2>6. lfs_file_open' \in BOOLEAN
      BY <1>1, <1>2 DEF StdOpenFlash, loader
    <2> QED BY <2>3, <2>4, <2>5, <2>6
  <1>3. ASSUME NEW fd \in StdLfs, StdCloseFlash(fd) PROVE IsFlash
    BY <1>1, <1>3, ClosedType DEF StdCloseFlash, loader
  <1>4. ASSUME NEW d \in Drives, UmountDrive(d), UNCHANGED <<lfs_isopen, fails, lfs_file_open>> PROVE IsFlash
    BY <1>1, <1>4, ClosedType DEF UmountDrive
  <1>5. ASSUME NEW d \in Drives, EndMountFlash(d) PROVE IsFlash
    <2>1. PICK ok \in Outcome("flash") :
               lfs' = LfsOpened(lfs, Mnt(d), ok) /\ fails' = IF ok THEN fails ELSE fails + 1
      BY <1>5 DEF EndMountFlash, Failing
    <2>2. ok \in BOOLEAN /\ fails' \in 0 .. MaxFails
      BY <1>1, <2>1, Counted
    <2>3. lfs' \in LfsType
      BY <1>1, <2>1, <2>2, SlotOf, Objects
    <2> QED BY <1>1, <1>5, <2>2, <2>3 DEF EndMountFlash, loader
  <1>6. ASSUME RomLoadFlash PROVE IsFlash
    <2>1. PICK ok \in Outcome("open") :
               /\ lfs' = LfsOpened(lfs, Rom, ok) /\ lfs_file_open' = ok
               /\ fails' = IF ok THEN fails ELSE fails + 1
      BY <1>6 DEF RomLoadFlash, Failing
    <2>2. ok \in BOOLEAN /\ fails' \in 0 .. MaxFails
      BY <1>1, <2>1, Counted
    <2>3. lfs' \in LfsType
      BY <1>1, <2>1, <2>2, SlotOf, Objects
    <2> QED BY <1>1, <1>6, <2>1, <2>2, <2>3 DEF RomLoadFlash
  <1>7. ASSUME CfgFile PROVE IsFlash
    <2>1. PICK ok \in Outcome("open") :
               /\ lfs' = IF ok THEN lfs ELSE LfsOpened(lfs, Cfg, FALSE)
               /\ fails' = IF ok THEN fails ELSE fails + 1
      BY <1>7 DEF CfgFile, Failing
    <2>2. ok \in BOOLEAN /\ fails' \in 0 .. MaxFails
      BY <1>1, <2>1, Counted
    <2>3. LfsOpened(lfs, Cfg, FALSE) \in LfsType
      BY <1>1, SlotOf, Objects
    <2>4. lfs' \in LfsType
      BY <1>1, <2>1, <2>2, <2>3
    <2> QED BY <1>1, <1>7, <2>2, <2>4 DEF CfgFile, loader
  <1>8. ASSUME EndRomInstall PROVE IsFlash
    <2>1. PICK found \in Found, ok \in Outcome("open") :
               /\ \/ lfs' = lfs \/ lfs' = LfsOpened(lfs, Rom, ok)
                  \/ lfs' = LfsClosed(LfsOpened(lfs, Rom, ok), {Rom})
               /\ fails' = fails \/ fails' = IF ok THEN fails ELSE fails + 1
      BY <1>8 DEF EndRomInstall
    <2>2. ok \in BOOLEAN /\ fails' \in 0 .. MaxFails
      BY <1>1, <2>1, Counted
    <2>3. LfsOpened(lfs, Rom, ok) \in LfsType
      BY <1>1, <2>2, SlotOf, Objects
    <2>4. LfsClosed(LfsOpened(lfs, Rom, ok), {Rom}) \in LfsType
      BY <2>3, ClosedType
    <2> QED BY <1>1, <1>8, <2>1, <2>2, <2>3, <2>4 DEF EndRomInstall, loader
  <1>9. ASSUME RomTask PROVE IsFlash
    BY <1>1, <1>9, ClosedType DEF RomTask
  <1>10. ASSUME Stop PROVE IsFlash
    BY <1>1, <1>10, ClosedType DEF Stop, StdStop, loader
  <1>11. ASSUME CheckLost PROVE IsFlash
    <2>1. UNCHANGED <<lfs_isopen, fails, lfs_file_open>>
      BY <1>11 DEF CheckLost, loader
    <2>2. lfs' = lfs \/ \E d : lfs' = LfsClosed(lfs, {Mnt(d)})
      BY <1>11 DEF CheckLost
    <2> QED BY <1>1, <2>1, <2>2, ClosedType
  <1>12. ASSUME NEW d \in Drives, EndMountStick(d) PROVE IsFlash
    BY <1>1, <1>12 DEF EndMountStick, flash, loader
  <1>13. ASSUME Elsewhere PROVE IsFlash
    BY <1>1, <1>13 DEF Elsewhere
  <1>14. ASSUME NEW path, RomLoadStick(path) PROVE IsFlash
    BY <1>1, <1>14 DEF RomLoadStick, flash, loader
  <1>15. ASSUME NEW d \in Drives, NEW path, Mount(d, path) \/ Umount(d) PROVE IsFlash
    BY <1>4, <1>15 DEF Mount, Umount, loader
  <1>16. IsFlash
    BY WhoUsesTheFlash, <1>2, <1>3, <1>5, <1>6, <1>7, <1>8, <1>9, <1>10, <1>11, <1>12, <1>13,
       <1>14, <1>15
  <1> QED BY <1>16 DEF FlashTyped

LEMMA FlashAtFirst == Init => FlashTyped
BY SlotsAtFirst DEF Slots

(***************************************************************************)
(* Drives and their files.                                                 *)
(***************************************************************************)
HasItsFile(d) ==
  mnt_status[d] = "MOUNTED" =>
    /\ type[d] = "LFS" => Mnt(d) \in lfs.list /\ mnt_paths[d].dev = Flash
    /\ type[d] = "FAT" => /\ Valid(fat, fil[Mnt(d)])
                          /\ mnt_paths[d].dev = fil[Mnt(d)].stick
                          /\ mnt_paths[d].name = fil[Mnt(d)].name

LEMMA DriveByDrive ==
  ASSUME Settled
  PROVE  DriveHasItsFile <=> \A d \in Drives : HasItsFile(d)
BY DEF Settled, DrivesTyped, DriveHasItsFile, HasItsFile

\* A drive that a step leaves alone.
LEMMA DriveLeftAlone ==
  ASSUME NEW d \in Drives, HasItsFile(d),
         mnt_status'[d] = mnt_status[d], type'[d] = type[d], mnt_paths'[d] = mnt_paths[d],
         fat'.id = fat.id, fil'[Mnt(d)] = fil[Mnt(d)],
         Mnt(d) \in lfs.list => Mnt(d) \in lfs'.list
  PROVE  HasItsFile(d)'
BY DEF HasItsFile, Valid

Shown == Settled /\ FlashTyped /\ FilesShaped /\ Alone

\* An unmount, on its own or at the start of a mount that may clear the object.
Umounting(d) ==
  /\ UmountDrive(d)
  /\ \E f \in {Umounted(d).fil, Null} : fil' = [fil EXCEPT ![Mnt(d)] = f]

LEMMA WhoUmounts ==
  ASSUME NEW d, NEW path, Mount(d, path) \/ Umount(d)
  PROVE  Umounting(d)
BY DEF Mount, Umount, Umounting

LEMMA UmountShaped ==
  ASSUME Shown, NEW d \in Drives, Umounting(d)
  PROVE  /\ FilesShaped' /\ fat'.id = fat.id
         /\ type'[d] = "EMPTY" /\ \A e \in Drives \ {d} : type'[e] = type[e]
         /\ \A e \in Drives \ {d} : /\ fil'[Mnt(e)] = fil[Mnt(e)]
                                    /\ Mnt(e) \in lfs.list => Mnt(e) \in lfs'.list
  <1>1. type'[d] = "EMPTY" /\ \A e \in Drives \ {d} : type'[e] = type[e]
    BY DEF Umounting, UmountDrive, Shown, Settled, DrivesTyped
  <1>2. \A e : Mnt(e) = Mnt(d) => e = d
    BY DEF Mnt
  <1>3. \A e \in Drives \ {d} : Mnt(e) \in lfs.list => Mnt(e) \in lfs'.list
    BY <1>2 DEF Umounting, UmountDrive, LfsClosed, Shown, FlashTyped, LfsType
  <1>4. /\ Shaped(Umounted(d).fat) /\ Umounted(d).fat.id = fat.id
        /\ Umounted(d).fil \in {fil[Mnt(d)], Null}
    BY CloseShaped DEF Umounted, Shown, FilesShaped
  <1>5. PICK f \in {fil[Mnt(d)], Null} : fil' = [fil EXCEPT ![Mnt(d)] = f]
    BY <1>4 DEF Umounting
  <1>6. Mnt(d) \in FatObjs /\ OnSticks(fil)
    BY FatObjects DEF Shown, FilesShaped
  <1>7. f # Null => f.stick \in Sticks
    BY <1>5, <1>6 DEF OnSticks
  <1>8. OnSticks(fil') /\ OnlyAt(fil', fil, Mnt(d))
    BY <1>5, <1>6, <1>7, OnSticksKept
  <1>9. Shaped(fat') /\ fat'.id = fat.id
    BY <1>4 DEF Umounting, UmountDrive
  <1>10. FilesShaped'
    BY <1>8, <1>9 DEF FilesShaped, Shaped, OnSticks
  <1> QED BY <1>1, <1>2, <1>3, <1>8, <1>9, <1>10, FatObjects DEF OnlyAt

LEMMA ShownAtUmounts ==
  ASSUME Shown, NEW d \in Drives, NEW path, Mount(d, path) \/ Umount(d)
  PROVE  FilesShaped' /\ \A e \in Drives : HasItsFile(e) => HasItsFile(e)'
  <1>1. Umounting(d)
    BY WhoUmounts
  <1>2. /\ FilesShaped' /\ fat'.id = fat.id
        /\ type'[d] = "EMPTY" /\ \A e \in Drives \ {d} : type'[e] = type[e]
        /\ \A e \in Drives \ {d} : /\ fil'[Mnt(e)] = fil[Mnt(e)]
                                   /\ Mnt(e) \in lfs.list => Mnt(e) \in lfs'.list
    BY <1>1, UmountShaped
  <1>3. \A e \in Drives \ {d} : mnt_status'[e] = mnt_status[e] /\ mnt_paths'[e] = mnt_paths[e]
    BY DEF Mount, Umount, Shown, Settled, DrivesTyped
  <1>4. HasItsFile(d)'
    BY <1>2 DEF HasItsFile
  <1>5. ASSUME NEW e \in Drives \ {d}, HasItsFile(e) PROVE HasItsFile(e)'
    BY <1>2, <1>3, <1>5, DriveLeftAlone
  <1> QED BY <1>2, <1>4, <1>5

\* A drive reads its image on the flash only if it is there.
FlashIsRead == "flash" \notin Faults \/ ("stale" \notin Faults /\ Drives \subseteq 0 .. 3)

LEMMA ShownAtMountFlash ==
  ASSUME Shown, NEW d \in Drives, EndMountFlash(d), FlashIsRead
  PROVE  FilesShaped' /\ \A e \in Drives : HasItsFile(e) => HasItsFile(e)'
  <1>1. PICK ok \in Outcome("flash") :
          \E unnoticed \in Unnoticed(d) :
          LET taken == IF ok THEN Takes(d, waiting.path.name) ELSE unnoticed
          IN lfs' = LfsOpened(lfs, Mnt(d), ok) /\ type' = [type EXCEPT ![d] = IF taken THEN "LFS" ELSE "EMPTY"]
    BY DEF EndMountFlash
  <1>2. /\ UNCHANGED <<fat, fil>> /\ waiting.path.dev = Flash
        /\ mnt_status' = [mnt_status EXCEPT ![d] = "MOUNTED"]
        /\ mnt_paths' = [mnt_paths EXCEPT ![d] = waiting.path]
    BY DEF EndMountFlash
  <1>3. ok \in BOOLEAN /\ lfs.list \subseteq lfs'.list /\ (ok => Mnt(d) \in lfs'.list)
    <2>1. ok \in BOOLEAN /\ lfs' = LfsOpened(lfs, Mnt(d), ok)
      BY <1>1 DEF Outcome
    <2> QED BY <2>1 DEF LfsOpened
  <1>4. ~ok => Unnoticed(d) = {FALSE}
    <2>1. ~ok => "flash" \in Faults
      BY DEF Outcome
    <2>2. Drives \subseteq 0 .. 3 => ~(d > 3)
      OBVIOUS
    <2> QED BY <2>1, <2>2 DEF Unnoticed, FlashIsRead
  <1>5. type'[d] = "LFS" => Mnt(d) \in lfs'.list
    BY <1>1, <1>3, <1>4 DEF Shown, Settled, DrivesTyped
  <1>6. type'[d] \in {"LFS", "EMPTY"} /\ mnt_paths'[d].dev = Flash
    BY <1>1, <1>2 DEF Shown, Settled, DrivesTyped
  <1>7. HasItsFile(d)'
    BY <1>5, <1>6 DEF HasItsFile
  <1>8. ASSUME NEW e \in Drives \ {d}, HasItsFile(e) PROVE HasItsFile(e)'
    <2>1. mnt_status'[e] = mnt_status[e] /\ mnt_paths'[e] = mnt_paths[e] /\ type'[e] = type[e]
      BY <1>1, <1>2 DEF Shown, Settled, DrivesTyped
    <2> QED BY <1>2, <1>3, <1>8, <2>1, DriveLeftAlone
  <1>9. FilesShaped'
    BY <1>2 DEF Shown, FilesShaped, Shaped, OnSticks
  <1> QED BY <1>7, <1>8, <1>9

LEMMA ShownAtMountStick ==
  ASSUME Shown, NEW d \in Drives, EndMountStick(d)
  PROVE  FilesShaped' /\ \A e \in Drives : HasItsFile(e) => HasItsFile(e)'
  <1>1. PICK found \in Found : Loaded(d, Looked(found))
    BY DEF EndMountStick
  <1>2. /\ FilesShaped' /\ fat'.id = fat.id
        /\ OnlyAt(fil', fil, Mnt(d))
        /\ fil'[Mnt(d)] = Looked(found).fil
        /\ fil'[Mnt(d)] # Null => /\ Valid(fat', fil'[Mnt(d)])
                                  /\ fil'[Mnt(d)].stick = waiting.path.dev
                                  /\ fil'[Mnt(d)].name = waiting.path.name
    BY <1>1, AnswerShaped, FatObjects DEF EndMountStick, Loaded, Shown, Settled
  <1>3. mnt_paths' = [mnt_paths EXCEPT ![d] = waiting.path] /\ lfs' = lfs
    BY DEF EndMountStick, flash
  <1>4. /\ type'[d] = "EMPTY" \/ (type'[d] = "FAT" /\ fil'[Mnt(d)] # Null)
        /\ mnt_paths'[d] = waiting.path
    BY <1>1, <1>2, <1>3 DEF Loaded, Shown, Settled, DrivesTyped
  <1>5. HasItsFile(d)'
    BY <1>2, <1>4 DEF HasItsFile
  <1>6. ASSUME NEW e \in Drives \ {d}, HasItsFile(e) PROVE HasItsFile(e)'
    <2>1. mnt_status'[e] = mnt_status[e] /\ mnt_paths'[e] = mnt_paths[e] /\ type'[e] = type[e]
      BY <1>1, <1>3 DEF Loaded, Shown, Settled, DrivesTyped
    <2>2. fil'[Mnt(e)] = fil[Mnt(e)]
      BY <1>2, FatObjects DEF OnlyAt, Mnt
    <2> QED BY <1>2, <1>3, <1>6, <2>1, <2>2, DriveLeftAlone
  <1> QED BY <1>2, <1>5, <1>6

\* A lost drive is mounted again from its path.
LEMMA ShownAtCheckLost ==
  ASSUME Shown, CheckLost
  PROVE  FilesShaped' /\ \A e \in Drives : HasItsFile(e) => HasItsFile(e)'
  <1> DEFINE lost == {d \in LostOn(check.dev) : d >= check.next}
  <1>0. UNCHANGED mnt_paths /\ check \in [dev: Sticks, next: 0 .. 6]
    BY DEF CheckLost, Shown, Settled, TasksTyped
  <1>1. CASE lost = {}
    <2>1. UNCHANGED <<lfs, fat, fil, type, mnt_status>>
      BY <1>1 DEF CheckLost
    <2> QED BY <1>0, <2>1, DriveLeftAlone DEF Shown, FilesShaped, Shaped, OnSticks
  <1>2. CASE lost # {}
    <2>1. PICK d \in lost : d = Min(lost)
      BY <1>2, NextLost DEF LostOn
    <2>2. d \in Drives /\ mnt_paths[d].dev = check.dev /\ check.dev \in Sticks
      BY <1>0, <2>1 DEF LostOn
    <2> DEFINE closed == Umounted(d).fat
               name == mnt_paths[d].name
    <2>3. PICK found \in Found : Loaded(d, Opened(closed, check.dev, name, Writing, found))
      BY <1>2, <2>1 DEF CheckLost
    <2>4. lfs' = lfs \/ lfs' = LfsClosed(lfs, {Mnt(d)})
      BY <1>2, <2>1 DEF CheckLost
    <2> HIDE DEF lost
    <2>5. Shaped(closed) /\ closed.id = fat.id
      BY CloseShaped DEF Umounted, Shown, FilesShaped
    <2> DEFINE r == Opened(closed, check.dev, name, Writing, found)
    <2> HIDE DEF closed, name
    <2>6. /\ Shaped(r.fat) /\ r.fat.id = fat.id
          /\ r.fil # Null => Valid(r.fat, r.fil) /\ r.fil.stick = check.dev /\ r.fil.name = name
      BY <2>2, <2>5, OpenShaped
    <2> HIDE DEF r
    <2>7. /\ fat' = r.fat /\ fil' = [fil EXCEPT ![Mnt(d)] = r.fil]
          /\ type' = [type EXCEPT ![d] =
                IF r.fil # Null /\ Takes(d, r.fil.name) THEN "FAT" ELSE "EMPTY"]
          /\ mnt_status' = IF r.fil = Null THEN mnt_status ELSE [mnt_status EXCEPT ![d] = "MOUNTED"]
      BY <2>3 DEF Loaded, r
    <2>8. OnSticks(fil') /\ fil'[Mnt(d)] = r.fil /\ OnlyAt(fil', fil, Mnt(d))
      <3>1. Mnt(d) \in FatObjs /\ OnSticks(fil)
        BY <2>2, FatObjects DEF Shown, FilesShaped
      <3> QED BY <2>2, <2>6, <2>7, <3>1 DEF OnSticks, OnlyAt
    <2>9. FilesShaped'
      BY <2>6, <2>7, <2>8 DEF FilesShaped, Shaped, OnSticks
    <2>10. type'[d] = "EMPTY" \/ (type'[d] = "FAT" /\ r.fil # Null)
      BY <2>2, <2>7 DEF Shown, Settled, DrivesTyped
    <2>11. HasItsFile(d)'
      BY <1>0, <2>2, <2>6, <2>7, <2>8, <2>10 DEF HasItsFile, name
    <2>12. ASSUME NEW e \in Drives \ {d}, HasItsFile(e) PROVE HasItsFile(e)'
      <3>1. mnt_status'[e] = mnt_status[e] /\ mnt_paths'[e] = mnt_paths[e] /\ type'[e] = type[e]
        BY <1>0, <2>7 DEF Shown, Settled, DrivesTyped
      <3>2. fil'[Mnt(e)] = fil[Mnt(e)]
        BY <2>8, FatObjects DEF OnlyAt, Mnt
      <3>3. Mnt(e) \in lfs.list => Mnt(e) \in lfs'.list
        BY <2>4, ZenonT(60) DEF Mnt, LfsClosed, Shown, FlashTyped, LfsType
      <3> QED BY <2>6, <2>7, <2>12, <3>1, <3>2, <3>3, DriveLeftAlone
    <2> QED BY <2>9, <2>11, <2>12
  <1> QED BY <1>1, <1>2

\* A stick goes: the drives that had their files on it are lost.  A stick
\* that comes back has another number, and nothing is open on it.
LEMMA ShownAtSticks ==
  ASSUME Shown, NEW s \in Sticks, Plug(s) \/ Pull(s)
  PROVE  FilesShaped' /\ \A e \in Drives : HasItsFile(e) => HasItsFile(e)'
  <1>1. /\ fat' = Mounted(fat, s) \/ fat' = Unmounted(fat, s)
        /\ UNCHANGED <<lfs, fil, type, mnt_paths>>
    BY DEF Plug, Pull, flash, drives
  <1>2. Shaped(fat') /\ \A t \in Sticks \ {s} : fat'.id[t] = fat.id[t]
    BY <1>1, StickShaped DEF Shown, FilesShaped
  <1>3. FilesShaped'
    BY <1>1, <1>2 DEF Shown, FilesShaped, Shaped, OnSticks
  <1>4. ASSUME NEW e \in Drives, HasItsFile(e) PROVE HasItsFile(e)'
    <2>1. mnt_status'[e] = "MOUNTED" => mnt_status[e] = "MOUNTED"
      BY DEF Plug, Pull, LoseDrives, drives
    <2>2. mnt_status'[e] = "MOUNTED" /\ Valid(fat, fil[Mnt(e)])
          /\ mnt_paths[e].dev = fil[Mnt(e)].stick => fil[Mnt(e)].stick # s
      <3>1. CASE Plug(s)
        BY <3>1 DEF Plug, Valid
      <3>2. CASE Pull(s)
        BY <2>1, <3>2 DEF Pull, LoseDrives
      <3> QED BY <3>1, <3>2
    <2>3. fil[Mnt(e)] # Null => fil[Mnt(e)].stick \in Sticks
      BY FatObjects DEF Shown, FilesShaped, OnSticks
    <2> QED BY <1>1, <1>2, <1>4, <2>1, <2>2, <2>3 DEF HasItsFile, Valid
  <1> QED BY <1>3, <1>4

LEMMA ShapedStep ==
  ASSUME Shown, Hotplug = "quiet", [Next]_vars
  PROVE  Shown'
  <1>1. Settled' /\ FlashTyped' /\ Alone'
    BY SettledStep, FlashStep, WhoGoesOn DEF Shown
  <1>2. ASSUME NEW d \in Drives, EndMountFlash(d) PROVE FilesShaped'
    BY <1>2 DEF EndMountFlash, Shown, FilesShaped, Shaped, OnSticks
  <1>3. FilesShaped'
    BY <1>2, UntouchedSteps, ShownAtUmounts, ShownAtMountStick, ShownAtCheckLost, ShownAtSticks
       DEF Shown, Untouched
  <1> QED BY <1>1, <1>3 DEF Shown

LEMMA ShownStep ==
  ASSUME Shown, DriveHasItsFile, Hotplug = "quiet", FlashIsRead,
         [Next]_vars
  PROVE  Shown' /\ DriveHasItsFile'
  <1>1. Shown'
    BY ShapedStep
  <1>2. \A d \in Drives : HasItsFile(d)
    BY DriveByDrive DEF Shown
  <1>3. Untouched => \A d \in Drives : HasItsFile(d)'
    BY <1>2, DriveLeftAlone DEF Untouched, drives
  <1>4. \A d \in Drives : HasItsFile(d)'
    BY <1>2, <1>3, UntouchedSteps, ShownAtUmounts, ShownAtMountFlash, ShownAtMountStick,
       ShownAtCheckLost, ShownAtSticks DEF Shown
  <1>5. DriveHasItsFile' <=> \A d \in Drives : HasItsFile(d)'
    BY <1>1 DEF Shown, Settled, DrivesTyped, DriveHasItsFile, HasItsFile
  <1> QED BY <1>1, <1>4, <1>5

LEMMA ShownAtFirst == Init => Shown /\ DriveHasItsFile
  <1> SUFFICES ASSUME Init PROVE Shown /\ DriveHasItsFile
    OBVIOUS
  <1>1. Settled /\ FlashTyped
    BY SettledAtFirst, FlashAtFirst
  <1>2. Shaped(fat) /\ OnSticks(fil)
    BY DEF Init, Shaped, FatInit, OnSticks
  <1>3. Alone
    BY DEF Init, Alone
  <1>4. DriveHasItsFile
    BY DEF Init, DriveHasItsFile
  <1> QED BY <1>1, <1>2, <1>3, <1>4 DEF Shown, FilesShaped

(***************************************************************************)
(* Sticks that come and go while nothing waits, and floppy drives or a     *)
(* flash whose files are there: a drive that is mounted and not empty has  *)
(* its file open, and it is the one that the menu shows (mnt.c:38-97).     *)
(***************************************************************************)
THEOREM DrivesKept ==
  ASSUME Hotplug = "quiet", FlashIsRead
  PROVE  Spec => []DriveHasItsFile
  <1>1. Init => Shown /\ DriveHasItsFile
    BY ShownAtFirst
  <1>2. Shown /\ DriveHasItsFile /\ [Next]_vars => Shown' /\ DriveHasItsFile'
    BY ShownStep
  <1> QED BY <1>1, <1>2, PTL DEF Spec

(***************************************************************************)
(* Sticks that come and go while nothing waits: the file that is opened is *)
(* the one that was asked for, though FatFs calls main_task() in between   *)
(* (main.c:98-99).                                                         *)
(***************************************************************************)
THEOREM NamesKept == ASSUME Hotplug = "quiet" PROVE Spec => OpensItsName
  <1>1. Init => Shown
    BY ShownAtFirst
  <1>2. Shown /\ [Next]_vars => Shown'
    BY ShapedStep
  <1> DEFINE Opens == waiting # Null /\ waiting' = Null /\ fil' # fil /\ fil'[waiting.obj] # Null
                        => fil'[waiting.obj].name = waiting.path.name
  <1>3. Shown /\ [Next]_vars => [Opens]_vars
    <2> SUFFICES ASSUME Shown, [Next]_vars, waiting # Null, fil' # fil, fil'[waiting.obj] # Null
                 PROVE  fil'[waiting.obj].name = waiting.path.name
      OBVIOUS
    <2>1. Answers
      BY WhoGoesOn DEF Shown, vars
    <2>2. ASSUME NEW obj \in FatObjs, Arrived(obj), NEW found,
                 fat' = Looked(found).fat, fil' = [fil EXCEPT ![obj] = Looked(found).fil]
          PROVE  fil'[waiting.obj].name = waiting.path.name
      <3>1. waiting.obj = obj /\ (fil'[obj] # Null => fil'[obj].name = waiting.path.name)
        BY <2>2, AnswerShaped DEF Shown, Settled
      <3> QED BY <3>1
    <2>3. ASSUME NEW fd \in StdFat, EndStdOpen(fd)
          PROVE  fil'[waiting.obj].name = waiting.path.name
      <3>1. Std(fd) \in FatObjs
        BY FatObjects
      <3> QED BY <2>2, <2>3, <3>1 DEF EndStdOpen
    <2>4. ASSUME NEW d \in Drives, EndMountStick(d)
          PROVE  fil'[waiting.obj].name = waiting.path.name
      <3>1. Mnt(d) \in FatObjs
        BY FatObjects
      <3> QED BY <2>2, <2>4, <3>1 DEF EndMountStick, Loaded
    <2>5. ASSUME EndRomLoad \/ EndUploadOpen
          PROVE  fil'[waiting.obj].name = waiting.path.name
      BY <2>2, <2>5, FatObjects DEF EndRomLoad, EndUploadOpen
    <2>6. ASSUME EndRomInstall
          PROVE  fil'[waiting.obj].name = waiting.path.name
      BY <2>6, InstallShaped DEF Shown, Settled, EndRomInstall, Arrived
    <2>7. \A d \in Drives : ~EndMountFlash(d)
      BY DEF EndMountFlash
    <2> QED BY <2>1, <2>3, <2>4, <2>5, <2>6, <2>7 DEF Answers
  <1> QED BY <1>1, <1>2, <1>3, PTL DEF Spec, OpensItsName

(***************************************************************************)
(* Locks.  Where drives take every file and sticks come and go while       *)
(* nothing waits: a drive that has no file on a stick has none open, and   *)
(* the file that an open waits for is not open yet.                        *)
(***************************************************************************)
EmptyDrives == \A d \in Drives : type[d] # "FAT" => ~Valid(fat, fil[Mnt(d)])
NotOpenYet == waiting # Null => ~Valid(fat, fil[waiting.obj])
Locked == Sound(fat, fil, FatObjs, Names) /\ EmptyDrives /\ NotOpenYet

LEMMA FewObjects == IsFiniteSet(FatObjs) /\ Cardinality(FatObjs) < WriteMode
  <1>1. ASSUME NEW S, IsFiniteSet(S), NEW T, NEW f \in [S -> T], \A t \in T : \E s \in S : f[s] = t
        PROVE  IsFiniteSet(T) /\ Cardinality(T) <= Cardinality(S)
    <2>1. f \in Surjection(S, T)
      BY <1>1 DEF Surjection
    <2> QED BY <1>1, <2>1, FS_Surjection
  <1> DEFINE stds == {Std(fd) : fd \in StdFat}
             mnts == {Mnt(d) : d \in Drives}
  <1>2. IsFiniteSet(stds) /\ Cardinality(stds) <= 16
    <2>1. [fd \in StdFat |-> Std(fd)] \in [StdFat -> stds]
      OBVIOUS
    <2>2. \A t \in stds : \E s \in StdFat : [fd \in StdFat |-> Std(fd)][s] = t
      OBVIOUS
    <2>3. IsFiniteSet(StdFat) /\ Cardinality(StdFat) <= 16
      BY FilesAssumption
    <2> HIDE DEF stds
    <2>4. IsFiniteSet(stds) /\ Cardinality(stds) <= Cardinality(StdFat)
      BY <1>1, <2>1, <2>2, <2>3
    <2>5. Cardinality(stds) \in Nat /\ Cardinality(StdFat) \in Nat
      BY <2>3, <2>4, FS_CardinalityType
    <2> QED BY <2>3, <2>4, <2>5
  <1>3. IsFiniteSet(mnts) /\ Cardinality(mnts) <= 6
    <2>1. IsFiniteSet(0 .. 5) /\ Cardinality(0 .. 5) = 6
      <3>1. 0 \in Int /\ 5 \in Int
        OBVIOUS
      <3>2. IsFiniteSet(0 .. 5) /\ Cardinality(0 .. 5) = IF 0 > 5 THEN 0 ELSE 5 - 0 + 1
        BY <3>1, FS_Interval, Zenon
      <3> QED BY <3>2
    <2>2. IsFiniteSet(Drives) /\ Cardinality(Drives) <= 6
      <3>1. Drives \in SUBSET (0 .. 5)
        BY Constants
      <3>2. IsFiniteSet(Drives) /\ Cardinality(Drives) <= Cardinality(0 .. 5)
        BY <2>1, <3>1, FS_Subset
      <3> QED BY <2>1, <3>2
    <2>3. [d \in Drives |-> Mnt(d)] \in [Drives -> mnts]
      OBVIOUS
    <2>4. \A t \in mnts : \E s \in Drives : [d \in Drives |-> Mnt(d)][s] = t
      OBVIOUS
    <2> HIDE DEF mnts
    <2>5. IsFiniteSet(mnts) /\ Cardinality(mnts) <= Cardinality(Drives)
      BY <1>1, <2>2, <2>3, <2>4
    <2>6. Cardinality(mnts) \in Nat /\ Cardinality(Drives) \in Nat
      BY <2>2, <2>5, FS_CardinalityType
    <2> QED BY <2>2, <2>5, <2>6
  <1>4. FatObjs = ((stds \cup mnts) \cup {Up}) \cup {Rom}
    BY DEF FatObjs, Held
  <1> HIDE DEF stds, mnts
  <1>5. IsFiniteSet(stds \cup mnts) /\ Cardinality(stds \cup mnts) <= 22
    <2>1. /\ IsFiniteSet(stds \cup mnts)
          /\ Cardinality(stds \cup mnts) = Cardinality(stds) + Cardinality(mnts) - Cardinality(stds \cap mnts)
      BY <1>2, <1>3, FS_Union
    <2>2. IsFiniteSet(stds \cap mnts)
      BY <1>2, FS_Intersection
    <2>3. Cardinality(stds \cap mnts) \in Nat /\ Cardinality(stds) \in Nat /\ Cardinality(mnts) \in Nat
      BY <1>2, <1>3, <2>2, FS_CardinalityType
    <2> QED BY <1>2, <1>3, <2>1, <2>3
  <1>6. IsFiniteSet((stds \cup mnts) \cup {Up}) /\ Cardinality((stds \cup mnts) \cup {Up}) <= 23
    <2>1. Cardinality(stds \cup mnts) \in Nat
      BY <1>5, FS_CardinalityType
    <2> QED BY <1>5, <2>1, FS_AddElement
  <1>7. IsFiniteSet(FatObjs) /\ Cardinality(FatObjs) <= 24
    <2>1. Cardinality((stds \cup mnts) \cup {Up}) \in Nat
      BY <1>6, FS_CardinalityType
    <2> QED BY <1>4, <1>6, <2>1, FS_AddElement, SMTT(60)
  <1>8. Cardinality(FatObjs) \in Nat
    BY <1>7, FS_CardinalityType
  <1> QED BY <1>7, <1>8 DEF WriteMode

LEMMA NoRecords == NullIsNoRecord(Names)
BY FilesAssumption

\* Nothing but locks and one object changes.
LEMMA StillInvalid ==
  ASSUME NEW f, ~Valid(fat, f), fat'.id = fat.id
  PROVE  ~Valid(fat', f)
BY DEF Valid

LEMMA CloseLocked ==
  ASSUME Sound(fat, fil, FatObjs, Names), NEW o \in FatObjs, CloseFat(o)
  PROVE  /\ Sound(fat', fil', FatObjs, Names) /\ fat'.id = fat.id /\ OnlyAt(fil', fil, o)
         /\ ~Valid(fat', fil'[o])
  <1> DEFINE r == Closed(fat, fil[o])
  <1>1. /\ Sound(r.fat, [fil EXCEPT ![o] = r.fil], FatObjs, Names)
        /\ r.fat.id = fat.id /\ ~Valid(r.fat, r.fil)
    BY ClosedSound, FewObjects, NoRecords
  <1>2. fat' = r.fat /\ fil' = [fil EXCEPT ![o] = r.fil]
    BY DEF CloseFat
  <1> HIDE DEF r
  <1>3. Sound(fat', fil', FatObjs, Names)
    BY <1>1, <1>2
  <1>4. fil'[o] = r.fil /\ OnlyAt(fil', fil, o)
    BY <1>2 DEF Sound, FatTypes, OnlyAt
  <1>5. ~Valid(fat', fil'[o])
    BY <1>1, <1>2, <1>4
  <1> QED BY <1>1, <1>2, <1>3, <1>4, <1>5

LEMMA AnswerLocked ==
  ASSUME Locked, TasksTyped, NEW obj \in FatObjs, Arrived(obj), NEW there,
         fat' = Looked(there).fat, fil' = [fil EXCEPT ![obj] = Looked(there).fil]
  PROVE  /\ Sound(fat', fil', FatObjs, Names) /\ fat'.id = fat.id /\ OnlyAt(fil', fil, obj)
         /\ fil'[obj] = Looked(there).fil /\ fil'[obj] \in FilType(Names)
  <1>1. /\ waiting \in Waits /\ waiting.path.dev \in Sticks /\ waiting.obj = obj
        /\ waiting.lfn \in Names /\ waiting.acc \in {Reading, Writing}
    BY DEF Arrived, TasksTyped, Waits
  <1>2. ~Valid(fat, fil[obj])
    BY <1>1 DEF Locked, NotOpenYet, Arrived
  <1> DEFINE r == Looked(there)
  <1>3. /\ Sound(r.fat, [fil EXCEPT ![obj] = r.fil], FatObjs, Names)
        /\ r.fat.id = fat.id /\ r.fil \in FilType(Names)
    <2>1. /\ NullIsNoRecord(Names) /\ IsFiniteSet(FatObjs) /\ Cardinality(FatObjs) < WriteMode
          /\ Sound(fat, fil, FatObjs, Names)
      BY FewObjects, NoRecords DEF Locked
    <2>2. r = Opened(fat, waiting.path.dev, waiting.lfn, waiting.acc, there)
      BY DEF Looked
    <2> HIDE DEF r
    <2> DEFINE dev == waiting.path.dev
               sought == waiting.lfn
               mode == waiting.acc
    <2>3. dev \in Sticks /\ sought \in Names /\ mode \in {Reading, Writing}
      BY <1>1
    <2>4. r = Opened(fat, dev, sought, mode, there)
      BY <2>2
    <2> HIDE DEF dev, sought, mode
    <2>5. SoundlyOpened(fat, fil, obj, r, FatObjs, Names)
      BY <1>2, <2>1, <2>3, <2>4, OpenSoundly
    <2> QED BY <2>5 DEF SoundlyOpened
  <1> HIDE DEF r
  <1>4. fat' = r.fat /\ fil' = [fil EXCEPT ![obj] = r.fil]
    BY DEF r
  <1>5. fil'[obj] = r.fil /\ OnlyAt(fil', fil, obj)
    BY <1>4 DEF Locked, Sound, FatTypes, OnlyAt
  <1> QED BY <1>3, <1>4, <1>5 DEF r

\* A drive's object is closed, if it has a file on a stick, and may be cleared.
LEMMA UmountedSoundly ==
  ASSUME Locked, NEW d \in Drives
  PROVE  /\ Sound(Umounted(d).fat, [fil EXCEPT ![Mnt(d)] = Umounted(d).fil], FatObjs, Names)
         /\ Umounted(d).fat.id = fat.id /\ ~Valid(Umounted(d).fat, Umounted(d).fil)
  <1>1. Mnt(d) \in FatObjs
    BY FatObjects
  <1>2. CASE type[d] = "FAT"
    <2> DEFINE c == Closed(fat, fil[Mnt(d)])
    <2>1. Sound(c.fat, [fil EXCEPT ![Mnt(d)] = c.fil], FatObjs, Names) /\ c.fat.id = fat.id /\ ~Valid(c.fat, c.fil)
      BY <1>1, ClosedSound, FewObjects, NoRecords DEF Locked
    <2>2. Umounted(d) = c
      BY <1>2 DEF Umounted
    <2> HIDE DEF c
    <2> QED BY <2>1, <2>2
  <1>3. CASE type[d] # "FAT"
    <2>1. Umounted(d).fat = fat /\ Umounted(d).fil = fil[Mnt(d)]
      BY <1>3 DEF Umounted
    <2>2. [fil EXCEPT ![Mnt(d)] = Umounted(d).fil] = fil
      BY <1>1, <2>1 DEF Locked, Sound, FatTypes
    <2>3. Sound(fat, fil, FatObjs, Names) /\ ~Valid(fat, fil[Mnt(d)])
      BY <1>3 DEF Locked, EmptyDrives
    <2> QED BY <2>1, <2>2, <2>3
  <1> QED BY <1>2, <1>3

LEMMA UmountLocked ==
  ASSUME Locked, NEW d \in Drives, Umounting(d)
  PROVE  Sound(fat', fil', FatObjs, Names) /\ fat'.id = fat.id /\ ~Valid(fat', fil'[Mnt(d)])
  <1>1. Mnt(d) \in FatObjs /\ fil \in [FatObjs -> FilType(Names)]
    BY FatObjects DEF Locked, Sound, FatTypes
  <1>2. PICK gat, fl, f : gat = Umounted(d).fat /\ f = Umounted(d).fil /\ fl = [fil EXCEPT ![Mnt(d)] = f]
    OBVIOUS
  <1>3. Sound(gat, fl, FatObjs, Names) /\ gat.id = fat.id /\ ~Valid(gat, f)
    BY <1>2, UmountedSoundly
  <1>4. fl[Mnt(d)] = f /\ [fl EXCEPT ![Mnt(d)] = Null] = [fil EXCEPT ![Mnt(d)] = Null]
    BY <1>1, <1>2
  <1>5. Sound(gat, [fl EXCEPT ![Mnt(d)] = Null], FatObjs, Names)
    BY <1>1, <1>3, <1>4, ClearedSound
  <1>6. fat' = gat /\ (fil' = fl \/ fil' = [fil EXCEPT ![Mnt(d)] = Null])
    BY <1>2 DEF Umounting, UmountDrive
  <1>7. fil'[Mnt(d)] = f \/ fil'[Mnt(d)] = Null
    BY <1>1, <1>4, <1>6
  <1>8. ~Valid(fat', fil'[Mnt(d)])
    BY <1>3, <1>6, <1>7 DEF Valid
  <1> QED BY <1>3, <1>4, <1>5, <1>6, <1>8

Opening(o, there) ==
  Arrived(o) /\ fat' = Looked(there).fat /\ fil' = [fil EXCEPT ![o] = Looked(there).fil]

LEMMA WhoUsesFat ==
  ASSUME [Next]_vars
  PROVE  \/ UNCHANGED <<fat, fil>>
         \/ \E o \in FatObjs : CloseFat(o)
         \/ \E o \in FatObjs, there \in Found : Opening(o, there)
         \/ \E d \in Drives : Umounting(d)
         \/ EndRomInstall \/ CheckLost \/ Stop \/ \E s \in Sticks : Plug(s) \/ Pull(s)
  <1> DEFINE Known == \/ UNCHANGED <<fat, fil>>
                      \/ \E o \in FatObjs : CloseFat(o)
                      \/ \E d \in Drives : Umounting(d)
                      \/ \E o \in FatObjs, there \in Found : Opening(o, there)
  <1>1. ASSUME NEW fd \in StdFat, StdCloseStick(fd) \/ EndStdOpen(fd) PROVE Known
    <2>1. Std(fd) \in FatObjs
      BY FatObjects
    <2> QED BY <1>1, <2>1 DEF StdCloseStick, EndStdOpen, Opening
  <1>2. ASSUME NEW d \in Drives, NEW path, Mount(d, path) \/ Umount(d) \/ EndMountStick(d) PROVE Known
    <2>1. Mnt(d) \in FatObjs
      BY FatObjects
    <2> QED BY <1>2, <2>1, WhoUmounts DEF EndMountStick, Loaded, Opening
  <1>3. ASSUME EndRomLoad \/ EndUploadOpen \/ RomTask \/ UploadEnd \/ FilTask PROVE Known
    <2>1. Rom \in FatObjs /\ Up \in FatObjs
      BY FatObjects
    <2>2. CASE EndRomLoad \/ EndUploadOpen
      BY <2>1, <2>2 DEF EndRomLoad, EndUploadOpen, Opening
    <2>3. CASE RomTask \/ UploadEnd \/ FilTask
      BY <2>1, <2>3 DEF RomTask, UploadEnd, FilTask
    <2> QED BY <1>3, <2>2, <2>3
  <1>4. Calls => Known
    BY <1>1, <1>2 DEF Calls, StdOpenFlash, StdOpenStick, StdCloseFlash
  <1>5. Answers => Known \/ EndRomInstall
    BY <1>1, <1>2, <1>3 DEF Answers, EndMountFlash
  <1>6. Monitor => Known
    BY <1>3 DEF Monitor, RomLoadFlash, CfgFile, UploadFails, RomLoadStick, Upload
  <1>7. Run \/ UNCHANGED vars => Known
    BY DEF Run, vars
  <1> QED BY <1>3, <1>4, <1>5, <1>6, <1>7 DEF Next

LEMMA InstallLocked ==
  ASSUME Locked, TasksTyped, EndRomInstall
  PROVE  Sound(fat', fil', FatObjs, Names)
  <1>1. PICK there \in Found :
             \/ fat' = Looked(there).fat /\ fil' = [fil EXCEPT ![Rom] = Looked(there).fil]
             \/ /\ fat' = Closed(Looked(there).fat, Looked(there).fil).fat
                /\ fil' = [fil EXCEPT ![Rom] = Closed(Looked(there).fat, Looked(there).fil).fil]
    <2>1. PICK there \in Found, ok \in Outcome("open") :
             LET r == Looked(there)
                 made == r.fil # Null /\ ok
                 c == Closed(r.fat, r.fil)
             IN /\ fat' = IF made THEN c.fat ELSE r.fat
                /\ fil' = [fil EXCEPT ![Rom] = IF made THEN c.fil ELSE r.fil]
      BY DEF EndRomInstall
    <2>2. CASE Looked(there).fil # Null /\ ok
      BY <2>1, <2>2
    <2>3. CASE ~(Looked(there).fil # Null /\ ok)
      BY <2>1, <2>3
    <2> QED BY <2>2, <2>3
  <1> DEFINE r == Looked(there)
             fl == [fil EXCEPT ![Rom] = r.fil]
  <1>2. /\ waiting \in Waits /\ waiting.path.dev \in Sticks /\ waiting.obj = Rom /\ waiting # Null
        /\ waiting.lfn \in Names /\ waiting.acc \in {Reading, Writing}
    BY DEF EndRomInstall, Arrived, TasksTyped, Waits
  <1>3. ~Valid(fat, fil[Rom]) /\ Rom \in FatObjs
    BY <1>2, FatObjects DEF Locked, NotOpenYet
  <1>4. Sound(r.fat, fl, FatObjs, Names)
    <2> DEFINE dev == waiting.path.dev
               sought == waiting.lfn
               mode == waiting.acc
    <2>1. /\ NullIsNoRecord(Names) /\ IsFiniteSet(FatObjs) /\ Cardinality(FatObjs) < WriteMode
          /\ Sound(fat, fil, FatObjs, Names)
      BY FewObjects, NoRecords DEF Locked
    <2>2. dev \in Sticks /\ sought \in Names /\ mode \in {Reading, Writing}
      BY <1>2
    <2>3. r = Opened(fat, dev, sought, mode, there)
      BY DEF Looked
    <2> HIDE DEF r, dev, sought, mode, fl
    <2>4. SoundlyOpened(fat, fil, Rom, r, FatObjs, Names)
      BY <1>3, <2>1, <2>2, <2>3, OpenSoundly
    <2> QED BY <2>4 DEF SoundlyOpened, fl
  <1> HIDE DEF r
  <1>5. fl[Rom] = r.fil
    BY <1>3 DEF Locked, Sound, FatTypes
  <1>6. Sound(Closed(r.fat, r.fil).fat, [fl EXCEPT ![Rom] = Closed(r.fat, r.fil).fil], FatObjs, Names)
    <2> HIDE DEF fl
    <2>1. LET c == Closed(r.fat, fl[Rom])
          IN Sound(c.fat, [fl EXCEPT ![Rom] = c.fil], FatObjs, Names)
      BY <1>3, <1>4, ClosedSound, FewObjects, NoRecords
    <2> QED BY <1>5, <2>1
  <1>7. \A f : [fl EXCEPT ![Rom] = f] = [fil EXCEPT ![Rom] = f]
    BY <1>3 DEF Locked, Sound, FatTypes
  <1> QED BY <1>1, <1>4, <1>6, <1>7 DEF r

LEMMA StopLocked ==
  ASSUME Locked, Stop
  PROVE  Sound(fat', fil', FatObjs, Names)
  <1> DEFINE open == {Std(fd) : fd \in StdFat}
             valid == {o \in open : Valid(fat, fil[o])}
             users == [i \in Entries |-> Cardinality({o \in valid : fil[o].lockid = i})]
  <1>1. fat' = DecShare(fat, users) /\ fil' = [o \in FatObjs |-> IF o \in valid THEN Null ELSE fil[o]]
    BY DEF Stop, StdStop
  <1>2. valid \in SUBSET {o \in FatObjs : Valid(fat, fil[o])}
    BY FatObjects
  <1> HIDE DEF valid
  <1>3. Counts(users, fil, valid)
    BY DEF Counts
  <1> HIDE DEF users
  <1>4. Sound(DecShare(fat, users), [o \in FatObjs |-> IF o \in valid THEN Null ELSE fil[o]], FatObjs, Names)
    BY <1>2, <1>3, CloseSound, FewObjects, NoRecords DEF Locked
  <1> QED BY <1>1, <1>4

\* A lost drive is mounted again: its old file, if it is still open, is closed first.
LEMMA CheckLostLocked ==
  ASSUME Locked, Settled, CheckLost, Images = Names
  PROVE  Sound(fat', fil', FatObjs, Names) /\ EmptyDrives'
  <1> DEFINE lost == {d \in LostOn(check.dev) : d >= check.next}
  <1>0. check.dev \in Sticks
    BY DEF CheckLost, Settled, TasksTyped
  <1>1. CASE lost = {}
    <2>1. UNCHANGED <<lfs, fat, fil, type, mnt_status>>
      BY <1>1 DEF CheckLost
    <2> QED BY <2>1 DEF Locked, EmptyDrives, Valid
  <1>2. CASE lost # {}
    <2>1. PICK d \in lost : d = Min(lost)
      BY <1>2, NextLost DEF LostOn
    <2>2. d \in Drives /\ Mnt(d) \in FatObjs
      BY FatObjects DEF LostOn
    <2> DEFINE closed == Umounted(d).fat
               sought == mnt_paths[d].name
               dev == check.dev
    <2>3. PICK there \in Found : Loaded(d, Opened(closed, dev, sought, Writing, there))
      BY <1>2, <2>1 DEF CheckLost
    <2>4. sought \in Names /\ dev \in Sticks /\ Writing \in {Reading, Writing}
      BY <1>0, <2>2, PathsHaveNames DEF Settled, DrivesTyped
    <2> HIDE DEF lost, sought, dev
    \* What is in the object when it is opened again does not count.
    <2>5. PICK fl : /\ Sound(closed, fl, FatObjs, Names) /\ ~Valid(closed, fl[Mnt(d)])
                    /\ closed.id = fat.id /\ OnlyAt(fl, fil, Mnt(d))
      <3> DEFINE g == [fil EXCEPT ![Mnt(d)] = Umounted(d).fil]
      <3>1. g[Mnt(d)] = Umounted(d).fil /\ OnlyAt(g, fil, Mnt(d))
        BY <2>2 DEF Locked, Sound, FatTypes, OnlyAt
      <3>2. Sound(closed, g, FatObjs, Names) /\ closed.id = fat.id /\ ~Valid(closed, Umounted(d).fil)
        BY <2>2, UmountedSoundly
      <3> HIDE DEF g, closed
      <3> QED BY <3>1, <3>2
    <2> DEFINE r == Opened(closed, dev, sought, Writing, there)
    <2>6. SoundlyOpened(closed, fl, Mnt(d), r, FatObjs, Names)
      <3> HIDE DEF closed
      <3> QED BY <2>2, <2>4, <2>5, OpenSoundly, FewObjects, NoRecords
    <2> HIDE DEF r, closed
    <2>7. /\ fat' = r.fat /\ fil' = [fil EXCEPT ![Mnt(d)] = r.fil]
          /\ type' = [type EXCEPT ![d] =
                IF r.fil # Null /\ Takes(d, r.fil.name) THEN "FAT" ELSE "EMPTY"]
      BY <2>3 DEF Loaded, r
    <2>8. [fil EXCEPT ![Mnt(d)] = r.fil] = [fl EXCEPT ![Mnt(d)] = r.fil]
      <3>1. fl \in [FatObjs -> FilType(Names)] /\ fil \in [FatObjs -> FilType(Names)]
        BY <2>5 DEF Locked, Sound, FatTypes
      <3>2. \A p \in FatObjs : p # Mnt(d) => fl[p] = fil[p]
        BY <2>5 DEF OnlyAt
      <3> QED BY <3>1, <3>2
    <2>9. Sound(fat', fil', FatObjs, Names)
      BY <2>6, <2>7, <2>8 DEF SoundlyOpened
    <2>10. r.fil # Null => Takes(d, r.fil.name)
      BY <2>6 DEF SoundlyOpened, FilType, OpenFiles, Takes
    <2>11. fil'[Mnt(d)] = r.fil /\ OnlyAt(fil', fil, Mnt(d)) /\ fat'.id = fat.id
      BY <2>2, <2>5, <2>6, <2>7 DEF Locked, Sound, FatTypes, OnlyAt, SoundlyOpened
    <2>12. ASSUME NEW e \in Drives, type'[e] # "FAT" PROVE ~Valid(fat', fil'[Mnt(e)])
      <3>1. CASE e = d
        <4>1. r.fil = Null
          BY <2>2, <2>7, <2>10, <2>12, <3>1 DEF Settled, DrivesTyped
        <4> QED BY <2>11, <3>1, <4>1 DEF Valid
      <3>2. CASE e # d
        <4>1. fil'[Mnt(e)] = fil[Mnt(e)]
          BY <2>11, <3>2, FatObjects DEF OnlyAt, Mnt
        <4>2. type'[e] = type[e]
          BY <2>7, <3>2 DEF Settled, DrivesTyped
        <4> QED BY <2>11, <2>12, <4>1, <4>2 DEF Locked, EmptyDrives, Valid
      <3> QED BY <3>1, <3>2
    <2> QED BY <2>9, <2>12 DEF EmptyDrives
  <1> QED BY <1>1, <1>2

LEMMA SoundStep ==
  ASSUME Locked, Settled, Alone, Images = Names, [Next]_vars
  PROVE  Sound(fat', fil', FatObjs, Names)
  <1>1. UNCHANGED <<fat, fil>> => Sound(fat', fil', FatObjs, Names)
    BY DEF Locked
  <1>2. ASSUME NEW s \in Sticks, Plug(s) \/ Pull(s)
        PROVE  Sound(fat', fil', FatObjs, Names)
    <2>1. (fat' = Mounted(fat, s) \/ fat' = Unmounted(fat, s)) /\ fil' = fil
      BY <1>2 DEF Plug, Pull
    <2>2. Sound(fat', fil, FatObjs, Names)
      BY <2>1, StickSound, NoRecords DEF Locked
    <2> QED BY <2>1, <2>2
  <1> QED BY <1>1, <1>2, WhoUsesFat, CloseLocked, AnswerLocked, UmountLocked, InstallLocked, StopLocked, CheckLostLocked
          DEF Opening, Locked, Settled

\* Drives other than the one a step is about.
OthersStay(d) == \A e \in Drives \ {d} : type'[e] = type[e] /\ fil'[Mnt(e)] = fil[Mnt(e)]

LEMMA OtherDrives ==
  ASSUME EmptyDrives, NEW d \in Drives, fat'.id = fat.id, OthersStay(d),
         type'[d] # "FAT" => ~Valid(fat', fil'[Mnt(d)])
  PROVE  EmptyDrives'
BY DEF EmptyDrives, Valid, OthersStay

LEMMA EmptyAtUmount ==
  ASSUME Locked, Shown, NEW d \in Drives, Umounting(d)
  PROVE  EmptyDrives' /\ fat'.id = fat.id /\ ~Valid(fat', fil'[Mnt(d)])
  <1>1. fat'.id = fat.id /\ OthersStay(d)
    BY UmountShaped DEF OthersStay
  <1>2. ~Valid(fat', fil'[Mnt(d)])
    BY UmountLocked
  <1> QED BY <1>1, <1>2, OtherDrives DEF Locked

LEMMA EmptyAtMountFlash ==
  ASSUME Locked, Shown, NEW d \in Drives, EndMountFlash(d)
  PROVE  EmptyDrives'
  <1>1. fat' = fat /\ fil' = fil /\ OthersStay(d)
    BY DEF EndMountFlash, Shown, Settled, DrivesTyped, OthersStay
  <1>2. ~Valid(fat, fil[Mnt(d)])
    BY DEF EndMountFlash, Locked, NotOpenYet
  <1> QED BY <1>1, <1>2, OtherDrives DEF Locked

LEMMA EmptyAtMountStick ==
  ASSUME Locked, Shown, Images = Names, NEW d \in Drives, EndMountStick(d)
  PROVE  EmptyDrives'
  <1>1. Mnt(d) \in FatObjs /\ \A e \in Drives \ {d} : Mnt(e) \in FatObjs \ {Mnt(d)}
    BY FatObjects DEF Mnt
  <1>2. PICK there \in Found : Loaded(d, Looked(there))
    BY DEF EndMountStick
  <1>3. Arrived(Mnt(d)) /\ TasksTyped
    BY DEF EndMountStick, Shown, Settled
  <1>4. /\ fat'.id = fat.id /\ OnlyAt(fil', fil, Mnt(d))
        /\ fil'[Mnt(d)] = Looked(there).fil /\ fil'[Mnt(d)] \in FilType(Names)
    BY <1>1, <1>2, <1>3, AnswerLocked DEF Loaded
  <1>5. OthersStay(d)
    BY <1>1, <1>2, <1>4 DEF Loaded, OnlyAt, Shown, Settled, DrivesTyped, OthersStay
  <1>6. fil'[Mnt(d)] # Null => Takes(d, fil'[Mnt(d)].name)
    BY <1>4 DEF Takes, FilType, OpenFiles
  <1>7. type'[d] # "FAT" => ~Valid(fat', fil'[Mnt(d)])
    BY <1>2, <1>4, <1>6 DEF Loaded, Valid, Shown, Settled, DrivesTyped
  <1> QED BY <1>4, <1>5, <1>7, OtherDrives DEF Locked

\* What a stick took with it stays closed, and nothing comes back by itself.
LEMMA SticksOpenNothing ==
  ASSUME Locked, NEW s \in Sticks, Plug(s) \/ Pull(s)
  PROVE  fil' = fil /\ \A o \in FatObjs : Valid(fat', fil[o]) => Valid(fat, fil[o])
  <1>1. (fat' = Mounted(fat, s) \/ fat' = Unmounted(fat, s)) /\ fil' = fil
    BY DEF Plug, Pull
  <1>2. PICK gat : gat = fat'
    OBVIOUS
  <1>3. \A o \in FatObjs : Valid(gat, fil[o]) <=> Valid(fat, fil[o]) /\ fil[o].stick # s
    BY <1>1, <1>2, StickSound, NoRecords, SMTT(60) DEF Locked
  <1> QED BY <1>1, <1>2, <1>3

LEMMA EmptyStep ==
  ASSUME Locked, Shown, Images = Names, [Next]_vars
  PROVE  EmptyDrives'
  <1>1. Untouched => EmptyDrives'
    BY DEF Untouched, drives, Locked, EmptyDrives, Valid
  <1>2. ASSUME NEW s \in Sticks, Plug(s) \/ Pull(s) PROVE EmptyDrives'
    <2>1. type' = type
      BY <1>2 DEF Plug, Pull, drives
    <2>2. fil' = fil /\ \A d \in Drives : Valid(fat', fil[Mnt(d)]) => Valid(fat, fil[Mnt(d)])
      BY <1>2, SticksOpenNothing, FatObjects
    <2> QED BY <2>1, <2>2 DEF Locked, EmptyDrives
  <1>3. CheckLost => EmptyDrives'
    BY CheckLostLocked DEF Shown
  <1>4. ASSUME NEW d \in Drives, NEW path \in Path, Mount(d, path) \/ Umount(d) PROVE EmptyDrives'
    BY <1>4, EmptyAtUmount, WhoUmounts
  <1>5. \A d \in Drives : Umount(d) => EmptyDrives'
    BY EmptyAtUmount DEF Umount, Umounting
  <1> QED BY <1>1, <1>2, <1>3, <1>4, <1>5, UntouchedSteps, EmptyAtMountFlash, EmptyAtMountStick DEF Shown

LEMMA NotOpenStep ==
  ASSUME Locked, Shown, Hotplug = "quiet", Images = Names, [Next]_vars
  PROVE  NotOpenYet'
  <1>1. CASE waiting # Null
    <2>1. Answers => waiting' = Null
      BY DEF Answers, EndStdOpen, EndMountFlash, EndMountStick, EndRomLoad, EndRomInstall,
             EndUploadOpen, Arrived
    <2>2. UNCHANGED vars => NotOpenYet'
      BY DEF vars, Locked, NotOpenYet, Valid
    <2> QED BY <1>1, <2>1, <2>2, WhoGoesOn DEF Shown, NotOpenYet
  <1>2. CASE waiting = Null
    <2>1. ASSUME NEW path, NEW acc, StdOpenStick(path, acc) PROVE NotOpenYet'
      <3> DEFINE fds == {fd \in StdFat : fil[Std(fd)] = Null}
      <3>1. fds \in SUBSET StdFat /\ fds # {}
        BY <2>1 DEF StdOpenStick
      <3>2. Min(fds) \in fds
        <4>1. fds \in SUBSET Nat
          BY <3>1, FilesAssumption
        <4> HIDE DEF fds
        <4> QED BY <3>1, <4>1, MinOfNats
      <3>3. fil[Std(Min(fds))] = Null
        BY <3>2
      <3>4. waiting'.obj = Std(Min(fds)) /\ fil' = fil
        BY <2>1 DEF StdOpenStick, Wait
      <3> HIDE DEF fds
      <3> QED BY <3>3, <3>4 DEF NotOpenYet, Valid
    <2>2. ASSUME NEW d \in Drives, NEW path \in Path, Mount(d, path) PROVE NotOpenYet'
      <3>1. waiting' = waiting \/ waiting'.obj = Mnt(d)
        BY <2>2 DEF Mount, Wait
      <3>2. ~Valid(fat', fil'[Mnt(d)])
        BY <2>2, EmptyAtUmount, WhoUmounts
      <3> QED BY <1>2, <3>1, <3>2 DEF NotOpenYet
    <2>3. ASSUME NEW path, RomLoadStick(path) \/ Upload(path) PROVE NotOpenYet'
      <3>1. \/ waiting'.obj = Rom /\ ~Valid(fat, fil[Rom])
            \/ waiting'.obj = Up /\ ~Valid(fat, fil[Up])
        BY <2>3 DEF RomLoadStick, Upload, LoaderFree, Wait
      <3>2. fat' = fat /\ fil' = fil
        BY <2>3 DEF RomLoadStick, Upload
      <3> QED BY <3>1, <3>2 DEF NotOpenYet
    <2>4. ASSUME waiting' = Null PROVE NotOpenYet'
      BY <2>4 DEF NotOpenYet
    <2>5. Calls => NotOpenYet'
      BY <1>2, <2>1, <2>2, <2>4 DEF Calls, StdOpenFlash, StdCloseFlash, StdCloseStick, Umount
    <2>6. Monitor => NotOpenYet'
      BY <1>2, <2>3, <2>4 DEF Monitor, RomLoadFlash, CfgFile, UploadEnd, UploadFails
    <2>7. ~Answers
      BY <1>2 DEF Answers, EndStdOpen, EndMountFlash, EndMountStick, EndRomLoad, EndRomInstall,
                  EndUploadOpen, Arrived
    <2>8. CheckLost => waiting' = Null
      BY <1>2 DEF CheckLost
    <2>9. (\E s \in Sticks : Plug(s) \/ Pull(s)) \/ RomTask \/ FilTask \/ Stop \/ Run \/ UNCHANGED vars
            => waiting' = Null
      BY <1>2 DEF Plug, Pull, RomTask, FilTask, Stop, Run, vars
    <2> QED BY <2>4, <2>5, <2>6, <2>7, <2>8, <2>9 DEF Next
  <1> QED BY <1>1, <1>2

LEMMA LockedStep ==
  ASSUME Locked, Shown, Hotplug = "quiet", Images = Names, [Next]_vars
  PROVE  Locked' /\ Shown'
BY SoundStep, EmptyStep, NotOpenStep, ShapedStep DEF Locked, Shown, Sound

LEMMA LockedAtFirst == Init => Locked /\ Shown
  <1> SUFFICES ASSUME Init PROVE Locked /\ Shown
    OBVIOUS
  <1>1. Shown
    BY ShownAtFirst
  <1>2. fat = FatInit /\ fil = [o \in FatObjs |-> Null] /\ waiting = Null
    BY DEF Init
  <1>3. Sound(fat, fil, FatObjs, Names)
    BY <1>2, SoundAtFirst, NoRecords
  <1>4. EmptyDrives /\ NotOpenYet
    BY <1>2, FatObjects DEF EmptyDrives, NotOpenYet, Valid
  <1> QED BY <1>1, <1>3, <1>4 DEF Locked

(***************************************************************************)
(* Drives that take every file, and sticks that come and go while nothing  *)
(* waits: FatFs's locks belong to files that can still be closed, each to  *)
(* as many as its counter says (ff.c:966-1046, mnt.c:130-143).             *)
(***************************************************************************)
THEOREM LocksKept ==
  ASSUME Hotplug = "quiet", Images = Names
  PROVE  Spec => []LocksOwned
  <1>1. Init => Locked /\ Shown
    BY LockedAtFirst
  <1>2. Locked /\ Shown /\ [Next]_vars => Locked' /\ Shown'
    BY LockedStep
  <1>3. Locked => LocksOwned
    <2> SUFFICES ASSUME Locked, NEW i \in Entries \ Blank(fat)
                 PROVE  LET owners == {o \in FatObjs : Valid(fat, fil[o]) /\ fil[o].lockid = i}
                            e == fat.Files[i]
                        IN /\ Cardinality(owners) = IF e.ctr = WriteMode THEN 1 ELSE e.ctr
                           /\ \A o \in owners : fil[o].stick = e.stick /\ fil[o].name = e.name
      BY DEF LocksOwned
    <2>1. OwnersOf(fat, fil, FatObjs, i) = {o \in FatObjs : Valid(fat, fil[o]) /\ fil[o].lockid = i}
      BY DEF OwnersOf
    <2>2. CountsUsers(fat, fil, FatObjs) /\ Named(fat, fil, FatObjs)
      BY DEF Locked, Sound
    <2> QED BY <2>1, <2>2 DEF CountsUsers, Named
  <1> QED BY <1>1, <1>2, <1>3, PTL DEF Spec

(***************************************************************************)
(* Under the same conditions every variable keeps its type; in particular  *)
(* FatFs's counters stay within bounds and std.c and rom.c have open what  *)
(* LittleFS can have open (ff.c:941-1033, std.c:18-21, rom.c:29).          *)
(***************************************************************************)
THEOREM TypeCorrect ==
  ASSUME Hotplug = "quiet", Images = Names
  PROVE  Spec => []TypeOK
  <1>1. Init => Locked /\ Shown
    BY LockedAtFirst
  <1>2. Locked /\ Shown /\ [Next]_vars => Locked' /\ Shown'
    BY LockedStep
  <1>3. Locked /\ Shown => TypeOK
    BY DEF Locked, Shown, Settled, Sound, FatTypes, FatTyped, TypeOK
  <1> QED BY <1>1, <1>2, <1>3, PTL DEF Spec

(***************************************************************************)
(* Leaks.  Where drives take every file and programs close what they have  *)
(* open on the flash, LittleFS has in its list only files that are held,   *)
(* so a slot gets lost in no way but an open that fails.                   *)
(***************************************************************************)

\* What a step does to the slots.
Keeps == lfs' = lfs /\ fails' = fails /\ Holding \subseteq Holding'
Opens(f) ==
  f \in LfsObjs \ Holding /\ lfs' = LfsOpened(lfs, f, TRUE) /\ fails' = fails /\ Holding' = Holding \cup {f}
Fails(f) ==
  f \in LfsObjs \ Holding /\ lfs' = LfsOpened(lfs, f, FALSE) /\ fails' = fails + 1 /\ Holding \subseteq Holding'
Closes(f) ==
  f \in Holding /\ lfs' = LfsClosed(lfs, {f}) /\ fails' = fails /\ Holding' = Holding \ {f}
Copies ==
  /\ Rom \in LfsObjs \ Holding /\ lfs' = LfsClosed(LfsOpened(lfs, Rom, TRUE), {Rom})
  /\ fails' = fails /\ Holding' = Holding
SlotMove == Keeps \/ Copies \/ \E f \in LfsObjs : Opens(f) \/ Fails(f) \/ Closes(f)

LEMMA MovesOfStd ==
  ASSUME Slots, Tidy, StdOpenFlash \/ (\E fd \in StdLfs : StdCloseFlash(fd)) \/ Stop
  PROVE  SlotMove
  <1>1. ASSUME StdOpenFlash PROVE SlotMove
    <2> DEFINE fd == Min(StdLfs \ lfs_isopen)
    <2>1. fd \in StdLfs /\ fd \notin lfs_isopen
      BY <1>1, Constants, MinOfNats DEF StdOpenFlash
    <2> HIDE DEF fd
    <2>2. PICK ok \in Outcome("open") :
               /\ lfs' = LfsOpened(lfs, Std(fd), ok)
               /\ lfs_isopen' = IF ok THEN lfs_isopen \cup {fd} ELSE lfs_isopen
               /\ fails' = IF ok THEN fails ELSE fails + 1
      BY <1>1 DEF StdOpenFlash, Failing, fd
    <2>3. type' = type /\ lfs_file_open' = lfs_file_open
      BY <1>1 DEF StdOpenFlash, drives, loader
    <2>4. ok \in BOOLEAN
      BY Counted DEF Slots, FlashTyped
    <2>5. Std(fd) \notin Holding /\ Std(fd) \in LfsObjs
      BY <2>1 DEF Slots, FlashTyped, Holding, LfsObjs, Held, Std, Mnt, Rom
    <2>6. CASE ok = TRUE
      <3>1. Holding' = Holding \cup {Std(fd)}
        BY <2>2, <2>3, <2>6 DEF Holding
      <3> QED BY <2>2, <2>5, <2>6, <3>1 DEF SlotMove, Opens
    <2>7. CASE ok = FALSE
      <3>1. Holding' = Holding
        BY <2>2, <2>3, <2>7 DEF Holding
      <3> QED BY <2>2, <2>5, <2>7, <3>1 DEF SlotMove, Fails
    <2> QED BY <2>4, <2>6, <2>7
  <1>2. ASSUME NEW fd \in StdLfs, StdCloseFlash(fd) PROVE SlotMove
    <2>1. /\ fd \in lfs_isopen /\ lfs' = LfsClosed(lfs, {Std(fd)}) /\ lfs_isopen' = lfs_isopen \ {fd}
          /\ type' = type /\ lfs_file_open' = lfs_file_open /\ fails' = fails
      BY <1>2 DEF StdCloseFlash, drives, loader
    <2>2. Std(fd) \in LfsObjs /\ Std(fd) \in Holding
      BY <2>1 DEF Holding, LfsObjs
    <2>3. Holding' = Holding \ {Std(fd)}
      <3>1. \A e : Std(e) = Std(fd) => e = fd
        BY DEF Std
      <3>2. {Std(e) : e \in lfs_isopen'} = {Std(e) : e \in lfs_isopen} \ {Std(fd)}
        BY <2>1, <3>1
      <3>3. Rom # Std(fd) /\ \A d : Mnt(d) # Std(fd)
        BY DEF Rom, Mnt, Std
      <3> QED BY <2>1, <3>2, <3>3 DEF Holding
    <2> QED BY <2>1, <2>2, <2>3 DEF SlotMove, Closes
  <1>3. ASSUME Stop PROVE SlotMove
    <2>1. /\ lfs_isopen = {} /\ lfs' = LfsClosed(lfs, {Std(fd) : fd \in lfs_isopen})
          /\ UNCHANGED <<lfs_isopen, fails, type, lfs_file_open>>
      BY <1>3 DEF Stop, StdStop, drives, loader
    <2>2. lfs' = [lfs EXCEPT !.busy = @ \ {}, !.list = @ \ {}]
      BY <2>1, ZenonT(60) DEF LfsClosed
    <2>3. lfs' = lfs
      BY <2>2 DEF Slots, FlashTyped, LfsType
    <2>4. Holding' = Holding
      BY <2>1, HoldingChanges
    <2> QED BY <2>1, <2>3, <2>4 DEF SlotMove, Keeps
  <1> QED BY <1>1, <1>2, <1>3

\* The old file of a drive is taken out.
LEMMA MovesOfUmount ==
  ASSUME Slots, NEW d \in Drives, NEW k \in {"EMPTY", "FAT"}, type' = [type EXCEPT ![d] = k],
         lfs' = IF type[d] = "LFS" THEN LfsClosed(lfs, {Mnt(d)}) ELSE lfs,
         UNCHANGED <<lfs_isopen, fails, lfs_file_open>>
  PROVE  SlotMove
  <1>1. Holding' = Holding \ {Mnt(d)}
    BY HoldingChanges
  <1>2. CASE type[d] = "LFS"
    <2>1. Mnt(d) \in Holding /\ Mnt(d) \in LfsObjs
      BY <1>2, Objects DEF Holding
    <2> QED BY <1>1, <1>2, <2>1 DEF SlotMove, Closes
  <1>3. CASE type[d] # "LFS"
    <2>1. Holding' = Holding
      BY <1>1, <1>3, HoldingChanges
    <2> QED BY <1>3, <2>1 DEF SlotMove, Keeps
  <1> QED BY <1>2, <1>3

LEMMA MovesOfMounts ==
  ASSUME Slots, NEW d \in Drives, Umount(d) \/ EndMountStick(d) \/ \E path \in Path : Mount(d, path)
  PROVE  SlotMove
  <1>1. ASSUME Umount(d) \/ \E path \in Path : Mount(d, path) PROVE SlotMove
    BY <1>1, MovesOfUmount DEF Mount, Umount, UmountDrive, loader
  <1>2. ASSUME EndMountStick(d) PROVE SlotMove
    <2>1. /\ \E k \in {"FAT", "EMPTY"} : type' = [type EXCEPT ![d] = k]
          /\ type[d] # "LFS" /\ UNCHANGED <<lfs, lfs_isopen, fails, lfs_file_open>>
      BY <1>2 DEF EndMountStick, Loaded, Arrived, flash, loader, Slots, NotYet
    <2> QED BY <2>1, MovesOfUmount
  <1> QED BY <1>1, <1>2

LEMMA MovesOfCheckLost ==
  ASSUME Slots, CheckLost
  PROVE  SlotMove
  <1> DEFINE lost == {d \in LostOn(check.dev) : d >= check.next}
  <1>1. UNCHANGED <<lfs_isopen, fails, lfs_file_open>>
    BY DEF CheckLost, loader
  <1>2. CASE lost = {}
    <2>1. UNCHANGED <<lfs, type>>
      BY <1>2 DEF CheckLost
    <2>2. Holding' = Holding
      BY <1>1, <2>1, HoldingChanges
    <2> QED BY <1>1, <2>1, <2>2 DEF SlotMove, Keeps
  <1>3. CASE lost # {}
    <2>1. PICK d \in lost : d = Min(lost)
      BY <1>3, NextLost DEF LostOn
    <2>2. d \in Drives
      BY DEF LostOn
    <2>3. /\ \E k \in {"FAT", "EMPTY"} : type' = [type EXCEPT ![d] = k]
          /\ lfs' = IF type[d] = "LFS" THEN LfsClosed(lfs, {Mnt(d)}) ELSE lfs
      BY <1>3, <2>1 DEF CheckLost, Loaded
    <2> QED BY <1>1, <2>2, <2>3, MovesOfUmount
  <1> QED BY <1>2, <1>3

\* A drive that takes every file has what was opened for it.
LEMMA MovesOfMountFlash ==
  ASSUME Slots, TasksTyped, Images = Names, NEW d \in Drives, EndMountFlash(d)
  PROVE  SlotMove
  <1>1. PICK ok \in Outcome("flash") :
             \E unnoticed \in Unnoticed(d) :
             LET taken == IF ok THEN Takes(d, waiting.path.name) ELSE unnoticed
             IN /\ lfs' = LfsOpened(lfs, Mnt(d), ok)
                /\ type' = [type EXCEPT ![d] = IF taken THEN "LFS" ELSE "EMPTY"]
                /\ fails' = IF ok THEN fails ELSE fails + 1
    BY DEF EndMountFlash, Failing
  <1>2. type[d] # "LFS" /\ UNCHANGED <<lfs_isopen, lfs_file_open>>
    BY DEF Slots, NotYet, EndMountFlash, loader
  <1>3. ok \in BOOLEAN
    BY Counted DEF Slots, FlashTyped
  <1>4. Mnt(d) \notin Holding /\ Mnt(d) \in LfsObjs
    BY <1>2, HoldingChanges, Objects
  <1>5. CASE ok = TRUE
    <2>1. Takes(d, waiting.path.name)
      <3>1. waiting.path \in Path
        BY DEF EndMountFlash, TasksTyped, Waits
      <3>2. waiting.path.name \in Names
        BY <3>1, PathsHaveNames
      <3> QED BY <3>2 DEF Takes
    <2>2. type' = [type EXCEPT ![d] = "LFS"]
      BY <1>1, <1>5, <2>1
    <2>3. Holding' = Holding \cup {Mnt(d)}
      BY <1>2, <2>2, HoldingChanges
    <2> QED BY <1>1, <1>4, <1>5, <2>3 DEF SlotMove, Opens
  <1>6. CASE ok = FALSE
    <2>1. \E k \in {"LFS", "EMPTY"} : type' = [type EXCEPT ![d] = k]
      BY <1>1
    <2>2. Holding \subseteq Holding'
      BY <1>2, <1>4, <2>1, HoldingChanges
    <2> QED BY <1>1, <1>4, <1>6, <2>2 DEF SlotMove, Fails
  <1> QED BY <1>3, <1>5, <1>6

LEMMA MovesOfLoader ==
  ASSUME Slots, RomLoadFlash \/ CfgFile \/ RomTask
  PROVE  SlotMove
  <1>1. ASSUME RomLoadFlash PROVE SlotMove
    <2>1. PICK ok \in Outcome("open") :
               /\ lfs' = LfsOpened(lfs, Rom, ok) /\ lfs_file_open' = ok
               /\ fails' = IF ok THEN fails ELSE fails + 1
      BY <1>1 DEF RomLoadFlash, Failing
    <2>2. type' = type /\ lfs_isopen' = lfs_isopen /\ ~lfs_file_open
      BY <1>1 DEF RomLoadFlash, LoaderFree, drives
    <2>3. ok \in BOOLEAN
      BY Counted DEF Slots, FlashTyped
    <2>4. lfs_file_open = FALSE
      BY <2>2 DEF Slots, FlashTyped
    <2>5. Rom \notin Holding /\ Rom \in LfsObjs
      BY <2>2, <2>4, HoldingChanges, Objects
    <2>6. CASE ok = TRUE
      BY <2>1, <2>2, <2>5, <2>6, HoldingChanges DEF SlotMove, Opens
    <2>7. CASE ok = FALSE
      <3>1. Holding \subseteq Holding'
        BY <2>1, <2>2, <2>5, <2>7, HoldingChanges
      <3> QED BY <2>1, <2>5, <2>7, <3>1 DEF SlotMove, Fails
    <2> QED BY <2>3, <2>6, <2>7
  <1>2. ASSUME CfgFile PROVE SlotMove
    <2>1. PICK ok \in Outcome("open") :
               /\ lfs' = IF ok THEN lfs ELSE LfsOpened(lfs, Cfg, FALSE)
               /\ fails' = IF ok THEN fails ELSE fails + 1
      BY <1>2 DEF CfgFile, Failing
    <2>2. UNCHANGED <<type, lfs_isopen, lfs_file_open>>
      BY <1>2 DEF CfgFile, drives, loader
    <2>3. ok \in BOOLEAN
      BY Counted DEF Slots, FlashTyped
    <2>4. Cfg \notin Holding /\ Cfg \in LfsObjs /\ Holding' = Holding
      BY <2>2, HoldingChanges, Objects
    <2>5. CASE ok = TRUE
      BY <2>1, <2>4, <2>5 DEF SlotMove, Keeps
    <2>6. CASE ok = FALSE
      BY <2>1, <2>4, <2>6 DEF SlotMove, Fails
    <2> QED BY <2>3, <2>5, <2>6
  <1>3. ASSUME RomTask PROVE SlotMove
    <2>1. /\ UNCHANGED <<type, lfs_isopen, fails>> /\ lfs_file_open' = FALSE
          /\ lfs' = IF lfs_file_open THEN LfsClosed(lfs, {Rom}) ELSE lfs
      BY <1>3 DEF RomTask, drives
    <2>2. Holding' = Holding \ {Rom}
      BY <2>1, HoldingChanges
    <2>3. CASE lfs_file_open
      <3>1. Rom \in Holding /\ Rom \in LfsObjs
        BY <2>3, Objects DEF Holding
      <3> QED BY <2>1, <2>2, <2>3, <3>1 DEF SlotMove, Closes
    <2>4. CASE ~lfs_file_open
      <3>1. lfs_file_open = FALSE
        BY <2>4 DEF Slots, FlashTyped
      <3>2. Holding' = Holding
        BY <2>1, <2>2, <3>1, HoldingChanges
      <3> QED BY <2>1, <2>4, <3>2 DEF SlotMove, Keeps
    <2> QED BY <2>3, <2>4
  <1> QED BY <1>1, <1>2, <1>3

LEMMA MovesOfInstall ==
  ASSUME Slots, EndRomInstall
  PROVE  SlotMove
  <1>1. PICK ok \in Outcome("open") :
             \/ lfs' = lfs /\ fails' = fails
             \/ lfs' = LfsClosed(LfsOpened(lfs, Rom, TRUE), {Rom}) /\ fails' = fails
             \/ lfs' = LfsOpened(lfs, Rom, FALSE) /\ fails' = fails + 1
    <2>1. PICK there \in Found, ok \in Outcome("open") :
               /\ lfs' = IF Looked(there).fil = Null THEN lfs
                         ELSE IF ok THEN LfsClosed(LfsOpened(lfs, Rom, ok), {Rom})
                         ELSE LfsOpened(lfs, Rom, ok)
               /\ fails' = IF Looked(there).fil # Null /\ ~ok THEN fails + 1 ELSE fails
      BY DEF EndRomInstall
    <2>2. ok \in BOOLEAN
      BY Counted DEF Slots, FlashTyped
    <2>3. CASE ok = TRUE
      BY <2>1, <2>3
    <2>4. CASE ok = FALSE
      BY <2>1, <2>4
    <2> QED BY <2>2, <2>3, <2>4
  <1>2. UNCHANGED <<type, lfs_isopen, lfs_file_open>> /\ lfs_file_open = FALSE
    BY DEF EndRomInstall, Arrived, drives, loader, Slots, NotYet
  <1>3. Rom \notin Holding /\ Rom \in LfsObjs /\ Holding' = Holding
    BY <1>2, HoldingChanges, Objects
  <1> QED BY <1>1, <1>3 DEF SlotMove, Keeps, Copies, Fails

LEMMA SlotMoves ==
  ASSUME Slots, TasksTyped, Tidy, Images = Names, [Next]_vars
  PROVE  SlotMove
  <1>1. ASSUME Elsewhere \/ \E path \in Path : RomLoadStick(path) PROVE SlotMove
    <2>1. UNCHANGED <<lfs, lfs_isopen, fails, type, lfs_file_open>>
      BY <1>1 DEF Elsewhere, RomLoadStick, flash, drives, loader
    <2>2. Holding' = Holding
      BY <2>1, HoldingChanges
    <2> QED BY <2>1, <2>2 DEF SlotMove, Keeps
  <1> QED BY <1>1, WhoUsesTheFlash, MovesOfStd, MovesOfMounts, MovesOfCheckLost, MovesOfMountFlash,
             MovesOfLoader, MovesOfInstall

(***************************************************************************)
(* `l' has lost no more than n slots.                                      *)
(***************************************************************************)
ListOf(l) == {f \in l.list : l.cfg[f] # Null}
LostAtMost(l, n) == Cardinality(l.busy) <= Cardinality(ListOf(l)) + n

LEMMA BusyIsFinite ==
  ASSUME NEW l \in LfsType, IsFiniteSet(l.list)
  PROVE  /\ IsFiniteSet(l.busy) /\ Cardinality(l.busy) \in Nat
         /\ IsFiniteSet(ListOf(l)) /\ Cardinality(ListOf(l)) \in Nat
  <1>1. l.busy \in SUBSET Configs /\ IsFiniteSet(Configs)
    BY FilesAssumption DEF LfsType
  <1>2. IsFiniteSet(l.busy)
    BY <1>1, FS_Subset
  <1>3. ListOf(l) \in SUBSET l.list
    BY DEF ListOf
  <1>4. IsFiniteSet(ListOf(l))
    BY <1>3, FS_Subset
  <1> QED BY <1>2, <1>4, FS_CardinalityType

LEMMA OpenLoses ==
  ASSUME NEW l \in LfsType, NEW hs, NEW f \in LfsObjs \ hs, l.list \subseteq hs, IsFiniteSet(l.list),
         NEW n \in Nat, LostAtMost(l, n), NEW ok \in BOOLEAN
  PROVE  LET m == LfsOpened(l, f, ok)
         IN /\ m \in LfsType /\ IsFiniteSet(m.list)
            /\ ok => m.list = l.list \cup {f} /\ LostAtMost(m, n)
            /\ ~ok => m.list = l.list /\ LostAtMost(m, n + 1)
  <1> DEFINE m == LfsOpened(l, f, ok)
  <1>1. PICK c \in Configs \cup {Null} :
           /\ c # Null => c \notin l.busy
           /\ m.busy = l.busy \cup ({c} \ {Null})
           /\ m.cfg = [l.cfg EXCEPT ![f] = c]
           /\ m \in LfsType
    BY SlotOf
  <1>2. m.list = IF ok THEN l.list \cup {f} ELSE l.list
    BY DEF LfsOpened
  <1> HIDE DEF m
  <1>3. IsFiniteSet(m.list)
    BY <1>2, FS_AddElement
  <1>4. l.cfg \in [LfsObjs -> Configs \cup {Null}] /\ l.list \subseteq LfsObjs /\ f \notin l.list
    BY DEF LfsType
  <1>5. \A g \in l.list : m.cfg[g] = l.cfg[g]
    BY <1>1, <1>4
  <1>6. m.cfg[f] = c
    BY <1>1, <1>4
  <1>7. /\ IsFiniteSet(l.busy) /\ Cardinality(l.busy) \in Nat
        /\ IsFiniteSet(ListOf(l)) /\ Cardinality(ListOf(l)) \in Nat
    BY BusyIsFinite
  <1>8. CASE c = Null
    <2>1. m.busy = l.busy
      BY <1>1, <1>8
    <2>2. ListOf(m) = ListOf(l)
      BY <1>2, <1>5, <1>6, <1>8 DEF ListOf
    <2>3. LostAtMost(m, n) /\ LostAtMost(m, n + 1)
      BY <1>7, <2>1, <2>2 DEF LostAtMost
    <2> QED BY <1>1, <1>2, <1>3, <2>3, Zenon DEF m
  <1>9. CASE c # Null
    <2>1. Cardinality(m.busy) = Cardinality(l.busy) + 1
      <3>1. m.busy = l.busy \cup {c} /\ c \notin l.busy
        BY <1>1, <1>9
      <3> QED BY <1>7, <3>1, FS_AddElement
    <2>2. CASE ok
      <3>1. ListOf(m) = ListOf(l) \cup {f} /\ f \notin ListOf(l)
        BY <1>2, <1>4, <1>5, <1>6, <1>9, <2>2 DEF ListOf
      <3>2. Cardinality(ListOf(m)) = Cardinality(ListOf(l)) + 1
        BY <1>7, <3>1, FS_AddElement
      <3>3. LostAtMost(m, n)
        BY <1>7, <2>1, <3>2 DEF LostAtMost
      <3> QED BY <1>1, <1>2, <1>3, <2>2, <3>3, Zenon DEF m
    <2>3. CASE ~ok
      <3>1. ListOf(m) = ListOf(l)
        BY <1>2, <1>5, <2>3 DEF ListOf
      <3>2. LostAtMost(m, n + 1)
        BY <1>7, <2>1, <3>1 DEF LostAtMost
      <3> QED BY <1>1, <1>2, <1>3, <2>3, <3>2, Zenon DEF m
    <2> QED BY <2>2, <2>3
  <1> QED BY <1>8, <1>9

LEMMA CloseLosesNone ==
  ASSUME NEW l \in LfsType, NEW hs, NEW f \in hs, l.list \subseteq hs, IsFiniteSet(l.list),
         Owned(l, hs), NEW n \in Nat, LostAtMost(l, n)
  PROVE  LET m == LfsClosed(l, {f})
         IN m.list = l.list \ {f} /\ IsFiniteSet(m.list) /\ LostAtMost(m, n)
  <1> DEFINE m == LfsClosed(l, {f})
  <1>1. m.busy = l.busy \ {l.cfg[f]} /\ m.list = l.list \ {f} /\ m.cfg = l.cfg
    BY DEF LfsClosed, LfsType
  <1> HIDE DEF m
  <1>2. IsFiniteSet(m.list)
    BY <1>1, FS_RemoveElement, SMTT(60)
  <1>3. /\ IsFiniteSet(l.busy) /\ Cardinality(l.busy) \in Nat
        /\ IsFiniteSet(ListOf(l)) /\ Cardinality(ListOf(l)) \in Nat
    BY BusyIsFinite
  <1>4. ListOf(m) = ListOf(l) \ {f}
    BY <1>1 DEF ListOf
  <1>5. Cardinality(m.busy) = IF l.cfg[f] \in l.busy THEN Cardinality(l.busy) - 1 ELSE Cardinality(l.busy)
    <2>1. PICK c : c = l.cfg[f]
      OBVIOUS
    <2>2. Cardinality(l.busy \ {c}) = IF c \in l.busy THEN Cardinality(l.busy) - 1 ELSE Cardinality(l.busy)
      BY <1>3, FS_RemoveElement, Zenon
    <2> QED BY <1>1, <2>1, <2>2
  <1>6. Cardinality(ListOf(m)) = IF f \in ListOf(l) THEN Cardinality(ListOf(l)) - 1 ELSE Cardinality(ListOf(l))
    BY <1>3, <1>4, FS_RemoveElement
  <1>7. f \in ListOf(l) => l.cfg[f] \in l.busy
    BY DEF ListOf, Owned
  <1>8. LostAtMost(m, n)
    BY <1>3, <1>5, <1>6, <1>7 DEF LostAtMost
  <1> QED BY <1>1, <1>2, <1>8 DEF m

Leaking == lfs.list \subseteq Holding /\ IsFiniteSet(lfs.list) /\ LostAtMost(lfs, fails)

LEMMA LeakStep ==
  ASSUME Slots, TasksTyped, Tidy, Images = Names, Leaking, [Next]_vars
  PROVE  Leaking'
  <1>1. SlotMove
    BY SlotMoves
  <1>2. lfs \in LfsType /\ Owned(lfs, Holding) /\ fails \in Nat
    BY Constants DEF Slots, FlashTyped
  <1>3. lfs.list \subseteq Holding /\ IsFiniteSet(lfs.list) /\ LostAtMost(lfs, fails)
    BY DEF Leaking
  <1>4. Leaking' <=> lfs'.list \subseteq Holding' /\ IsFiniteSet(lfs'.list) /\ LostAtMost(lfs', fails')
    BY DEF Leaking, LostAtMost, ListOf
  <1>5. Keeps => Leaking'
    BY <1>3, <1>4 DEF Keeps
  <1>6. ASSUME NEW f \in LfsObjs, Opens(f) PROVE Leaking'
    <2>1. /\ f \in LfsObjs \ Holding /\ lfs' = LfsOpened(lfs, f, TRUE) /\ fails' = fails
          /\ Holding' = Holding \cup {f} /\ TRUE \in BOOLEAN
      BY <1>6 DEF Opens
    <2>2. lfs'.list = lfs.list \cup {f} /\ IsFiniteSet(lfs'.list) /\ LostAtMost(lfs', fails)
      BY <1>2, <1>3, <2>1, OpenLoses, ZenonT(60)
    <2> QED BY <1>3, <1>4, <2>1, <2>2
  <1>7. ASSUME NEW f \in LfsObjs, Fails(f) PROVE Leaking'
    <2>1. /\ f \in LfsObjs \ Holding /\ lfs' = LfsOpened(lfs, f, FALSE) /\ fails' = fails + 1
          /\ Holding \subseteq Holding' /\ FALSE \in BOOLEAN
      BY <1>7 DEF Fails
    <2>2. lfs'.list = lfs.list /\ IsFiniteSet(lfs'.list) /\ LostAtMost(lfs', fails + 1)
      BY <1>2, <1>3, <2>1, OpenLoses
    <2> QED BY <1>3, <1>4, <2>1, <2>2
  <1>8. ASSUME NEW f \in LfsObjs, Closes(f) PROVE Leaking'
    <2>1. f \in Holding /\ lfs' = LfsClosed(lfs, {f}) /\ fails' = fails /\ Holding' = Holding \ {f}
      BY <1>8 DEF Closes
    <2>2. lfs'.list = lfs.list \ {f} /\ IsFiniteSet(lfs'.list) /\ LostAtMost(lfs', fails)
      BY <1>2, <1>3, <2>1, CloseLosesNone
    <2> QED BY <1>3, <1>4, <2>1, <2>2
  <1>9. ASSUME Copies PROVE Leaking'
    <2> DEFINE l == LfsOpened(lfs, Rom, TRUE)
               hs == Holding \cup {Rom}
    <2>1. /\ Rom \in LfsObjs \ Holding /\ lfs' = LfsClosed(l, {Rom}) /\ fails' = fails
          /\ Holding' = Holding /\ TRUE \in BOOLEAN
      BY <1>9 DEF Copies
    <2>2. l \in LfsType /\ l.list = lfs.list \cup {Rom} /\ IsFiniteSet(l.list) /\ LostAtMost(l, fails)
      BY <1>2, <1>3, <2>1, OpenLoses, ZenonT(60)
    <2>3. Holding \in SUBSET LfsObjs
      BY DEF Slots, FlashTyped, Holding, LfsObjs, Held
    <2>4. Owned(l, hs)
      BY <1>2, <2>1, <2>3, OpenHeld
    <2> HIDE DEF l
    <2>5. Rom \in hs /\ l.list \subseteq hs
      BY <1>3, <2>2
    <2> HIDE DEF hs
    <2>6. lfs'.list = l.list \ {Rom} /\ IsFiniteSet(lfs'.list) /\ LostAtMost(lfs', fails)
      BY <1>2, <2>1, <2>2, <2>4, <2>5, CloseLosesNone
    <2> QED BY <1>3, <1>4, <2>1, <2>2, <2>6
  <1> QED BY <1>1, <1>5, <1>6, <1>7, <1>8, <1>9 DEF SlotMove

(***************************************************************************)
(* Programs that close their files, and drives that take every file: slots *)
(* are lost by opens that fail and in no other way (std.c:102-104,         *)
(* rom.c:71-77, rom.c:270-280, cfg.c:119-124).                             *)
(***************************************************************************)
THEOREM LeaksBounded ==
  ASSUME Tidy, Images = Names
  PROVE  Spec => []LeaksAreFailures
  <1>1. Init => Settled /\ Slots /\ Leaking
    <2> SUFFICES ASSUME Init PROVE Settled /\ Slots /\ Leaking
      OBVIOUS
    <2>1. lfs.list = {} /\ lfs.busy = {} /\ fails = 0
      BY DEF Init
    <2>2. ListOf(lfs) = {}
      BY <2>1 DEF ListOf
    <2>3. IsFiniteSet({}) /\ Cardinality({}) = 0
      BY FS_EmptySet
    <2>4. Leaking
      BY <2>1, <2>2, <2>3 DEF Leaking, LostAtMost
    <2> QED BY <2>4, SettledAtFirst, SlotsAtFirst
  <1>2. Settled /\ Slots /\ Leaking /\ [Next]_vars => Settled' /\ Slots' /\ Leaking'
    BY SettledStep, SlotsStep, LeakStep DEF Settled
  <1>3. Leaking => LeaksAreFailures
    BY DEF Leaking, LeaksAreFailures, LostAtMost, ListOf
  <1> QED BY <1>1, <1>2, <1>3, PTL DEF Spec
=============================================================================
