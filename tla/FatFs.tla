------------------------------- MODULE FatFs -------------------------------
(***************************************************************************)
(* What the firmware depends on of FatFs (src/fatfs/ff.c): which volumes   *)
(* are mounted, which file objects still belong to a mounted volume, and   *)
(* the table of FF_FS_LOCK locks that every open file needs an entry of.   *)
(*                                                                         *)
(* A volume is a USB stick; `id' is the number that mount_volume() gives   *)
(* each mount, and 0 while the volume is not mounted (fs_type 0).  A file  *)
(* object is Null when its obj.fs is 0.  What is in files is left out.     *)
(***************************************************************************)
EXTENDS Integers, FiniteSets, FiniteSetsExt

CONSTANTS
  Sticks,    (* numbers of the USB volumes, from 1                         *)
  LockMax,   (* FF_FS_LOCK                                                 *)
  Null       (* no file object, no lock entry, no configuration            *)

ASSUME FatFsAssumption == Sticks \subseteq Nat \ {0} /\ LockMax \in Nat \ {0}

Reading == 0
Writing == 1
WriteMode == 256     (* ctr of a file that is open for writing (0x100)     *)

Entries == 1 .. LockMax

FatInit == [id |-> [s \in Sticks |-> 0], Fsid |-> 0, Files |-> [i \in Entries |-> Null]]

(* An object of an earlier mount of the same stick has another id.         *)
Valid(fat, f) == f # Null /\ fat.id[f.stick] # 0 /\ f.id = fat.id[f.stick]

Blank(fat) == {i \in Entries : fat.Files[i] = Null}
EntriesOf(fat, s) == {i \in Entries \ Blank(fat) : fat.Files[i].stick = s}
EntryOf(fat, s, name) == {i \in EntriesOf(fat, s) : fat.Files[i].name = name}

(* Any number of readers, or one writer.                                   *)
MayShare(fat, s, name, acc) ==
  IF EntryOf(fat, s, name) = {} THEN Blank(fat) # {}
  ELSE acc = Reading /\ \A i \in EntryOf(fat, s, name) : fat.Files[i].ctr # WriteMode

(* The entry of one more user of the file.                                 *)
IncShare(fat, s, name, acc) ==
  LET known == EntryOf(fat, s, name)
      i == IF known = {} THEN Min(Blank(fat)) ELSE Min(known)
      ctr == CASE acc = Writing -> WriteMode
               [] acc = Reading -> IF known = {} THEN 1 ELSE fat.Files[i].ctr + 1
  IN <<i, [stick |-> s, name |-> name, ctr |-> ctr]>>

(* n[i] users of entry i have closed their files.                          *)
CountDown(fat, n) ==
  [fat EXCEPT !.Files = [i \in Entries |->
     LET e == fat.Files[i]
     IN IF n[i] = 0 \/ e = Null THEN e ELSE [e EXCEPT !.ctr = @ - n[i]]]]

DecShare(fat, n) ==
  [fat EXCEPT !.Files = [i \in Entries |->
     LET e == fat.Files[i]
     IN IF n[i] = 0 \/ e = Null THEN e
        ELSE IF e.ctr = WriteMode \/ e.ctr <= n[i] THEN Null
        ELSE [e EXCEPT !.ctr = @ - n[i]]]]

(* The file system and the object afterwards; the object is cleared when   *)
(* the file is not there, its volume is not mounted or it may not be       *)
(* shared.                                                                 *)
Opened(fat, s, name, acc, found) ==
  IF fat.id[s] # 0 /\ found /\ MayShare(fat, s, name, acc)
  THEN LET e == IncShare(fat, s, name, acc)
       IN [fat |-> [fat EXCEPT !.Files[e[1]] = e[2]],
           fil |-> [stick |-> s, id |-> fat.id[s], lockid |-> e[1], name |-> name]]
  ELSE [fat |-> fat, fil |-> Null]

(* An object that is no longer valid stays as it is.                       *)
ClosedUnchecked(fat, f) ==
  IF f # Null
  THEN [fat |-> DecShare(fat, [i \in Entries |-> IF i = f.lockid THEN 1 ELSE 0]), fil |-> Null]
  ELSE [fat |-> fat, fil |-> f]

Closed(fat, f) ==
  IF Valid(fat, f)
  THEN [fat |-> DecShare(fat, [i \in Entries |-> IF i = f.lockid THEN 1 ELSE 0]), fil |-> Null]
  ELSE [fat |-> fat, fil |-> f]

ClearShare(fat, s) ==
  [fat EXCEPT !.Files = [i \in Entries |-> IF i \in EntriesOf(fat, s) THEN Null ELSE @[i]]]

Mounted(fat, s) == [ClearShare(fat, s) EXCEPT !.Fsid = @ + 1, !.id[s] = fat.Fsid + 1]

Unmounted(fat, s) == [ClearShare(fat, s) EXCEPT !.id[s] = 0]

Locks(names) == [stick: Sticks, name: names, ctr: 1 .. WriteMode]
OpenFiles(names) == [stick: Sticks, id: Nat, lockid: Entries, name: names]
FatType(names) ==
  [id: [Sticks -> Nat], Fsid: Nat, Files: [Entries -> Locks(names) \cup {Null}]]
FilType(names) == OpenFiles(names) \cup {Null}

NullIsNoRecord(names) == Null \notin Locks(names) /\ Null \notin OpenFiles(names)
=============================================================================
