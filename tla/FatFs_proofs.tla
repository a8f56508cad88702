---------------------------- MODULE FatFs_proofs ----------------------------
(***************************************************************************)
(* Facts about the part of FatFs that the firmware depends on, for any     *)
(* number of sticks, locks and file objects: every lock that is taken      *)
(* belongs to files that can still be closed, and opening, closing,        *)
(* mounting and pulling a stick keep it so.                                *)
(***************************************************************************)
EXTENDS FatFs, FiniteSetTheorems, WellFoundedInduction, TLAPS

(***************************************************************************)
(* The smallest of a set of numbers.                                       *)
(***************************************************************************)
LEMMA MinOfNats ==
  ASSUME NEW S \in SUBSET Nat, S # {}
  PROVE  Min(S) \in S /\ \A n \in S : Min(S) <= n
  <1>1. \E m \in S : \A n \in S : ~ (<<n, m>> \in OpToRel(<, Nat))
    BY NatLessThanWellFounded, WFMin
  <1>2. PICK m \in S : \A n \in S : ~ (<<n, m>> \in OpToRel(<, Nat))
    BY <1>1
  <1>3. ASSUME NEW n \in S PROVE m <= n
    <2>1. <<n, m>> \notin OpToRel(<, Nat)
      BY <1>2
    <2>2. n \in Nat /\ m \in Nat
      OBVIOUS
    <2>3. ~ (n < m)
      BY <2>1, <2>2, Zenon DEF OpToRel
    <2> QED BY <2>2, <2>3
  <1> QED BY <1>3 DEF Min

(***************************************************************************)
(* `objs' are the file objects, `fil' what is in them.                     *)
(***************************************************************************)
OwnersOf(fat, fil, objs, i) == {o \in objs : Valid(fat, fil[o]) /\ fil[o].lockid = i}

\* Each entry counts its users, and is about the file they have open.
CountsUsers(fat, fil, objs) ==
  \A i \in Entries \ Blank(fat) :
    Cardinality(OwnersOf(fat, fil, objs, i)) = IF fat.Files[i].ctr = WriteMode THEN 1 ELSE fat.Files[i].ctr

Named(fat, fil, objs) ==
  \A o \in objs : Valid(fat, fil[o]) =>
    /\ fat.Files[fil[o].lockid] # Null
    /\ fat.Files[fil[o].lockid].stick = fil[o].stick
    /\ fat.Files[fil[o].lockid].name = fil[o].name

\* No object has the number of a mount that is still to come.
Numbered(fat, fil, objs) ==
  /\ \A o \in objs : fil[o] # Null => fil[o].id <= fat.Fsid
  /\ \A s \in Sticks : fat.id[s] <= fat.Fsid

FatTypes(fat, fil, objs, names) ==
  fat \in FatType(names) /\ fil \in [objs -> FilType(names)]

Sound(fat, fil, objs, names) ==
  FatTypes(fat, fil, objs, names) /\ CountsUsers(fat, fil, objs) /\ Named(fat, fil, objs)
  /\ Numbered(fat, fil, objs)

LEMMA NullIsNoFile ==
  ASSUME NEW names, NEW f, f # Null, f \in FilType(names)
  PROVE  f.stick \in Sticks /\ f.id \in Nat /\ f.lockid \in Entries /\ f.name \in names
BY DEF FilType, OpenFiles

LEMMA NullIsNoEntry ==
  ASSUME NEW names, NEW fat \in FatType(names), NEW i \in Entries, fat.Files[i] # Null
  PROVE  /\ fat.Files[i] \in Locks(names)
         /\ fat.Files[i].stick \in Sticks /\ fat.Files[i].name \in names
         /\ fat.Files[i].ctr \in Nat /\ fat.Files[i].ctr >= 1 /\ fat.Files[i].ctr <= WriteMode
BY DEF FatType, Locks, WriteMode

LEMMA CountersFit == 1 .. WriteMode \subseteq Nat /\ 1 \in 1 .. WriteMode /\ WriteMode \in 1 .. WriteMode
BY DEF WriteMode

(***************************************************************************)
(* Closing some of the files: n[i] of those with entry i.                  *)
(***************************************************************************)
Left(e, k) == IF k = 0 \/ e = Null THEN e
              ELSE IF e.ctr = WriteMode \/ e.ctr <= k THEN Null ELSE [e EXCEPT !.ctr = @ - k]

LEMMA DecShareFields ==
  ASSUME NEW names, NEW fat \in FatType(names), NEW n
  PROVE  DecShare(fat, n) = [id |-> fat.id, Fsid |-> fat.Fsid,
                             Files |-> [i \in Entries |-> Left(fat.Files[i], n[i])]]
  <1> DEFINE files == [i \in Entries |-> Left(fat.Files[i], n[i])]
  <1>1. DecShare(fat, n) = [fat EXCEPT !.Files = files]
    BY DEF DecShare, Left
  <1> HIDE DEF files
  <1>2. DecShare(fat, n) = [id |-> fat.id, Fsid |-> fat.Fsid, Files |-> files]
    BY <1>1 DEF FatType
  <1> QED BY <1>2 DEF files

Counts(n, fil, cs) == \A i \in Entries : n[i] = Cardinality({o \in cs : fil[o].lockid = i})

LEMMA CloseSound ==
  ASSUME NEW names, NullIsNoRecord(names), NEW objs, IsFiniteSet(objs), NEW fat, NEW fil, Sound(fat, fil, objs, names),
         NEW cs \in SUBSET {o \in objs : Valid(fat, fil[o])}, NEW n,
         Counts(n, fil, cs)
  PROVE  /\ Sound(DecShare(fat, n), [o \in objs |-> IF o \in cs THEN Null ELSE fil[o]], objs, names)
         /\ DecShare(fat, n).id = fat.id /\ DecShare(fat, n).Fsid = fat.Fsid
  <1> DEFINE gat == DecShare(fat, n)
             gil == [o \in objs |-> IF o \in cs THEN Null ELSE fil[o]]
             those(i) == {o \in cs : fil[o].lockid = i}
  <1>1. fat \in FatType(names) /\ fil \in [objs -> FilType(names)]
    BY DEF Sound, FatTypes
  <1>2. /\ gat.id = fat.id /\ gat.Fsid = fat.Fsid
        /\ gat = [id |-> fat.id, Fsid |-> fat.Fsid, Files |-> gat.Files]
        /\ gat.Files = [i \in Entries |-> gat.Files[i]]
    BY <1>1, DecShareFields
  <1>3. \A i \in Entries : gat.Files[i] = Left(fat.Files[i], n[i])
    <2>1. gat.Files = [i \in Entries |-> Left(fat.Files[i], n[i])]
      BY <1>1, DecShareFields
    <2> QED BY <2>1
  <1> HIDE DEF gat
  <1>4. \A o \in objs : gil[o] = IF o \in cs THEN Null ELSE fil[o]
    OBVIOUS
  <1>5. gil \in [objs -> FilType(names)]
    BY <1>1 DEF FilType
  <1> HIDE DEF gil
  <1>6. \A o \in objs : Valid(gat, gil[o]) <=> Valid(fat, fil[o]) /\ o \notin cs
    BY <1>2, <1>4 DEF Valid
  <1>7. \A i \in Entries : OwnersOf(gat, gil, objs, i) = OwnersOf(fat, fil, objs, i) \ those(i)
    BY <1>4, <1>6 DEF OwnersOf
  <1>8. ASSUME NEW i \in Entries
        PROVE  /\ IsFiniteSet(OwnersOf(fat, fil, objs, i)) /\ those(i) \subseteq OwnersOf(fat, fil, objs, i)
               /\ IsFiniteSet(those(i)) /\ n[i] \in Nat /\ n[i] = Cardinality(those(i))
               /\ n[i] <= Cardinality(OwnersOf(fat, fil, objs, i))
               /\ Cardinality(OwnersOf(fat, fil, objs, i)) \in Nat
               /\ Cardinality(OwnersOf(gat, gil, objs, i))
                    = Cardinality(OwnersOf(fat, fil, objs, i)) - n[i]
               /\ n[i] = 0 => those(i) = {}
               /\ n[i] = Cardinality(OwnersOf(fat, fil, objs, i)) => OwnersOf(gat, gil, objs, i) = {}
    <2>1. OwnersOf(fat, fil, objs, i) \subseteq objs /\ those(i) \subseteq OwnersOf(fat, fil, objs, i)
      BY DEF OwnersOf
    <2>2. IsFiniteSet(OwnersOf(fat, fil, objs, i))
      BY <2>1, FS_Subset
    <2>3. IsFiniteSet(those(i)) /\ Cardinality(those(i)) <= Cardinality(OwnersOf(fat, fil, objs, i))
          /\ (Cardinality(OwnersOf(fat, fil, objs, i)) = Cardinality(those(i)) => those(i) = OwnersOf(fat, fil, objs, i))
      BY <2>1, <2>2, FS_Subset
    <2>4. Cardinality(those(i)) \in Nat /\ Cardinality(OwnersOf(fat, fil, objs, i)) \in Nat
      BY <2>2, <2>3, FS_CardinalityType
    <2>5. OwnersOf(fat, fil, objs, i) \cap those(i) = those(i)
      BY <2>1
    <2>6. Cardinality(OwnersOf(fat, fil, objs, i) \ those(i))
            = Cardinality(OwnersOf(fat, fil, objs, i)) - Cardinality(OwnersOf(fat, fil, objs, i) \cap those(i))
      BY <2>2, FS_Difference
    <2>7. Cardinality(those(i)) = 0 => those(i) = {}
      BY <2>3, FS_EmptySet
    <2> HIDE DEF those
    <2>8. n[i] = Cardinality(those(i))
      BY DEF those, Counts
    <2> QED BY <1>7, <2>1, <2>2, <2>3, <2>4, <2>5, <2>6, <2>7, <2>8
  <1> HIDE DEF those
  <1>9. ASSUME NEW i \in Entries, fat.Files[i] # Null, gat.Files[i] = Null
        PROVE  OwnersOf(gat, gil, objs, i) = {}
    <2>1. n[i] # 0 /\ (fat.Files[i].ctr = WriteMode \/ fat.Files[i].ctr <= n[i])
      <3>1. n[i] # 0
        BY <1>3, <1>9 DEF Left
      <3>2. ASSUME fat.Files[i].ctr # WriteMode, ~ (fat.Files[i].ctr <= n[i])
            PROVE  FALSE
        <4>1. gat.Files[i] = [fat.Files[i] EXCEPT !.ctr = @ - n[i]]
          BY <1>3, <1>9, <3>1, <3>2 DEF Left
        <4>2. /\ fat.Files[i] \in Locks(names) /\ fat.Files[i].ctr \in Nat
              /\ fat.Files[i].ctr <= WriteMode /\ n[i] \in Nat
          BY <1>1, <1>8, <1>9, NullIsNoEntry
        <4>3. fat.Files[i].ctr - n[i] \in 1 .. WriteMode
          BY <3>2, <4>2, SMTT(60) DEF WriteMode
        <4>4. gat.Files[i] \in Locks(names)
          BY <4>1, <4>2, <4>3 DEF Locks
        <4> QED BY <1>9, <4>4 DEF NullIsNoRecord
      <3> QED BY <3>1, <3>2
    <2>2. i \in Entries \ Blank(fat)
      BY <1>9 DEF Blank
    <2>3. Cardinality(OwnersOf(fat, fil, objs, i)) = IF fat.Files[i].ctr = WriteMode THEN 1 ELSE fat.Files[i].ctr
      BY <2>2 DEF Sound, CountsUsers
    <2>4. n[i] = Cardinality(OwnersOf(fat, fil, objs, i))
      BY <1>1, <1>8, <1>9, <2>1, <2>3, NullIsNoEntry
    <2> QED BY <1>8, <2>4
  <1>10. ASSUME NEW i \in Entries, gat.Files[i] # Null
         PROVE  /\ fat.Files[i] # Null /\ gat.Files[i] \in Locks(names)
                /\ gat.Files[i].stick = fat.Files[i].stick /\ gat.Files[i].name = fat.Files[i].name
                /\ Cardinality(OwnersOf(gat, gil, objs, i))
                     = IF gat.Files[i].ctr = WriteMode THEN 1 ELSE gat.Files[i].ctr
    <2> DEFINE e == fat.Files[i]
               k == Cardinality(OwnersOf(fat, fil, objs, i))
    <2>1. e # Null
      BY <1>3, <1>10 DEF Left
    <2>2. e \in Locks(names)
      BY <1>1, <2>1, NullIsNoEntry
    <2>3. k = IF e.ctr = WriteMode THEN 1 ELSE e.ctr
      BY <2>1 DEF Sound, CountsUsers, Blank
    <2>4. Cardinality(OwnersOf(gat, gil, objs, i)) = k - n[i] /\ n[i] \in Nat /\ k \in Nat
      BY <1>8
    <2>5. CASE n[i] = 0
      <3>1. gat.Files[i] = e
        BY <1>3, <2>5 DEF Left
      <3> HIDE DEF k, e
      <3>2. Cardinality(OwnersOf(gat, gil, objs, i)) = k
        BY <2>4, <2>5
      <3> QED BY <2>1, <2>2, <2>3, <3>1, <3>2 DEF e
    <2>6. CASE n[i] # 0
      <3>1. ~ (e.ctr = WriteMode) /\ ~ (e.ctr <= n[i]) /\ gat.Files[i] = [e EXCEPT !.ctr = @ - n[i]]
        BY <1>3, <1>10, <2>1, <2>6 DEF Left
      <3> HIDE DEF k, e
      <3>2. e.ctr \in Nat /\ e.ctr <= WriteMode /\ WriteMode = 256
        BY <2>2 DEF Locks, WriteMode
      <3>3. gat.Files[i].ctr = e.ctr - n[i] /\ gat.Files[i].stick = e.stick /\ gat.Files[i].name = e.name
        BY <2>2, <3>1 DEF Locks
      <3>4. e.ctr - n[i] \in 1 .. WriteMode /\ e.ctr - n[i] # WriteMode
        BY <2>4, <2>6, <3>1, <3>2, SMTT(60)
      <3>5. gat.Files[i] \in Locks(names)
        BY <2>2, <3>1, <3>4 DEF Locks
      <3>6. Cardinality(OwnersOf(gat, gil, objs, i)) = gat.Files[i].ctr
        BY <2>3, <2>4, <3>1, <3>3
      <3> QED BY <2>1, <3>3, <3>4, <3>5, <3>6 DEF e
    <2> QED BY <2>5, <2>6
  <1>11. gat \in FatType(names)
    <2>1. \A i \in Entries : gat.Files[i] \in Locks(names) \cup {Null}
      BY <1>10
    <2>2. gat.Files \in [Entries -> Locks(names) \cup {Null}]
      BY <1>2, <2>1
    <2>3. fat.id \in [Sticks -> Nat] /\ fat.Fsid \in Nat
      BY <1>1 DEF FatType
    <2> QED BY <1>2, <2>2, <2>3 DEF FatType
  <1>12. CountsUsers(gat, gil, objs)
    BY <1>10 DEF CountsUsers, Blank
  <1>13. Named(gat, gil, objs)
    <2> SUFFICES ASSUME NEW o \in objs, Valid(gat, gil[o])
                 PROVE  /\ gat.Files[gil[o].lockid] # Null
                        /\ gat.Files[gil[o].lockid].stick = gil[o].stick
                        /\ gat.Files[gil[o].lockid].name = gil[o].name
      BY DEF Named
    <2>1. Valid(fat, fil[o]) /\ gil[o] = fil[o]
      BY <1>4, <1>6
    <2> DEFINE i == fil[o].lockid
    <2>2. i \in Entries
      BY <1>1, <2>1, NullIsNoFile DEF Valid
    <2>3. fat.Files[i] # Null /\ fat.Files[i].stick = fil[o].stick /\ fat.Files[i].name = fil[o].name
      BY <2>1 DEF Sound, Named
    <2>4. o \in OwnersOf(gat, gil, objs, i)
      BY <2>1 DEF OwnersOf
    <2> HIDE DEF i
    <2>5. gat.Files[i] # Null
      BY <1>9, <2>2, <2>3, <2>4
    <2> QED BY <1>10, <2>1, <2>2, <2>3, <2>5 DEF i
  <1>14. Numbered(gat, gil, objs)
    BY <1>2, <1>4 DEF Sound, Numbered
  <1> QED BY <1>2, <1>5, <1>11, <1>12, <1>13, <1>14 DEF Sound, FatTypes, gat, gil

(***************************************************************************)
(* Opening: one more user of an entry, or the first of a blank one.        *)
(***************************************************************************)
Entered(fat, s, name, acc, i, e) ==
  /\ e[1] = i
  /\ \/ /\ fat.Files[i] = Null
        /\ e[2] = [stick |-> s, name |-> name, ctr |-> IF acc = Writing THEN WriteMode ELSE 1]
     \/ /\ fat.Files[i] # Null /\ fat.Files[i].stick = s /\ fat.Files[i].name = name
        /\ fat.Files[i].ctr # WriteMode
        /\ e[2] = [stick |-> s, name |-> name, ctr |-> fat.Files[i].ctr + 1]

LEMMA EntryIsThere ==
  ASSUME NEW names, NEW fat \in FatType(names), NEW s \in Sticks, NEW name \in names,
         NEW acc \in {Reading, Writing}, MayShare(fat, s, name, acc)
  PROVE  \E i \in Entries : Entered(fat, s, name, acc, i, IncShare(fat, s, name, acc))
  <1> DEFINE known == EntryOf(fat, s, name)
             i == IF known = {} THEN Min(Blank(fat)) ELSE Min(known)
             e == IncShare(fat, s, name, acc)
  <1>1. Entries \subseteq Nat
    BY DEF Entries
  <1>2. known \subseteq Nat /\ Blank(fat) \subseteq Nat
    BY <1>1 DEF EntryOf, EntriesOf, Blank
  <1>3. (acc = Writing \/ acc = Reading) /\ Reading # Writing
    BY DEF Reading, Writing
  <1>4. e[1] = i /\ e[2] = [stick |-> s, name |-> name,
                            ctr |-> CASE acc = Writing -> WriteMode
                                      [] acc = Reading -> IF known = {} THEN 1 ELSE fat.Files[i].ctr + 1]
    BY DEF IncShare
  <1> HIDE DEF e
  <1>5. CASE known = {}
    <2>1. Blank(fat) # {}
      BY <1>5 DEF MayShare
    <2>2. i \in Blank(fat)
      BY <1>2, <1>5, <2>1, MinOfNats
    <2>3. e[2].ctr = IF acc = Writing THEN WriteMode ELSE 1
      BY <1>3, <1>4, <1>5
    <2> HIDE DEF i
    <2>4. i \in Entries /\ fat.Files[i] = Null
      BY <2>2 DEF Blank
    <2> QED BY <1>4, <2>3, <2>4 DEF e, Entered
  <1>6. CASE known # {}
    <2>1. i \in known
      BY <1>2, <1>6, MinOfNats
    <2>2. acc = Reading /\ \A j \in known : fat.Files[j].ctr # WriteMode
      BY <1>6 DEF MayShare
    <2>3. e[2].ctr = fat.Files[i].ctr + 1
      BY <1>3, <1>4, <1>6, <2>2
    <2> HIDE DEF i
    <2>4. i \in Entries /\ fat.Files[i] # Null /\ fat.Files[i].stick = s /\ fat.Files[i].name = name
      BY <2>1 DEF EntryOf, EntriesOf, Blank
    <2> QED BY <1>4, <2>1, <2>2, <2>3, <2>4 DEF e, Entered
  <1> QED BY <1>5, <1>6

\* An object that no lock belongs to is opened, or is left cleared.
LEMMA OpenSound ==
  ASSUME NEW names, NullIsNoRecord(names), NEW objs, IsFiniteSet(objs), Cardinality(objs) < WriteMode,
         NEW fat, NEW fil, Sound(fat, fil, objs, names),
         NEW o \in objs, ~Valid(fat, fil[o]),
         NEW s \in Sticks, NEW name \in names, NEW acc \in {Reading, Writing}, NEW found
  PROVE  LET r == Opened(fat, s, name, acc, found)
         IN /\ Sound(r.fat, [fil EXCEPT ![o] = r.fil], objs, names)
            /\ r.fat.id = fat.id /\ r.fat.Fsid = fat.Fsid
            /\ r.fil # Null => /\ Valid(r.fat, r.fil)
                               /\ r.fil.stick = s /\ r.fil.name = name
            /\ r.fil \in FilType(names)
  <1> DEFINE r == Opened(fat, s, name, acc, found)
             gat == r.fat
             gil == [fil EXCEPT ![o] = r.fil]
  <1>1. fat \in FatType(names) /\ fil \in [objs -> FilType(names)]
    BY DEF Sound, FatTypes
  <1>2. CASE r = [fat |-> fat, fil |-> Null]
    <2>1. gat = fat /\ gil = [fil EXCEPT ![o] = Null] /\ r.fil = Null
      BY <1>2
    <2> HIDE DEF r
    <2>2. gil \in [objs -> FilType(names)] /\ \A p \in objs : gil[p] = IF p = o THEN Null ELSE fil[p]
      BY <1>1, <2>1 DEF FilType
    <2> HIDE DEF gil, gat
    <2>3. \A p \in objs : Valid(gat, gil[p]) <=> Valid(fat, fil[p])
      BY <2>1, <2>2 DEF Valid
    <2>4. \A i : OwnersOf(gat, gil, objs, i) = OwnersOf(fat, fil, objs, i)
      BY <2>1, <2>2, <2>3 DEF OwnersOf
    <2>5. CountsUsers(gat, gil, objs)
      BY <2>1, <2>4 DEF Sound, CountsUsers
    <2>6. Named(gat, gil, objs)
      BY <2>1, <2>2, <2>3 DEF Sound, Named, Valid
    <2>7. Numbered(gat, gil, objs)
      BY <2>1, <2>2 DEF Sound, Numbered
    <2>8. Sound(gat, gil, objs, names)
      BY <1>1, <2>1, <2>2, <2>5, <2>6, <2>7 DEF Sound, FatTypes
    <2> QED BY <2>1, <2>8 DEF gat, gil, r, FilType
  <1>3. CASE r # [fat |-> fat, fil |-> Null]
    <2> DEFINE e == IncShare(fat, s, name, acc)
    <2>1. /\ MayShare(fat, s, name, acc) /\ fat.id[s] # 0
          /\ gat = [fat EXCEPT !.Files = [@ EXCEPT ![e[1]] = e[2]]]
          /\ r.fil = [stick |-> s, id |-> fat.id[s], lockid |-> e[1], name |-> name]
      BY <1>3 DEF Opened
    <2> HIDE DEF r
    <2>0. PICK i \in Entries : Entered(fat, s, name, acc, i, e)
      <3>1. fat \in FatType(names) /\ MayShare(fat, s, name, acc)
        BY <1>1, <2>1
      <3> QED BY <3>1, EntryIsThere
    <2>2. /\ e[1] = i
          /\ \/ /\ fat.Files[i] = Null
                /\ e[2] = [stick |-> s, name |-> name, ctr |-> IF acc = Writing THEN WriteMode ELSE 1]
             \/ /\ fat.Files[i] # Null /\ fat.Files[i].stick = s /\ fat.Files[i].name = name
                /\ fat.Files[i].ctr # WriteMode
                /\ e[2] = [stick |-> s, name |-> name, ctr |-> fat.Files[i].ctr + 1]
      BY <2>0 DEF Entered
    <2> HIDE DEF e
    <2>3. fat.id \in [Sticks -> Nat] /\ fat.Fsid \in Nat /\ fat.Files \in [Entries -> Locks(names) \cup {Null}]
      BY <1>1 DEF FatType
    <2>4. /\ gat.id = fat.id /\ gat.Fsid = fat.Fsid
          /\ gat = [id |-> fat.id, Fsid |-> fat.Fsid, Files |-> [fat.Files EXCEPT ![i] = e[2]]]
      BY <1>1, <2>1, <2>2 DEF FatType
    <2>5. \A j \in Entries : gat.Files[j] = IF j = i THEN e[2] ELSE fat.Files[j]
      BY <2>3, <2>4
    <2>6. r.fil \in OpenFiles(names) /\ r.fil # Null
      BY <2>1, <2>2, <2>3 DEF OpenFiles, NullIsNoRecord
    <2>7. gil \in [objs -> FilType(names)] /\ \A p \in objs : gil[p] = IF p = o THEN r.fil ELSE fil[p]
      BY <1>1, <2>6 DEF FilType
    <2> HIDE DEF gil, gat
    <2>8. Valid(gat, r.fil) /\ r.fil.stick = s /\ r.fil.name = name /\ r.fil.lockid = i /\ r.fil.id = fat.id[s]
      BY <2>1, <2>2, <2>4, <2>6 DEF Valid
    <2>9. \A p \in objs : Valid(gat, gil[p]) <=> (p = o \/ Valid(fat, fil[p]))
      BY <2>4, <2>7, <2>8 DEF Valid
    <2>10. /\ OwnersOf(gat, gil, objs, i) = OwnersOf(fat, fil, objs, i) \cup {o}
           /\ o \notin OwnersOf(fat, fil, objs, i)
           /\ \A j \in Entries \ {i} : OwnersOf(gat, gil, objs, j) = OwnersOf(fat, fil, objs, j)
      BY <2>7, <2>8, <2>9 DEF OwnersOf
    <2>11. /\ Cardinality(OwnersOf(gat, gil, objs, i)) = Cardinality(OwnersOf(fat, fil, objs, i)) + 1
           /\ Cardinality(OwnersOf(fat, fil, objs, i)) \in Nat
           /\ Cardinality(OwnersOf(gat, gil, objs, i)) < WriteMode
      <3>1. OwnersOf(fat, fil, objs, i) \in SUBSET objs /\ OwnersOf(gat, gil, objs, i) \in SUBSET objs
        BY DEF OwnersOf
      <3>2. IsFiniteSet(OwnersOf(fat, fil, objs, i))
        BY <3>1, FS_Subset
      <3>3. Cardinality(OwnersOf(gat, gil, objs, i)) <= Cardinality(objs)
        BY <3>1, FS_Subset
      <3>4. Cardinality(OwnersOf(fat, fil, objs, i)) \in Nat /\ Cardinality(objs) \in Nat
        BY <3>2, FS_CardinalityType
      <3>5. Cardinality(OwnersOf(gat, gil, objs, i)) = Cardinality(OwnersOf(fat, fil, objs, i)) + 1
        <4>1. PICK users : users = OwnersOf(fat, fil, objs, i)
          OBVIOUS
        <4>2. Cardinality(users \cup {o}) = Cardinality(users) + 1
          BY <2>10, <3>2, <4>1, FS_AddElement
        <4> QED BY <2>10, <4>1, <4>2
      <3> QED BY <3>3, <3>4, <3>5 DEF WriteMode
    <2>12. /\ e[2] \in Locks(names) /\ e[2].stick = s /\ e[2].name = name
           /\ Cardinality(OwnersOf(gat, gil, objs, i)) = IF e[2].ctr = WriteMode THEN 1 ELSE e[2].ctr
      <3>1. CASE fat.Files[i] = Null
        <4>1. OwnersOf(fat, fil, objs, i) = {}
          BY <3>1 DEF OwnersOf, Sound, Named
        <4>2. Cardinality(OwnersOf(gat, gil, objs, i)) = 1
          BY <2>11, <4>1, FS_EmptySet
        <4>3. e[2] = [stick |-> s, name |-> name, ctr |-> IF acc = Writing THEN WriteMode ELSE 1]
          BY <2>2, <3>1
        <4>4. (IF acc = Writing THEN WriteMode ELSE 1) \in 1 .. WriteMode
          BY DEF WriteMode
        <4> QED BY <4>2, <4>3, <4>4 DEF Locks
      <3>2. CASE fat.Files[i] # Null
        <4>1. /\ fat.Files[i].ctr # WriteMode
              /\ e[2] = [stick |-> s, name |-> name, ctr |-> fat.Files[i].ctr + 1]
          BY <2>2, <3>2
        <4>2. Cardinality(OwnersOf(fat, fil, objs, i)) = fat.Files[i].ctr
          BY <3>2, <4>1 DEF Sound, CountsUsers, Blank
        <4>3. Cardinality(OwnersOf(gat, gil, objs, i)) = fat.Files[i].ctr + 1
          BY <2>11, <4>2
        <4>4. fat.Files[i].ctr + 1 \in 1 .. WriteMode /\ fat.Files[i].ctr + 1 # WriteMode
          BY <2>11, <4>2, <4>3, SMTT(60) DEF WriteMode
        <4> QED BY <4>1, <4>3, <4>4 DEF Locks
      <3> QED BY <3>1, <3>2
    <2>13. gat \in FatType(names)
      BY <2>3, <2>4, <2>12 DEF FatType
    <2>14. CountsUsers(gat, gil, objs)
      <3> SUFFICES ASSUME NEW j \in Entries, gat.Files[j] # Null
                   PROVE  Cardinality(OwnersOf(gat, gil, objs, j))
                            = IF gat.Files[j].ctr = WriteMode THEN 1 ELSE gat.Files[j].ctr
        BY DEF CountsUsers, Blank
      <3>1. CASE j = i
        BY <2>5, <2>12, <3>1
      <3>2. CASE j # i
        <4>1. gat.Files[j] = fat.Files[j] /\ OwnersOf(gat, gil, objs, j) = OwnersOf(fat, fil, objs, j)
          BY <2>5, <2>10, <3>2
        <4>2. j \in Entries \ Blank(fat)
          BY <4>1 DEF Blank
        <4> QED BY <4>1, <4>2 DEF Sound, CountsUsers
      <3> QED BY <3>1, <3>2
    <2>15. Named(gat, gil, objs)
      <3> SUFFICES ASSUME NEW p \in objs, Valid(gat, gil[p])
                   PROVE  /\ gat.Files[gil[p].lockid] # Null
                          /\ gat.Files[gil[p].lockid].stick = gil[p].stick
                          /\ gat.Files[gil[p].lockid].name = gil[p].name
        BY DEF Named
      <3>0. e[2] # Null
        BY <2>12 DEF NullIsNoRecord
      <3>1. CASE p = o
        BY <2>5, <2>7, <2>8, <2>12, <3>0, <3>1
      <3>2. CASE p # o
        <4>1. gil[p] = fil[p] /\ Valid(fat, fil[p])
          BY <2>7, <2>9, <3>2
        <4>2. fil[p].lockid \in Entries
          BY <1>1, <4>1, NullIsNoFile DEF Valid
        <4>3. /\ fat.Files[fil[p].lockid] # Null
              /\ fat.Files[fil[p].lockid].stick = fil[p].stick
              /\ fat.Files[fil[p].lockid].name = fil[p].name
          BY <4>1 DEF Sound, Named
        <4>4. CASE fil[p].lockid = i
          BY <2>2, <2>5, <2>12, <3>0, <4>1, <4>3, <4>4
        <4>5. CASE fil[p].lockid # i
          BY <2>5, <4>1, <4>2, <4>3, <4>5
        <4> QED BY <4>4, <4>5
      <3> QED BY <3>1, <3>2
    <2>16. Numbered(gat, gil, objs)
      BY <2>4, <2>7, <2>8 DEF Sound, Numbered
    <2>17. Sound(gat, gil, objs, names)
      BY <2>7, <2>13, <2>14, <2>15, <2>16 DEF Sound, FatTypes
    <2> QED BY <2>4, <2>6, <2>8, <2>17 DEF gat, gil, r, FilType
  <1> QED BY <1>2, <1>3

\* An object that is not open may be cleared.
LEMMA ClearedSound ==
  ASSUME NEW names, NEW objs, NEW fat, NEW fil, Sound(fat, fil, objs, names),
         NEW o \in objs, ~Valid(fat, fil[o])
  PROVE  Sound(fat, [fil EXCEPT ![o] = Null], objs, names)
  <1> DEFINE gil == [fil EXCEPT ![o] = Null]
  <1>1. fat \in FatType(names) /\ fil \in [objs -> FilType(names)]
    BY DEF Sound, FatTypes
  <1>2. gil \in [objs -> FilType(names)] /\ gil[o] = Null /\ \A p \in objs \ {o} : gil[p] = fil[p]
    BY <1>1 DEF FilType
  <1> HIDE DEF gil
  <1>3. \A p \in objs : Valid(fat, gil[p]) <=> Valid(fat, fil[p]) /\ p # o
    BY <1>2 DEF Valid
  <1>4. \A i : OwnersOf(fat, gil, objs, i) = OwnersOf(fat, fil, objs, i)
    BY <1>2, <1>3 DEF OwnersOf
  <1>5. CountsUsers(fat, gil, objs)
    BY <1>4 DEF Sound, CountsUsers
  <1>6. Named(fat, gil, objs)
    BY <1>2, <1>3 DEF Sound, Named
  <1>7. Numbered(fat, gil, objs)
    BY <1>2 DEF Sound, Numbered
  <1> QED BY <1>1, <1>2, <1>5, <1>6, <1>7 DEF Sound, FatTypes, gil

SoundlyOpened(fat, fil, o, r, objs, names) ==
  /\ Sound(r.fat, [fil EXCEPT ![o] = r.fil], objs, names)
  /\ r.fat.id = fat.id /\ r.fil \in FilType(names)

LEMMA OpenSoundly ==
  ASSUME NEW names, NullIsNoRecord(names), NEW objs, IsFiniteSet(objs), Cardinality(objs) < WriteMode,
         NEW fat, NEW fil, Sound(fat, fil, objs, names),
         NEW o \in objs, ~Valid(fat, fil[o]),
         NEW s \in Sticks, NEW name \in names, NEW acc \in {Reading, Writing}, NEW found
  PROVE  SoundlyOpened(fat, fil, o, Opened(fat, s, name, acc, found), objs, names)
BY OpenSound DEF SoundlyOpened

(***************************************************************************)
(* A stick goes, and its locks with it; a stick comes, with a new number.  *)
(***************************************************************************)
LEMMA StickSound ==
  ASSUME NEW names, NullIsNoRecord(names), NEW objs, NEW fat, NEW fil, Sound(fat, fil, objs, names),
         NEW s \in Sticks, NEW gat,
         gat = Unmounted(fat, s) \/ gat = Mounted(fat, s)
  PROVE  /\ Sound(gat, fil, objs, names)
         /\ \A t \in Sticks \ {s} : gat.id[t] = fat.id[t]
         /\ gat.id[s] = 0 \/ gat.id[s] = fat.Fsid + 1
         /\ \A o \in objs : Valid(gat, fil[o]) <=> Valid(fat, fil[o]) /\ fil[o].stick # s
  <1>1. fat \in FatType(names) /\ fil \in [objs -> FilType(names)]
    BY DEF Sound, FatTypes
  <1>2. fat.id \in [Sticks -> Nat] /\ fat.Fsid \in Nat /\ fat.Files \in [Entries -> Locks(names) \cup {Null}]
    BY <1>1 DEF FatType
  <1> DEFINE files == [i \in Entries |-> IF i \in EntriesOf(fat, s) THEN Null ELSE fat.Files[i]]
  <1>3. ClearShare(fat, s) = [id |-> fat.id, Fsid |-> fat.Fsid, Files |-> files]
    <2>1. ClearShare(fat, s) = [fat EXCEPT !.Files = files]
      BY DEF ClearShare
    <2> HIDE DEF files
    <2> QED BY <1>1, <2>1 DEF FatType
  <1> HIDE DEF files
  <1>4. PICK n \in {0, fat.Fsid + 1}, k \in {fat.Fsid, fat.Fsid + 1} :
           gat = [id |-> [fat.id EXCEPT ![s] = n], Fsid |-> k, Files |-> files] /\ n <= k
    <2>1. CASE gat = Unmounted(fat, s)
      BY <1>2, <1>3, <2>1 DEF Unmounted
    <2>2. CASE gat = Mounted(fat, s)
      <3>1. gat = [id |-> [fat.id EXCEPT ![s] = fat.Fsid + 1], Fsid |-> fat.Fsid + 1, Files |-> files]
        <4>1. gat = [[ClearShare(fat, s) EXCEPT !.Fsid = @ + 1] EXCEPT !.id = [@ EXCEPT ![s] = fat.Fsid + 1]]
          BY <2>2 DEF Mounted
        <4>2. [ClearShare(fat, s) EXCEPT !.Fsid = @ + 1] = [id |-> fat.id, Fsid |-> fat.Fsid + 1, Files |-> files]
          BY <1>3
        <4> QED BY <4>1, <4>2
      <3> QED BY <1>2, <3>1
    <2> QED BY <2>1, <2>2
  <1>5. /\ gat.id \in [Sticks -> Nat] /\ gat.Fsid \in Nat /\ gat.Fsid >= fat.Fsid
        /\ \A t \in Sticks : gat.id[t] = IF t = s THEN n ELSE fat.id[t]
    BY <1>2, <1>4
  <1>6. gat.Files = files /\ files \in [Entries -> Locks(names) \cup {Null}]
        /\ \A i \in Entries : files[i] = IF i \in EntriesOf(fat, s) THEN Null ELSE fat.Files[i]
    BY <1>2, <1>4 DEF files
  <1>7. gat \in FatType(names)
    BY <1>4, <1>5, <1>6 DEF FatType
  <1>8. ASSUME NEW o \in objs, fil[o] # Null
        PROVE  fil[o].stick \in Sticks /\ fil[o].id \in Nat /\ fil[o].id <= fat.Fsid /\ fil[o].lockid \in Entries
    <2>1. fil[o] \in FilType(names)
      BY <1>1
    <2> QED BY <1>8, <2>1, NullIsNoFile DEF Sound, Numbered
  <1>9. ASSUME NEW o \in objs
        PROVE  Valid(gat, fil[o]) <=> Valid(fat, fil[o]) /\ fil[o].stick # s
    BY <1>2, <1>5, <1>8 DEF Valid
  <1>10. ASSUME NEW i \in Entries, gat.Files[i] # Null
         PROVE  /\ gat.Files[i] = fat.Files[i] /\ fat.Files[i].stick # s
                /\ OwnersOf(gat, fil, objs, i) = OwnersOf(fat, fil, objs, i)
    <2>1. gat.Files[i] = fat.Files[i] /\ i \notin EntriesOf(fat, s) /\ fat.Files[i] # Null
      BY <1>6, <1>10
    <2>2. fat.Files[i].stick # s
      BY <2>1 DEF EntriesOf, Blank
    <2>3. \A o \in OwnersOf(fat, fil, objs, i) : fil[o].stick # s
      BY <2>2 DEF OwnersOf, Sound, Named
    <2> QED BY <1>9, <2>1, <2>2, <2>3 DEF OwnersOf
  <1>11. CountsUsers(gat, fil, objs)
    <2>1. \A i \in Entries : gat.Files[i] # Null => i \in Entries \ Blank(fat)
      BY <1>10 DEF Blank
    <2> QED BY <1>10, <2>1 DEF Sound, CountsUsers, Blank
  <1>12. Named(gat, fil, objs)
    <2> SUFFICES ASSUME NEW o \in objs, Valid(gat, fil[o])
                 PROVE  /\ gat.Files[fil[o].lockid] # Null
                        /\ gat.Files[fil[o].lockid].stick = fil[o].stick
                        /\ gat.Files[fil[o].lockid].name = fil[o].name
      BY DEF Named
    <2>1. Valid(fat, fil[o]) /\ fil[o].stick # s /\ fil[o].lockid \in Entries
      BY <1>8, <1>9 DEF Valid
    <2>2. /\ fat.Files[fil[o].lockid] # Null
          /\ fat.Files[fil[o].lockid].stick = fil[o].stick
          /\ fat.Files[fil[o].lockid].name = fil[o].name
      BY <2>1 DEF Sound, Named
    <2>3. fil[o].lockid \notin EntriesOf(fat, s)
      BY <2>1, <2>2 DEF EntriesOf
    <2> QED BY <1>6, <2>1, <2>2, <2>3
  <1>13. Numbered(gat, fil, objs)
    <2>1. \A o \in objs : fil[o] # Null => fil[o].id <= gat.Fsid
      BY <1>2, <1>5, <1>8
    <2>2. \A t \in Sticks : fat.id[t] <= fat.Fsid
      BY DEF Sound, Numbered
    <2>3. \A t \in Sticks : gat.id[t] <= gat.Fsid
      BY <1>2, <1>4, <1>5, <2>2
    <2> QED BY <2>1, <2>3 DEF Numbered
  <1> QED BY <1>1, <1>4, <1>5, <1>7, <1>9, <1>11, <1>12, <1>13 DEF Sound, FatTypes

(***************************************************************************)
(* Closing one file, as f_close() does: what is not valid stays.           *)
(***************************************************************************)
LEMMA ClosedSound ==
  ASSUME NEW names, NullIsNoRecord(names), NEW objs, IsFiniteSet(objs), NEW fat, NEW fil,
         Sound(fat, fil, objs, names), NEW o \in objs
  PROVE  LET r == Closed(fat, fil[o])
         IN /\ Sound(r.fat, [fil EXCEPT ![o] = r.fil], objs, names)
            /\ r.fat.id = fat.id /\ r.fat.Fsid = fat.Fsid
            /\ ~Valid(r.fat, r.fil) /\ r.fil \in FilType(names)
            /\ r.fil = fil[o] \/ r.fil = Null
  <1> DEFINE r == Closed(fat, fil[o])
             n == [i \in Entries |-> IF i = fil[o].lockid THEN 1 ELSE 0]
  <1>1. fat \in FatType(names) /\ fil \in [objs -> FilType(names)]
    BY DEF Sound, FatTypes
  <1>2. CASE ~Valid(fat, fil[o])
    <2>1. r = [fat |-> fat, fil |-> fil[o]]
      BY <1>2 DEF Closed
    <2>2. [fil EXCEPT ![o] = fil[o]] = fil
      BY <1>1
    <2>3. fil[o] \in FilType(names)
      BY <1>1
    <2>4. r.fat = fat /\ r.fil = fil[o]
      BY <2>1
    <2>5. [fil EXCEPT ![o] = r.fil] = fil
      BY <2>2, <2>4
    <2> HIDE DEF r
    <2>6. Sound(r.fat, [fil EXCEPT ![o] = r.fil], objs, names)
      BY <2>4, <2>5
    <2> QED BY <1>2, <2>3, <2>4, <2>6 DEF r
  <1>3. CASE Valid(fat, fil[o])
    <2>1. r = [fat |-> DecShare(fat, n), fil |-> Null]
      BY <1>3 DEF Closed
    <2>2. ASSUME NEW i \in Entries
          PROVE  n[i] = Cardinality({p \in {o} : fil[p].lockid = i})
      <3>1. CASE i = fil[o].lockid
        <4>1. {p \in {o} : fil[p].lockid = i} = {o}
          BY <3>1
        <4> QED BY <3>1, <4>1, FS_Singleton
      <3>2. CASE i # fil[o].lockid
        <4>1. {p \in {o} : fil[p].lockid = i} = {}
          BY <3>2
        <4> QED BY <3>2, <4>1, FS_EmptySet
      <3> QED BY <3>1, <3>2
    <2>3. [fil EXCEPT ![o] = Null] = [p \in objs |-> IF p \in {o} THEN Null ELSE fil[p]]
      BY <1>1
    <2> HIDE DEF n, r
    <2>4. {o} \in SUBSET {p \in objs : Valid(fat, fil[p])}
      BY <1>3
    <2>5. /\ Sound(DecShare(fat, n), [p \in objs |-> IF p \in {o} THEN Null ELSE fil[p]], objs, names)
          /\ DecShare(fat, n).id = fat.id /\ DecShare(fat, n).Fsid = fat.Fsid
      <3>1. Counts(n, fil, {o})
        BY <2>2 DEF Counts
      <3> QED BY <2>4, <3>1, CloseSound
    <2>6. Null \in FilType(names) /\ ~Valid(DecShare(fat, n), Null)
      BY DEF FilType, Valid
    <2> QED BY <2>1, <2>3, <2>5, <2>6 DEF r
  <1> QED BY <1>2, <1>3

LEMMA SoundAtFirst ==
  ASSUME NEW names, NEW objs
  PROVE  Sound(FatInit, [o \in objs |-> Null], objs, names)
  <1>1. FatInit \in FatType(names)
    BY DEF FatInit, FatType
  <1>2. [o \in objs |-> Null] \in [objs -> FilType(names)]
    BY DEF FilType
  <1>3. \A i \in Entries : i \in Blank(FatInit)
    BY DEF Blank, FatInit
  <1> QED BY <1>1, <1>2, <1>3 DEF Sound, FatTypes, CountsUsers, Named, Numbered, Valid, FatInit

(***************************************************************************)
(* What needs no locks: the fields of FatFs, and which volumes are there.  *)
(***************************************************************************)
Shaped(fat) ==
  /\ fat = [id |-> fat.id, Fsid |-> fat.Fsid, Files |-> fat.Files]
  /\ fat.id \in [Sticks -> Nat] /\ fat.Fsid \in Nat

LEMMA CloseShaped ==
  ASSUME NEW fat, NEW f, NEW n, Shaped(fat)
  PROVE  /\ Shaped(DecShare(fat, n)) /\ DecShare(fat, n).id = fat.id
         /\ Shaped(Closed(fat, f).fat) /\ Closed(fat, f).fat.id = fat.id
         /\ Closed(fat, f).fil = f \/ Closed(fat, f).fil = Null
  <1>1. ASSUME NEW k PROVE Shaped(DecShare(fat, k)) /\ DecShare(fat, k).id = fat.id
    <2> DEFINE files == [i \in Entries |-> Left(fat.Files[i], k[i])]
    <2>1. DecShare(fat, k) = [fat EXCEPT !.Files = files]
      BY DEF DecShare, Left
    <2> HIDE DEF files
    <2>2. DecShare(fat, k) = [id |-> fat.id, Fsid |-> fat.Fsid, Files |-> files]
      BY <2>1 DEF Shaped
    <2> QED BY <2>2 DEF Shaped
  <1> QED BY <1>1 DEF Closed

LEMMA OpenShaped ==
  ASSUME NEW fat, Shaped(fat), NEW s \in Sticks, NEW name, NEW acc, NEW found
  PROVE  LET r == Opened(fat, s, name, acc, found)
         IN /\ Shaped(r.fat) /\ r.fat.id = fat.id
            /\ r.fil # Null => Valid(r.fat, r.fil) /\ r.fil.stick = s /\ r.fil.name = name
  <1> DEFINE r == Opened(fat, s, name, acc, found)
             e == IncShare(fat, s, name, acc)
  <1>1. CASE r = [fat |-> fat, fil |-> Null]
    BY <1>1
  <1>2. CASE r # [fat |-> fat, fil |-> Null]
    <2>1. /\ fat.id[s] # 0
          /\ r.fat = [fat EXCEPT !.Files = [@ EXCEPT ![e[1]] = e[2]]]
          /\ r.fil = [stick |-> s, id |-> fat.id[s], lockid |-> e[1], name |-> name]
      BY <1>2 DEF Opened
    <2> HIDE DEF e, r
    <2>2. r.fat = [id |-> fat.id, Fsid |-> fat.Fsid, Files |-> [fat.Files EXCEPT ![e[1]] = e[2]]]
      BY <2>1 DEF Shaped
    <2>3. Shaped(r.fat) /\ r.fat.id = fat.id
      BY <2>2 DEF Shaped
    <2> QED BY <2>1, <2>3 DEF Valid, r
  <1> QED BY <1>1, <1>2

LEMMA StickShaped ==
  ASSUME NEW fat, Shaped(fat), NEW s \in Sticks, NEW gat,
         gat = Unmounted(fat, s) \/ gat = Mounted(fat, s)
  PROVE  Shaped(gat) /\ \A t \in Sticks \ {s} : gat.id[t] = fat.id[t]
  <1> DEFINE files == [i \in Entries |-> IF i \in EntriesOf(fat, s) THEN Null ELSE fat.Files[i]]
  <1>1. ClearShare(fat, s) = [id |-> fat.id, Fsid |-> fat.Fsid, Files |-> files]
    <2>1. ClearShare(fat, s) = [fat EXCEPT !.Files = files]
      BY DEF ClearShare
    <2> HIDE DEF files
    <2> QED BY <2>1 DEF Shaped
  <1> HIDE DEF files
  <1>2. fat.id \in [Sticks -> Nat] /\ fat.Fsid \in Nat
    BY DEF Shaped
  <1>3. PICK n \in {0, fat.Fsid + 1}, k \in {fat.Fsid, fat.Fsid + 1} :
           gat = [id |-> [fat.id EXCEPT ![s] = n], Fsid |-> k, Files |-> files]
    <2>1. CASE gat = Unmounted(fat, s)
      BY <1>1, <1>2, <2>1 DEF Unmounted
    <2>2. CASE gat = Mounted(fat, s)
      <3>1. gat = [[ClearShare(fat, s) EXCEPT !.Fsid = @ + 1] EXCEPT !.id = [@ EXCEPT ![s] = fat.Fsid + 1]]
        BY <2>2 DEF Mounted
      <3>2. [ClearShare(fat, s) EXCEPT !.Fsid = @ + 1] = [id |-> fat.id, Fsid |-> fat.Fsid + 1, Files |-> files]
        BY <1>1
      <3>3. gat = [id |-> [fat.id EXCEPT ![s] = fat.Fsid + 1], Fsid |-> fat.Fsid + 1, Files |-> files]
        BY <3>1, <3>2
      <3> QED BY <3>3
    <2> QED BY <2>1, <2>2
  <1> QED BY <1>2, <1>3 DEF Shaped
=============================================================================
