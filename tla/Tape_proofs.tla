----------------------------- MODULE Tape_proofs -----------------------------
(***************************************************************************)
(* What holds of the tape deck for all images, sizes of blocks and lengths *)
(* of recordings: the counter says where the tape is, what was recorded is *)
(* stored when the deck stands still, and a search finds the next header.  *)
(***************************************************************************)
EXTENDS Tape, SequenceTheorems, WellFoundedInduction, TLAPS

(***************************************************************************)
(* Smallest and largest.                                                   *)
(***************************************************************************)
LEMMA LeastOfNats ==
  ASSUME NEW S \in SUBSET Nat, S # {}
  PROVE  Min(S) \in S /\ \A n \in S : Min(S) <= n
  <1>1. \E m \in S : \A n \in S : ~ (<<n, m>> \in OpToRel(<, Nat))
    BY NatLessThanWellFounded, WFMin
  <1>2. PICK m \in S : \A n \in S : ~ (<<n, m>> \in OpToRel(<, Nat))
    BY <1>1
  <1>3. ASSUME NEW n \in S PROVE m <= n
    <2>1. <<n, m>> \notin OpToRel(<, Nat)
      BY <1>2
    <2>2. n \in Nat /\ m \in Nat
      OBVIOUS
    <2>3. ~ (n < m)
      BY <2>1, <2>2, Zenon DEF OpToRel
    <2> QED BY <2>2, <2>3
  <1> QED BY <1>3 DEF Min

LEMMA OfTwo ==
  ASSUME NEW m \in Int, NEW n \in Int
  PROVE  Min({m, n}) = (IF m <= n THEN m ELSE n) /\ Max({m, n}) = (IF m >= n THEN m ELSE n)
  <1>1. \E x \in {m, n} : \A y \in {m, n} : x <= y
    OBVIOUS
  <1>2. \E x \in {m, n} : \A y \in {m, n} : x >= y
    OBVIOUS
  <1>3. Min({m, n}) \in {m, n} /\ \A y \in {m, n} : Min({m, n}) <= y
    BY <1>1 DEF Min
  <1>4. Max({m, n}) \in {m, n} /\ \A y \in {m, n} : Max({m, n}) >= y
    BY <1>2 DEF Max
  <1> QED BY <1>3, <1>4

LEMMA Constants ==
  /\ MaxLen \in Nat /\ LeadInLen \in Nat /\ Bits \in Nat \ {0} /\ Word \in Nat \ {0}
  /\ HeaderLen \in Nat /\ HeaderLen >= 4 /\ MBUF_SIZE \in Nat /\ MBUF_SIZE > 4
  /\ Positions \subseteq Nat /\ Commands \subseteq Protected \cup {"REW", "FFW"}
  /\ Kinds \subseteq {"LFS", "FAT"} /\ Word > MaxLen + MBUF_SIZE
  /\ Recordings \subseteq Cells /\ Junk \subseteq Cells
  /\ \A img \in Images : img \in Seq(Cells) /\ Len(img) <= MaxLen
BY TapeAssumption

(***************************************************************************)
(* The file, and what is known of it.                                      *)
(***************************************************************************)
Tapes ==
  /\ cells \in Seq(Cells) /\ Len(cells) <= MaxLen
  /\ saved \in Seq(Cells) /\ Len(saved) <= MaxLen
Counters ==
  /\ counter \in 0 .. MaxLen /\ size \in 0 .. MaxLen /\ pos \in 0 .. MaxLen
  /\ lead_in \in 0 .. LeadInLen /\ bit_counter \in 0 .. Bits - 1
Kept == recorded \subseteq 0 .. Len(cells) - 1
Placed == Mounted => counter <= pos /\ (~headed => counter = pos)
States ==
  /\ cmd \in Commands \cup {"none"} /\ stat \subseteq {"NOT_READY", "BUSY"}
  /\ tap_state \in Protected \cup {"IDLE", "READY"} /\ type \in Kinds \cup {"EMPTY"}
Booleans ==
  /\ dirty \in BOOLEAN /\ motor_on \in BOOLEAN /\ waits \in BOOLEAN /\ menu \in BOOLEAN /\ headed \in BOOLEAN
  /\ failed \in BOOLEAN
TapeSound == Tapes /\ Counters /\ Kept /\ Placed /\ States /\ Booleans

\* The bytes that were there stay.
Grown(s, t) == Len(s) <= Len(t) /\ \A i \in 1 .. Len(s) : t[i] = s[i]

LEMMA LongerGrows ==
  ASSUME NEW s \in Seq(Cells), NEW n \in Nat, n >= Len(s), NEW byte \in Cells
  PROVE  Longer(s, n, byte) \in Seq(Cells) /\ Len(Longer(s, n, byte)) = n /\ Grown(s, Longer(s, n, byte))
  <1> DEFINE t == Longer(s, n, byte)
  <1>1. t = [i \in 1 .. n |-> IF i <= Len(s) THEN s[i] ELSE byte]
    BY DEF Longer
  <1>2. \A i \in 1 .. n : (IF i <= Len(s) THEN s[i] ELSE byte) \in Cells
    OBVIOUS
  <1> HIDE DEF t
  <1>3. t \in [1 .. n -> Cells]
    BY <1>1, <1>2
  <1>4. t \in Seq(Cells) /\ Len(t) = n
    BY <1>1, <1>3
  <1>5. Grown(s, t)
    BY <1>1, <1>4 DEF Grown
  <1> QED BY <1>4, <1>5 DEF t

LEMMA SeekGrows ==
  ASSUME Tapes, NEW p \in 0 .. MaxLen, FileSeek(p)
  PROVE  cells' \in Seq(Cells) /\ Len(cells') <= MaxLen /\ Grown(cells, cells')
  <1>1. CASE type = "FAT" /\ p > Len(cells)
    <2>1. PICK byte \in Junk : cells' = Longer(cells, p, byte)
      BY <1>1 DEF FileSeek
    <2>2. byte \in Cells
      BY Constants
    <2>3. cells \in Seq(Cells) /\ p \in Nat /\ p >= Len(cells) /\ p <= MaxLen
      BY <1>1, Constants DEF Tapes
    <2> QED BY <2>1, <2>2, <2>3, LongerGrows
  <1>2. CASE ~(type = "FAT" /\ p > Len(cells))
    BY <1>2 DEF FileSeek, Tapes, Grown
  <1> QED BY <1>1, <1>2

LEMMA SeekSound ==
  ASSUME Tapes, Counters, NEW target \in Nat, NEW n \in Nat, tap_seek(target, n)
  PROVE  /\ cells' \in Seq(Cells) /\ Len(cells') <= MaxLen /\ Grown(cells, cells')
         /\ counter' \in 0 .. MaxLen /\ pos' \in 0 .. MaxLen /\ lead_in' \in 0 .. LeadInLen
         /\ counter' <= pos' /\ (n = 0 => counter' = pos')
         /\ counter' = SeekTarget(target)
  <1> DEFINE p == SeekTarget(target)
  <1>1. /\ p <= MaxLen /\ FileSeek(p) /\ counter' = p
        /\ pos' = Max({p, Min({p + n, Len(cells')})})
        /\ lead_in' = IF p = 0 THEN 0 ELSE lead_in
    BY DEF tap_seek
  <1>2. p \in Nat
    <2>1. Min({target, MaxLen}) \in Nat
      BY OfTwo, Constants
    <2>2. Len(cells) \in Nat
      BY DEF Tapes
    <2> QED BY <2>1, <2>2 DEF SeekTarget
  <1> HIDE DEF p
  <1>3. p \in 0 .. MaxLen
    BY <1>1, <1>2, Constants
  <1>4. cells' \in Seq(Cells) /\ Len(cells') <= MaxLen /\ Grown(cells, cells')
    BY <1>1, <1>3, SeekGrows
  <1>5. Len(cells') \in Nat
    BY <1>4
  <1>6. Min({p + n, Len(cells')}) = IF p + n <= Len(cells') THEN p + n ELSE Len(cells')
    BY <1>2, <1>5, OfTwo
  <1> DEFINE m == Min({p + n, Len(cells')})
  <1>7. m \in Nat /\ m <= MaxLen /\ (n = 0 => m <= p)
    BY <1>2, <1>4, <1>5, <1>6, Constants
  <1>8. pos' = IF p >= m THEN p ELSE m
    <2>1. pos' = Max({p, m})
      BY <1>1
    <2> HIDE DEF m
    <2> QED BY <1>2, <1>7, <2>1, OfTwo, SMTT(60)
  <1> HIDE DEF m
  <1>9. lead_in' \in 0 .. LeadInLen
    BY <1>1, Constants DEF Counters
  <1> QED BY <1>1, <1>3, <1>4, <1>7, <1>8, <1>9, Constants DEF p

\* What was recorded lies in what was there.
LEMMA KeptGrows ==
  ASSUME Kept, cells \in Seq(Cells), cells' \in Seq(Cells), Grown(cells, cells'), recorded' = recorded
  PROVE  Kept'
BY DEF Kept, Grown

(***************************************************************************)
(* Each step keeps what is known.                                          *)
(***************************************************************************)
LEMMA StatusBits ==
  ASSUME States, NEW bit \in {"NOT_READY", "BUSY"}, NEW val \in BOOLEAN
  PROVE  SetStatus(bit, val) \subseteq {"NOT_READY", "BUSY"}
BY DEF States, SetStatus

LEMMA LastByteIsANat == ASSUME Counters PROVE LastByte \in Nat
BY Constants DEF Counters, LastByte

LEMMA ReadSound ==
  ASSUME TapeSound, tap_read_byte
  PROVE  /\ cells' = cells /\ lead_in' \in 0 .. LeadInLen
         /\ counter' \in 0 .. MaxLen /\ pos' \in 0 .. MaxLen
         /\ (Mounted => counter' <= pos' /\ (~headed => counter' = pos'))
  <1>1. /\ lead_in \in Nat /\ lead_in <= LeadInLen /\ LeadInLen \in Nat /\ MaxLen \in Nat
        /\ counter \in Nat /\ counter <= MaxLen /\ pos \in Nat /\ pos <= MaxLen
        /\ Len(cells) \in Nat /\ Len(cells) <= MaxLen
    BY Constants DEF TapeSound, Counters, Tapes
  <1>2. Mounted => counter <= pos /\ (~headed => counter = pos)
    BY DEF TapeSound, Placed
  <1>3. cells' = cells /\ lead_in' \in 0 .. LeadInLen
    BY <1>1 DEF tap_read_byte, InLeadIn
  <1>4. CASE ~InLeadIn /\ CanRead
    <2>1. pos' = pos + 1 /\ counter' = counter + 1 /\ pos < Len(cells) /\ Mounted
      BY <1>4 DEF tap_read_byte, Counted, CanRead
    <2> QED BY <1>1, <1>2, <1>3, <2>1
  <1>5. CASE ~(~InLeadIn /\ CanRead)
    <2>1. pos' = pos /\ counter' = counter
      BY <1>5 DEF tap_read_byte, Counted
    <2> QED BY <1>1, <1>2, <1>3, <2>1
  <1> QED BY <1>4, <1>5

LEMMA SoundAtReads ==
  ASSUME TapeSound, Play \/ ReadBit
  PROVE  TapeSound'
  <1>1. /\ cells' = cells /\ lead_in' \in 0 .. LeadInLen
        /\ counter' \in 0 .. MaxLen /\ pos' \in 0 .. MaxLen
        /\ (Mounted => counter' <= pos' /\ (~headed => counter' = pos'))
    <2>1. CASE tap_read_byte
      BY <2>1, ReadSound
    <2>2. CASE UNCHANGED <<lead_in, counter, pos, cells>>
      BY <2>2 DEF TapeSound, Counters, Placed
    <2> QED BY <2>1, <2>2 DEF Play, ReadBit
  <1>2. UNCHANGED <<type, size, headed, saved, dirty, recorded, failed, waits, menu, motor_on>>
    BY DEF Play, ReadBit, deck, storage, host
  <1>3. stat' = SetStatus("BUSY", FALSE) /\ cmd' = "none" /\ tap_state' = "READY"
    BY DEF Play, ReadBit, Over
  <1>4. bit_counter' \in 0 .. Bits - 1
    <2>1. bit_counter \in Nat /\ bit_counter <= Bits - 1 /\ Bits \in Nat \ {0}
      BY Constants DEF TapeSound, Counters
    <2>2. bit_counter' = bit_counter \/ bit_counter' = IF bit_counter + 1 >= Bits THEN 0 ELSE bit_counter + 1
      BY DEF Play, ReadBit
    <2> QED BY <2>1, <2>2
  <1>5. States'
    <2>1. stat' \subseteq {"NOT_READY", "BUSY"}
      BY <1>3, StatusBits DEF TapeSound
    <2> QED BY <1>2, <1>3, <2>1 DEF TapeSound, States
  <1>6. Tapes' /\ Kept' /\ Booleans'
    BY <1>1, <1>2 DEF TapeSound, Tapes, Kept, Booleans
  <1>7. Counters'
    BY <1>1, <1>2, <1>4 DEF TapeSound, Counters
  <1>8. Placed'
    BY <1>1, <1>2 DEF Placed, Mounted
  <1> QED BY <1>5, <1>6, <1>7, <1>8 DEF TapeSound

\* One byte is recorded, and the file is as long as it has to be.
LEMMA WriteGrows ==
  ASSUME TapeSound, Mounted, pos < MaxLen, NEW byte \in Recordings, tap_write_byte(byte)
  PROVE  /\ cells' \in Seq(Cells) /\ Len(cells') <= MaxLen /\ Len(cells) <= Len(cells')
         /\ pos + 1 <= Len(cells')
  <1> DEFINE n == Max({Len(cells), pos + 1})
             s == Longer(cells, n, "data")
  <1>1. cells \in Seq(Cells) /\ Len(cells) <= MaxLen /\ pos \in Nat /\ Len(cells) \in Nat
    BY DEF TapeSound, Tapes, Counters
  <1>2. n = IF Len(cells) >= pos + 1 THEN Len(cells) ELSE pos + 1
    <2>1. Len(cells) \in Int /\ pos + 1 \in Int
      BY <1>1
    <2> QED BY <2>1, OfTwo
  <1>3. cells' = [s EXCEPT ![pos + 1] = byte]
    BY DEF tap_write_byte
  <1>4. n \in Nat /\ n >= Len(cells) /\ n >= pos + 1 /\ n <= MaxLen
    BY <1>1, <1>2, Constants
  <1>5. "data" \in Cells /\ byte \in Cells
    BY Constants DEF Cells
  <1> HIDE DEF n
  <1>6. s \in Seq(Cells) /\ Len(s) = n
    BY <1>1, <1>4, <1>5, LongerGrows
  <1> HIDE DEF s
  <1>7. cells' \in Seq(Cells) /\ Len(cells') = n
    <2>1. pos + 1 \in 1 .. Len(s)
      BY <1>1, <1>4, <1>6
    <2> QED BY <1>3, <1>5, <1>6, <2>1, ExceptSeq
  <1> QED BY <1>1, <1>4, <1>7

LEMMA SoundAtRecord ==
  ASSUME TapeSound, Record
  PROVE  TapeSound'
  <1>1. PICK byte \in Recordings : tap_write_byte(byte)
    BY DEF Record
  <1>2. UNCHANGED <<type, size, lead_in, bit_counter, headed, saved, failed, waits, menu, motor_on>>
    BY DEF Record, deck, reading, host
  <1>3. stat' = SetStatus("BUSY", FALSE) /\ cmd' = "none" /\ tap_state' = "READY"
    BY DEF Record, Over
  <1>4. States'
    <2>1. stat' \subseteq {"NOT_READY", "BUSY"}
      BY <1>3, StatusBits DEF TapeSound
    <2> QED BY <1>2, <1>3, <2>1 DEF TapeSound, States
  <1>5. CASE Mounted /\ pos < MaxLen
    <2>1. /\ counter' = counter + 1 /\ pos' = pos + 1
          /\ dirty' = TRUE /\ recorded' = recorded \cup {pos}
      BY <1>1, <1>5 DEF tap_write_byte, Dirty
    <2>2. /\ cells' \in Seq(Cells) /\ Len(cells') <= MaxLen /\ Len(cells) <= Len(cells')
          /\ pos + 1 <= Len(cells')
      BY <1>1, <1>5, WriteGrows
    <2>3. /\ counter \in Nat /\ pos \in Nat /\ counter <= pos /\ (~headed => counter = pos)
          /\ cells \in Seq(Cells) /\ recorded \subseteq 0 .. Len(cells) - 1
      BY <1>5 DEF TapeSound, Counters, Placed, Kept, Tapes
    <2>4. Kept'
      BY <2>1, <2>2, <2>3 DEF Kept
    <2>5. Tapes' /\ Booleans'
      BY <1>2, <2>1, <2>2 DEF TapeSound, Tapes, Booleans
    <2>6. Counters' /\ Placed'
      <3>1. counter' \in 0 .. MaxLen /\ pos' \in 0 .. MaxLen /\ counter' <= pos' /\ (~headed => counter' = pos')
        BY <1>5, <2>1, <2>3, Constants
      <3> QED BY <1>2, <3>1 DEF TapeSound, Counters, Placed
    <2> QED BY <1>4, <2>4, <2>5, <2>6 DEF TapeSound
  <1>6. CASE ~(Mounted /\ pos < MaxLen)
    <2>1. UNCHANGED <<cells, counter, pos, dirty, recorded>>
      BY <1>1, <1>6 DEF tap_write_byte
    <2> QED BY <1>2, <1>4, <2>1 DEF TapeSound, Tapes, Counters, Kept, Placed, Mounted, Booleans
  <1> QED BY <1>5, <1>6

LEMMA SoundAtIdle ==
  ASSUME TapeSound, Idle
  PROVE  TapeSound'
  <1>1. /\ UNCHANGED <<cells, stat, type, size, saved, dirty, recorded, failed, waits, menu, motor_on>>
        /\ tap_state' \in {"IDLE", "READY"}
    BY DEF Idle, Rewind, FastForward, deck, storage, host, file
  <1>2. cmd' \in Commands \cup {"none"}
    BY DEF Idle, Rewind, FastForward, TapeSound, States
  <1>3. States' /\ Tapes' /\ Kept'
    BY <1>1, <1>2 DEF TapeSound, States, Tapes, Kept
  <1>4. /\ MaxLen \in Nat /\ Len(cells) \in Nat /\ Len(cells) <= MaxLen
        /\ 0 \in 0 .. MaxLen /\ 0 \in 0 .. LeadInLen /\ 0 \in 0 .. Bits - 1
    BY Constants DEF TapeSound, Tapes
  <1>5. Counters' /\ Placed' /\ headed' \in BOOLEAN
    <2>1. CASE Rewind
      <3>1. pos' \in 0 .. MaxLen /\ (Mounted => pos' = 0)
        BY <1>4, <2>1 DEF Rewind, TapeSound, Counters
      <3>2. counter' = 0 /\ bit_counter' = 0 /\ lead_in' = 0 /\ headed' = FALSE
        BY <2>1 DEF Rewind
      <3>3. Mounted' => Mounted
        BY <1>1 DEF Mounted
      <3>4. Placed'
        BY <3>1, <3>2, <3>3 DEF Placed
      <3> QED BY <1>1, <1>4, <3>1, <3>2, <3>4 DEF TapeSound, Counters
    <2>2. CASE FastForward
      <3>1. UNCHANGED <<lead_in, bit_counter>>
        BY <2>2 DEF FastForward, reading
      <3>2. CASE Mounted
        <4>1. pos' = Len(cells) /\ counter' = Len(cells) /\ headed' = FALSE
          BY <2>2, <3>2 DEF FastForward
        <4>2. Placed'
          BY <1>4, <4>1 DEF Placed
        <4>3. pos' \in 0 .. MaxLen /\ counter' \in 0 .. MaxLen
          BY <1>4, <4>1
        <4> QED BY <1>1, <3>1, <4>1, <4>2, <4>3 DEF TapeSound, Counters
      <3>3. CASE ~Mounted
        <4>1. UNCHANGED <<pos, counter, headed>>
          BY <2>2, <3>3 DEF FastForward
        <4> QED BY <1>1, <3>1, <4>1 DEF TapeSound, Counters, Placed, Mounted, Booleans
      <3> QED BY <3>2, <3>3
    <2>3. CASE UNCHANGED <<file, reading>>
      BY <1>1, <2>3 DEF file, reading, TapeSound, Counters, Placed, Mounted, Booleans
    <2> QED BY <2>1, <2>2, <2>3 DEF Idle
  <1>6. Booleans'
    BY <1>1, <1>5 DEF TapeSound, Booleans
  <1> QED BY <1>3, <1>5, <1>6 DEF TapeSound

\* Commands that are taken, what is stored, and what the 6502 does.
LEMMA SoundAtOthers ==
  ASSUME TapeSound, Taken \/ MotorOff \/ Program \/ Menu
  PROVE  TapeSound'
  <1>1. UNCHANGED <<cells, pos, counter, headed, lead_in, bit_counter, type, size, recorded>>
    BY DEF Taken, MotorOff, Store, Program, Menu, Motor, Command, Done, file, reading, deck, storage
  <1>2. saved' = saved \/ saved' = cells
    BY DEF Taken, MotorOff, Store, Program, Menu, Motor, Command, Done, storage
  <1>3. Tapes' /\ Counters' /\ Kept' /\ Placed'
    BY <1>1, <1>2 DEF TapeSound, Tapes, Counters, Kept, Placed, Mounted
  <1>4. States'
    <2>1. stat' = stat \/ stat' = SetStatus("BUSY", TRUE)
      BY DEF Taken, MotorOff, Program, Menu, Motor, Command, Done, registers
    <2>2. stat' \subseteq {"NOT_READY", "BUSY"}
      BY <2>1, StatusBits DEF TapeSound, States
    <2>3. cmd' \in Commands \cup {"none"}
      BY DEF TapeSound, States, Taken, MotorOff, Program, Menu, Motor, Command, Done, registers
    <2>4. tap_state' \in Protected \cup {"IDLE", "READY"}
      BY DEF TapeSound, States, Taken, MotorOff, Program, Menu, Motor, Command, Done
    <2> QED BY <1>1, <2>2, <2>3, <2>4 DEF TapeSound, States
  <1>5. Booleans'
    <2>1. dirty' \in BOOLEAN /\ headed' \in BOOLEAN /\ failed' \in BOOLEAN
      BY <1>1 DEF TapeSound, Booleans, Taken, MotorOff, Store, Program, Menu, Motor, Command, Done, storage
    <2>2. motor_on' \in BOOLEAN /\ waits' \in BOOLEAN /\ menu' \in BOOLEAN
      BY Zenon DEF TapeSound, Booleans, Taken, MotorOff, Program, Menu, Motor, Command, Done, host
    <2> QED BY <2>1, <2>2 DEF Booleans
  <1> QED BY <1>3, <1>4, <1>5 DEF TapeSound

(***************************************************************************)
(* Blocks of a search.                                                     *)
(***************************************************************************)
LEMMA Steps ==
  /\ BlockStep \in Nat \ {0} /\ MBUF_SIZE = BlockStep + 4
  /\ \A k \in Nat : /\ k * BlockStep \in Nat /\ k <= k * BlockStep
                    /\ (k + 1) * BlockStep = k * BlockStep + BlockStep
  /\ 0 * BlockStep = 0
  <1>1. BlockStep \in Nat \ {0} /\ MBUF_SIZE = BlockStep + 4
    BY Constants DEF BlockStep
  <1> DEFINE b == BlockStep
  <1> HIDE DEF b
  <1>2. b \in Nat \ {0}
    BY <1>1 DEF b
  <1>3. ASSUME NEW k \in Nat
        PROVE  k * b \in Nat /\ k <= k * b /\ (k + 1) * b = k * b + b
    BY <1>2
  <1>4. 0 * b = 0
    BY <1>2
  <1> QED BY <1>1, <1>3, <1>4 DEF b

LEMMA Rooms ==
  ASSUME Tapes, Counters, NEW k \in Nat
  PROVE  /\ At(k) \in Nat
         /\ Room(k) = IF Len(cells) <= At(k) THEN 0
                      ELSE IF MBUF_SIZE <= Len(cells) - At(k) THEN MBUF_SIZE ELSE Len(cells) - At(k)
         /\ Room(k) \in Nat /\ Room(k) <= MBUF_SIZE
  <1> DEFINE a == At(k)
             rest == Min({MBUF_SIZE, Len(cells) - a})
  <1>1. Len(cells) \in Nat /\ MBUF_SIZE \in Nat /\ MBUF_SIZE > 4
    BY Constants DEF Tapes
  <1>2. a \in Nat
    BY Steps DEF At, Counters
  <1> HIDE DEF a
  <1>3. rest = IF MBUF_SIZE <= Len(cells) - a THEN MBUF_SIZE ELSE Len(cells) - a
    <2>1. MBUF_SIZE \in Int /\ Len(cells) - a \in Int
      BY <1>1, <1>2
    <2> QED BY <2>1, OfTwo
  <1>4. rest \in Int
    BY <1>1, <1>2, <1>3
  <1>5. Room(k) = Max({0, rest})
    BY DEF Room, a
  <1> HIDE DEF rest
  <1>6. Room(k) = IF 0 >= rest THEN 0 ELSE rest
    BY <1>4, <1>5, OfTwo
  <1>7. Room(k) = IF Len(cells) <= a THEN 0
                  ELSE IF MBUF_SIZE <= Len(cells) - a THEN MBUF_SIZE ELSE Len(cells) - a
    BY <1>1, <1>2, <1>3, <1>6
  <1>8. Room(k) \in Nat /\ Room(k) <= MBUF_SIZE
    BY <1>1, <1>2, <1>7
  <1> QED BY <1>2, <1>7, <1>8 DEF a

\* The file ends before the blocks do.
LastOf == Min({k \in 0 .. MaxLen : Ends(k)})

LEMMA SearchEnds ==
  ASSUME Tapes, Counters
  PROVE  /\ LastOf \in 0 .. MaxLen /\ Ends(LastOf)
         /\ \A k \in Nat : k < LastOf => ~Ends(k)
  <1> DEFINE S == {k \in 0 .. MaxLen : Ends(k)}
  <1>1. MaxLen \in Nat /\ Len(cells) \in Nat /\ Len(cells) <= MaxLen /\ counter \in Nat /\ pos \in Nat
    BY Constants DEF Tapes, Counters
  <1>2. S # {}
    <2>1. CASE MaxLen = 0
      <3>1. At(0) >= Len(cells)
        BY <1>1, <2>1 DEF At
      <3>2. Room(0) = 0
        BY <3>1, <1>1, Rooms
      <3>3. Ends(0)
        BY <3>2, Constants DEF Ends
      <3> QED BY <2>1, <3>3
    <2>2. CASE MaxLen # 0
      <3>1. At(MaxLen) = counter + MaxLen * BlockStep
        BY <2>2 DEF At
      <3>2. MaxLen * BlockStep \in Nat /\ MaxLen <= MaxLen * BlockStep
        BY <1>1, Steps
      <3>3. At(MaxLen) >= Len(cells)
        BY <1>1, <3>1, <3>2
      <3>4. Room(MaxLen) = 0
        <4>1. At(MaxLen) \in Nat
          BY <1>1, Rooms
        <4> QED BY <1>1, <3>3, <4>1, Rooms
      <3>5. Ends(MaxLen)
        BY <3>4, Constants DEF Ends
      <3> QED BY <1>1, <3>5
    <2> QED BY <2>1, <2>2
  <1>3. S \in SUBSET Nat
    OBVIOUS
  <1>4. LastOf = Min(S)
    BY DEF LastOf
  <1> HIDE DEF S
  <1>5. LastOf \in S /\ \A n \in S : LastOf <= n
    BY <1>2, <1>3, <1>4, LeastOfNats
  <1>6. ASSUME NEW k \in Nat, k < LastOf PROVE ~Ends(k)
    <2>1. LastOf \in 0 .. MaxLen
      BY <1>5 DEF S
    <2>2. k \in 0 .. MaxLen
      BY <1>1, <1>6, <2>1
    <2>3. k \notin S
      BY <1>5, <1>6, <2>1, <2>2
    <2> QED BY <2>2, <2>3 DEF S
  <1> QED BY <1>5, <1>6 DEF S

LEMMA MarksAreNats ==
  ASSUME Tapes, Counters, NEW k \in Nat
  PROVE  MarksIn(k) \in SUBSET Nat
BY Rooms, Steps DEF MarksIn

\* What a search does, in terms of a seek.
LEMMA SearchSeeks ==
  ASSUME Tapes, Counters, Search
  PROVE  LET start == counter + LastOf * BlockStep
         IN /\ start \in Nat
            /\ \/ \E i \in MarksIn(LastOf) :
                    /\ i \in Nat /\ start + i + 4 \in Nat
                    /\ Room(LastOf) < 4 \/ i = Min(MarksIn(LastOf))
                    /\ tap_seek(start + i + 4, HeaderLen) /\ headed' = TRUE
               \/ /\ MarksIn(LastOf) = {} /\ start + BlockStep \in Nat
                  /\ tap_seek(start + BlockStep, 0) /\ headed' = FALSE
  <1> DEFINE start == counter + LastOf * BlockStep
  <1>1. \/ \E i \in MarksIn(LastOf) :
             /\ Room(LastOf) < 4 \/ i = Min(MarksIn(LastOf))
             /\ tap_seek(start + i + 4, HeaderLen)
             /\ headed' = TRUE
        \/ /\ MarksIn(LastOf) = {}
           /\ tap_seek(start + BlockStep, 0)
           /\ headed' = FALSE
    BY DEF Search, LastOf
  <1>2. LastOf \in Nat
    BY SearchEnds, Constants
  <1>3. start \in Nat /\ start + BlockStep \in Nat
    <2>1. LastOf * BlockStep \in Nat /\ BlockStep \in Nat
      BY <1>2, Steps
    <2> QED BY <2>1 DEF Counters
  <1>4. MarksIn(LastOf) \in SUBSET Nat
    BY <1>2, MarksAreNats
  <1> HIDE DEF start
  <1>5. \A i \in MarksIn(LastOf) : i \in Nat /\ start + i + 4 \in Nat
    BY <1>3, <1>4
  <1> QED BY <1>1, <1>3, <1>5 DEF start

\* The tape is moved: to where a program wants it, or to the next header.
LEMMA SoundAtSeeks ==
  ASSUME TapeSound, NEW target \in Nat, NEW n \in Nat, tap_seek(target, n),
         n = 0 \/ headed' = TRUE, headed' \in BOOLEAN,
         UNCHANGED <<registers, tap_state, bit_counter, deck, storage, host>>
  PROVE  TapeSound' /\ Grown(cells, cells') /\ counter' = SeekTarget(target)
  <1>1. /\ cells' \in Seq(Cells) /\ Len(cells') <= MaxLen /\ Grown(cells, cells')
        /\ counter' \in 0 .. MaxLen /\ pos' \in 0 .. MaxLen /\ lead_in' \in 0 .. LeadInLen
        /\ counter' <= pos' /\ (n = 0 => counter' = pos')
        /\ counter' = SeekTarget(target)
    BY SeekSound DEF TapeSound
  <1>2. Tapes'
    BY <1>1 DEF TapeSound, Tapes, storage
  <1>3. Counters'
    BY <1>1 DEF TapeSound, Counters, deck
  <1>4. Kept'
    BY <1>1, KeptGrows DEF TapeSound, Tapes, storage
  <1>5. Placed'
    BY <1>1 DEF Placed
  <1>6. States'
    BY DEF TapeSound, States, registers, deck
  <1>7. Booleans'
    BY DEF TapeSound, Booleans, storage, host
  <1> QED BY <1>1, <1>2, <1>3, <1>4, <1>5, <1>6, <1>7 DEF TapeSound

LEMMA SoundAtSearch ==
  ASSUME TapeSound, Search
  PROVE  TapeSound' /\ Grown(cells, cells')
  <1>1. UNCHANGED <<registers, tap_state, bit_counter, deck, storage, host>>
    BY DEF Search
  <1>2. 0 \in Nat /\ HeaderLen \in Nat
    BY Constants
  <1> DEFINE start == counter + LastOf * BlockStep
  <1>3. \/ \E i \in MarksIn(LastOf) :
             /\ start + i + 4 \in Nat
             /\ tap_seek(start + i + 4, HeaderLen) /\ headed' = TRUE
        \/ /\ start + BlockStep \in Nat
           /\ tap_seek(start + BlockStep, 0) /\ headed' = FALSE
    BY SearchSeeks DEF TapeSound
  <1> HIDE DEF start
  <1>4. CASE \E i \in MarksIn(LastOf) :
               start + i + 4 \in Nat /\ tap_seek(start + i + 4, HeaderLen) /\ headed' = TRUE
    <2>1. PICK target : target \in Nat /\ tap_seek(target, HeaderLen) /\ headed' = TRUE
      BY <1>4
    <2>2. headed' \in BOOLEAN
      BY <2>1
    <2> QED BY <1>1, <1>2, <2>1, <2>2, SoundAtSeeks
  <1>5. CASE start + BlockStep \in Nat /\ tap_seek(start + BlockStep, 0) /\ headed' = FALSE
    <2>1. headed' \in BOOLEAN
      BY <1>5
    <2> QED BY <1>1, <1>2, <1>5, <2>1, SoundAtSeeks
  <1> QED BY <1>3, <1>4, <1>5

LEMMA SoundAtApiSeek ==
  ASSUME TapeSound, NEW p \in Positions, tap_api_seek(p)
  PROVE  TapeSound' /\ Grown(cells, cells')
  <1> DEFINE target == IF p >= size THEN LastByte ELSE p
  <1>1. target \in Nat
    BY LastByteIsANat, Constants DEF TapeSound
  <1>2. /\ tap_seek(target, 0) /\ headed' = FALSE
        /\ UNCHANGED <<registers, tap_state, bit_counter, deck, storage, host>>
    BY DEF tap_api_seek
  <1> HIDE DEF target
  <1>3. 0 \in Nat /\ headed' \in BOOLEAN
    BY <1>2
  <1> QED BY <1>1, <1>2, <1>3, SoundAtSeeks

LEMMA SoundAtEmpty ==
  ASSUME TapeSound, Empty, stat' = SetStatus("NOT_READY", TRUE), UNCHANGED <<size, cells, pos>>,
         saved' = saved \/ saved' = cells, recorded' \subseteq recorded, failed' \in BOOLEAN
  PROVE  TapeSound'
  <1>1. /\ type' = "EMPTY" /\ counter' = 0 /\ bit_counter' = 0 /\ lead_in' = 0 /\ dirty' = FALSE
        /\ headed' = FALSE /\ UNCHANGED <<cmd, tap_state, waits, menu, motor_on>>
    BY DEF Empty, host
  <1>2. 0 \in 0 .. MaxLen /\ 0 \in 0 .. LeadInLen /\ 0 \in 0 .. Bits - 1
    BY Constants
  <1>3. stat' \subseteq {"NOT_READY", "BUSY"}
    BY StatusBits DEF TapeSound
  <1>4. Tapes' /\ Kept'
    BY DEF TapeSound, Tapes, Kept
  <1>5. Counters' /\ Placed'
    BY <1>1, <1>2 DEF TapeSound, Counters, Placed, Mounted
  <1>6. States'
    BY <1>1, <1>3 DEF TapeSound, States
  <1>7. Booleans'
    BY <1>1 DEF TapeSound, Booleans
  <1> QED BY <1>4, <1>5, <1>6, <1>7 DEF TapeSound

LEMMA SoundAtOpen ==
  ASSUME TapeSound, NEW kind \in Kinds, NEW img \in Seq(Cells), Len(img) <= MaxLen, Open(kind, img),
         lead_in' \in 0 .. LeadInLen, dirty' \in BOOLEAN, headed' \in BOOLEAN,
         UNCHANGED <<cmd, tap_state, host>>, recorded' \subseteq 0 .. Len(img) - 1
  PROVE  TapeSound'
  <1>1. /\ type' = kind /\ cells' = img /\ saved' = img /\ pos' = 0 /\ size' = Len(img)
        /\ counter' = 0 /\ bit_counter' = 0 /\ stat' = SetStatus("NOT_READY", FALSE)
        /\ failed' = FALSE
    BY DEF Open
  <1>2. 0 \in 0 .. MaxLen /\ 0 \in 0 .. Bits - 1 /\ Len(img) \in 0 .. MaxLen
    BY Constants
  <1>3. stat' \subseteq {"NOT_READY", "BUSY"}
    BY <1>1, StatusBits DEF TapeSound
  <1>4. Tapes' /\ Kept'
    BY <1>1 DEF Tapes, Kept
  <1>5. Counters' /\ Placed'
    BY <1>1, <1>2 DEF Counters, Placed
  <1>6. States'
    BY <1>1, <1>3 DEF TapeSound, States
  <1>7. Booleans'
    BY <1>1 DEF TapeSound, Booleans, host
  <1> QED BY <1>4, <1>5, <1>6, <1>7 DEF TapeSound

LEMMA SoundAtMounts ==
  ASSUME TapeSound, Remount \/ tap_umount \/ \E kind \in Kinds, img \in Images : tap_mount(kind, img)
  PROVE  TapeSound'
  <1>1. CASE tap_umount
    <2>1. (saved' = saved \/ saved' = cells) /\ failed' \in BOOLEAN
      BY <1>1 DEF tap_umount, Store, TapeSound, Booleans
    <2> QED BY <1>1, <2>1, SoundAtEmpty DEF tap_umount
  <1>2. CASE \E kind \in Kinds, img \in Images : tap_mount(kind, img)
    <2>1. PICK kind \in Kinds, img \in Images : tap_mount(kind, img)
      BY <1>2
    <2>2. img \in Seq(Cells) /\ Len(img) <= MaxLen
      BY Constants
    <2>3. /\ Open(kind, img) /\ UNCHANGED <<cmd, tap_state, host>> /\ recorded' \subseteq 0 .. Len(img) - 1
          /\ lead_in' = lead_in /\ dirty' = dirty /\ headed' = headed
      BY <2>1 DEF tap_mount
    <2>4. lead_in' \in 0 .. LeadInLen /\ dirty' \in BOOLEAN /\ headed' \in BOOLEAN
      BY <2>3 DEF TapeSound, Counters, Booleans
    <2> QED BY <2>2, <2>3, <2>4, SoundAtOpen
  <1>3. CASE Remount
    <2>1. type = "FAT" /\ recorded' = {p \in recorded : Stored(p)}
      BY <1>3 DEF Remount
    <2>2. CASE Empty /\ stat' = SetStatus("NOT_READY", TRUE) /\ UNCHANGED <<size, cells, pos, saved, failed>>
      <3>1. recorded' \subseteq recorded /\ failed' \in BOOLEAN
        BY <2>1, <2>2 DEF TapeSound, Booleans
      <3> QED BY <2>2, <3>1, SoundAtEmpty
    <2>3. CASE /\ Open("FAT", saved)
               /\ lead_in' = 0 /\ dirty' = FALSE /\ headed' = FALSE
               /\ UNCHANGED <<cmd, tap_state, host>>
      <3>1. "FAT" \in Kinds
        BY <2>1 DEF TapeSound, States
      <3>2. saved \in Seq(Cells) /\ Len(saved) <= MaxLen
        BY DEF TapeSound, Tapes
      <3>3. recorded' \subseteq 0 .. Len(saved) - 1
        <4>1. Len(saved) \in Nat /\ recorded \subseteq 0 .. Len(cells) - 1
          BY <3>2 DEF TapeSound, Kept
        <4>2. ASSUME NEW p \in recorded, Stored(p) PROVE p \in 0 .. Len(saved) - 1
          BY <4>1, <4>2 DEF Stored
        <4> QED BY <2>1, <4>2
      <3>4. lead_in' \in 0 .. LeadInLen
        BY <2>3, Constants
      <3>5. dirty' \in BOOLEAN /\ headed' \in BOOLEAN
        BY <2>3
      <3> QED BY <2>3, <3>1, <3>2, <3>3, <3>4, <3>5, SoundAtOpen
    <2> QED BY <1>3, <2>2, <2>3 DEF Remount
  <1> QED BY <1>1, <1>2, <1>3

LEMMA SoundStep ==
  ASSUME TapeSound, [Next]_vars
  PROVE  TapeSound'
  <1>1. CASE UNCHANGED vars
    BY <1>1 DEF vars, registers, reading, deck, file, storage, host, TapeSound, Tapes, Counters,
                Kept, Placed, Mounted, States, Booleans
  <1> QED BY <1>1, SoundAtReads, SoundAtRecord, SoundAtIdle, SoundAtOthers, SoundAtSearch,
             SoundAtApiSeek, SoundAtMounts DEF Next, tap_task, Call

LEMMA SoundAtFirst ==
  ASSUME Init
  PROVE  TapeSound
  <1>1. <<>> \in Seq(Cells) /\ Len(<<>>) = 0
    OBVIOUS
  <1>2. 0 \in 0 .. MaxLen /\ 0 \in 0 .. LeadInLen /\ 0 \in 0 .. Bits - 1
    BY Constants
  <1>3. Tapes
    BY <1>1, Constants DEF Init, Tapes
  <1>4. Counters
    BY <1>2 DEF Init, Counters
  <1>5. Kept
    <2>1. recorded = {}
      BY DEF Init
    <2> QED BY <2>1 DEF Kept
  <1>6. Placed /\ States
    BY DEF Init, Placed, Mounted, States
  <1>7. Booleans
    BY DEF Init, Booleans
  <1> QED BY <1>3, <1>4, <1>5, <1>6, <1>7 DEF TapeSound

(***************************************************************************)
(* Every variable keeps its type, and what tap_api_tell() answers is where *)
(* the next byte is read or recorded, except behind a header that has just *)
(* been read (tap.c:382-384).                                     *)
(***************************************************************************)
THEOREM TypeCorrect == Spec => []TypeOK
  <1>1. Init => TapeSound
    BY SoundAtFirst
  <1>2. TapeSound /\ [Next]_vars => TapeSound'
    BY SoundStep
  <1>3. TapeSound => TypeOK
    <2> SUFFICES ASSUME TapeSound PROVE TypeOK
      OBVIOUS
    <2>1. TellsThePlace
      BY DEF TapeSound, Placed, TellsThePlace
    <2>2. recorded \subseteq 0 .. MaxLen - 1
      <3>1. Len(cells) \in Nat /\ Len(cells) <= MaxLen /\ MaxLen \in Nat
        BY Constants DEF TapeSound, Tapes
      <3> QED BY <3>1 DEF TapeSound, Kept
    <2>3. {dirty, motor_on, waits, menu, headed, failed} \subseteq BOOLEAN
      BY Zenon DEF TapeSound, Booleans
    <2>4. /\ {counter, size, pos} \subseteq 0 .. MaxLen
          /\ lead_in \in 0 .. LeadInLen /\ bit_counter \in 0 .. Bits - 1
      BY DEF TapeSound, Counters
    <2>5. {cells, saved} \subseteq Seq(Cells)
      BY DEF TapeSound, Tapes
    <2>6. /\ cmd \in Commands \cup {"none"}
          /\ stat \subseteq {"NOT_READY", "BUSY"} /\ tap_state \in Protected \cup {"IDLE", "READY"}
          /\ type \in Kinds \cup {"EMPTY"}
      BY DEF TapeSound, States
    <2> QED BY <2>1, <2>2, <2>3, <2>4, <2>5, <2>6 DEF TypeOK
  <1> QED BY <1>1, <1>2, <1>3, PTL DEF Spec

(***************************************************************************)
(* Recordings.  What was recorded is stored, or there is a tape that       *)
(* `dirty' says of that it is not, or the last attempt to store it failed; *)
(* and the deck does not stand still while a tape is dirty.                *)
(***************************************************************************)
AllStored == \A p \in recorded : Stored(p)
Safe ==
  (AllStored \/ failed = TRUE \/ (Mounted /\ dirty = TRUE)) /\ (tap_state = "IDLE" => dirty = FALSE)

LEMMA StoredAsItIs ==
  ASSUME Tapes, Kept, saved' = cells, cells' = cells, recorded' = recorded
  PROVE  AllStored'
  <1>1. Len(cells) \in Nat
    BY DEF Tapes
  <1>2. ASSUME NEW p \in recorded PROVE p < Len(cells)
    BY <1>1 DEF Kept
  <1> QED BY <1>2 DEF AllStored, Stored

LEMMA StoredOrNot ==
  ASSUME TapeSound, Store, cells' = cells, recorded' = recorded
  PROVE  AllStored' \/ failed' = TRUE
  <1>1. CASE failed' = TRUE
    BY <1>1
  <1>2. CASE saved' = cells
    BY <1>2, StoredAsItIs DEF TapeSound
  <1> QED BY <1>1, <1>2 DEF Store

LEMMA StoredStays ==
  ASSUME Tapes, Kept, Grown(cells, cells'), saved' = saved, recorded' \subseteq recorded, AllStored
  PROVE  AllStored'
  <1>1. Len(cells) \in Nat
    BY DEF Tapes
  <1>2. ASSUME NEW p \in recorded' PROVE Stored(p)'
    <2>1. p + 1 \in 1 .. Len(cells)
      BY <1>1 DEF Kept
    <2>2. cells'[p + 1] = cells[p + 1]
      BY <2>1 DEF Grown
    <2> QED BY <2>2 DEF AllStored, Stored
  <1> QED BY <1>2 DEF AllStored

LEMMA GrownByNone == ASSUME Tapes, cells' = cells PROVE Grown(cells, cells')
BY DEF Tapes, Grown

LEMMA SafeAtSeeks ==
  ASSUME TapeSound, Safe, Search \/ \E p \in Positions : tap_api_seek(p)
  PROVE  Safe'
  <1>1. Grown(cells, cells')
    BY SoundAtSearch, SoundAtApiSeek
  <1>2. UNCHANGED <<tap_state, type, saved, dirty, recorded, failed>>
    BY DEF Search, tap_api_seek, deck, storage
  <1>3. AllStored => AllStored'
    BY <1>1, <1>2, StoredStays DEF TapeSound
  <1> QED BY <1>2, <1>3 DEF Safe, Mounted

LEMMA SafeAtTask ==
  ASSUME TapeSound, Safe, tap_task
  PROVE  Safe'
  <1>1. CASE Idle \/ Taken \/ Play \/ ReadBit
    <2>1. /\ UNCHANGED <<cells, type, saved, dirty, recorded, failed>>
          /\ tap_state' = "IDLE" => tap_state = "IDLE"
      <3>1. (Play \/ ReadBit) => cells' = cells
        BY ReadSound DEF Play, ReadBit
      <3> QED BY <1>1, <3>1 DEF Idle, Rewind, FastForward, Taken, Play, ReadBit, Over, deck, storage, file,
                                Protected
    <2>2. AllStored => AllStored'
      BY <2>1, StoredStays, GrownByNone DEF TapeSound
    <2> QED BY <2>1, <2>2 DEF Safe, Mounted
  <1>2. CASE MotorOff
    <2>1. /\ tap_state' = "IDLE" /\ dirty' = FALSE /\ UNCHANGED <<cells, recorded>>
          /\ IF dirty /\ Mounted THEN Store ELSE UNCHANGED <<saved, failed>>
      BY <1>2 DEF MotorOff, file
    <2>2. CASE dirty /\ Mounted
      BY <2>1, <2>2, StoredOrNot DEF Safe
    <2>3. CASE ~(dirty /\ Mounted)
      <3>1. (AllStored \/ failed = TRUE) /\ UNCHANGED <<saved, failed>>
        BY <2>1, <2>3 DEF Safe
      <3>2. AllStored' \/ failed' = TRUE
        BY <2>1, <3>1, StoredStays, GrownByNone DEF TapeSound
      <3> QED BY <2>1, <3>2 DEF Safe
    <2> QED BY <2>2, <2>3
  <1>3. CASE Record
    <2>1. PICK byte \in Recordings : tap_write_byte(byte)
      BY <1>3 DEF Record
    <2>2. UNCHANGED <<type, saved, failed>> /\ tap_state' = "READY"
      BY <1>3 DEF Record, Over, deck
    <2>3. CASE Mounted /\ pos < MaxLen
      <3>1. dirty' = TRUE /\ Mounted'
        BY <2>1, <2>2, <2>3 DEF tap_write_byte, Dirty, Mounted
      <3> QED BY <2>2, <3>1 DEF Safe
    <2>4. CASE ~(Mounted /\ pos < MaxLen)
      <3>1. UNCHANGED <<cells, dirty, recorded>>
        BY <2>1, <2>4 DEF tap_write_byte
      <3>2. AllStored => AllStored'
        BY <2>2, <3>1, StoredStays, GrownByNone DEF TapeSound
      <3> QED BY <2>2, <3>1, <3>2 DEF Safe, Mounted
    <2> QED BY <2>3, <2>4
  <1> QED BY <1>1, <1>2, <1>3 DEF tap_task

LEMMA SafeAtMounts ==
  ASSUME TapeSound, Safe, Remount \/ tap_umount \/ \E kind \in Kinds, img \in Images : tap_mount(kind, img)
  PROVE  Safe'
  <1>1. CASE tap_umount
    <2>1. /\ dirty' = FALSE /\ UNCHANGED <<cells, recorded>>
          /\ IF Mounted THEN Store ELSE UNCHANGED <<saved, failed>>
      BY <1>1 DEF tap_umount, Empty
    <2>2. CASE Mounted
      BY <2>1, <2>2, StoredOrNot DEF Safe
    <2>3. CASE ~Mounted
      <3>1. AllStored' \/ failed' = TRUE
        BY <2>1, <2>3, StoredStays, GrownByNone DEF TapeSound, Safe
      <3> QED BY <2>1, <3>1 DEF Safe
    <2> QED BY <2>2, <2>3
  <1>2. CASE \E kind \in Kinds, img \in Images : tap_mount(kind, img)
    <2>1. recorded' = {} /\ dirty' = dirty /\ tap_state' = tap_state
      BY <1>2 DEF tap_mount
    <2>2. AllStored'
      BY <2>1 DEF AllStored
    <2> QED BY <2>1, <2>2 DEF Safe
  <1>3. CASE Remount
    <2>1. dirty' = FALSE /\ recorded' = {p \in recorded : Stored(p)}
      BY <1>3 DEF Remount, Empty
    <2>2. CASE UNCHANGED <<cells, saved>>
      BY <2>1, <2>2 DEF Safe, AllStored, Stored
    <2>3. CASE cells' = saved /\ saved' = saved
      BY <2>1, <2>3 DEF Safe, AllStored, Stored
    <2> QED BY <1>3, <2>2, <2>3 DEF Remount, Open
  <1> QED BY <1>1, <1>2, <1>3

LEMMA SafeStep ==
  ASSUME TapeSound, Safe, [Next]_vars
  PROVE  Safe'
  <1>1. CASE Program \/ Menu \/ UNCHANGED vars
    <2>1. UNCHANGED <<cells, type, saved, dirty, recorded, failed, tap_state>>
      BY <1>1 DEF Program, Motor, Command, Done, Menu, vars, deck, storage, file
    <2> QED BY <2>1 DEF Safe, AllStored, Stored, Mounted
  <1> QED BY <1>1, SafeAtSeeks, SafeAtTask, SafeAtMounts DEF Next, Call

(***************************************************************************)
(* When the deck stands still, and when the tape has been taken out, what  *)
(* was recorded on it is in storage, though it is stored in a later pass   *)
(* and a stick may go and come back before, unless the last attempt to     *)
(* store it has failed, which the code does not look at (tap.c:312-327).   *)
(***************************************************************************)
THEOREM RecordingsKept == Spec => []RecordedIsSafe
  <1>1. Init => TapeSound /\ Safe
    <2>1. Init => AllStored /\ dirty = FALSE
      BY DEF Init, AllStored
    <2> QED BY <2>1, SoundAtFirst DEF Safe
  <1>2. TapeSound /\ Safe /\ [Next]_vars => TapeSound' /\ Safe'
    BY SoundStep, SafeStep
  <1>3. Safe => RecordedIsSafe
    BY DEF Safe, AllStored, RecordedIsSafe
  <1> QED BY <1>1, <1>2, <1>3, PTL DEF Spec

(***************************************************************************)
(* Searches, on images that are no shorter than a header.  A drive's size  *)
(* is the file's at its mount, which may have grown.                       *)
(***************************************************************************)
NoStub == \A img \in Images : Len(img) >= HeaderLen
Sized == Mounted => HeaderLen <= size /\ size <= Len(cells) /\ HeaderLen <= Len(saved)

LEMMA SizedStep ==
  ASSUME NoStub, TapeSound, Sized, [Next]_vars
  PROVE  Sized'
  <1>1. HeaderLen \in Nat /\ size \in Nat /\ Len(cells) \in Nat /\ Len(saved) \in Nat
    BY Constants DEF TapeSound, Tapes, Counters
  <1>2. CASE UNCHANGED <<type, size, cells, saved>>
    BY <1>2 DEF Sized, Mounted
  <1>3. CASE UNCHANGED <<type, size, saved>> /\ Len(cells) <= Len(cells') /\ cells' \in Seq(Cells)
    <2>1. Len(cells') \in Nat
      BY <1>3
    <2> QED BY <1>1, <1>3, <2>1 DEF Sized, Mounted
  <1>4. CASE UNCHANGED <<type, size, cells>> /\ saved' = cells
    BY <1>1, <1>4 DEF Sized, Mounted
  <1>5. CASE type' = "EMPTY"
    BY <1>5 DEF Sized, Mounted
  <1>6. ASSUME NEW img \in Seq(Cells), Len(img) >= HeaderLen, cells' = img, saved' = img, size' = Len(img)
        PROVE  Sized'
    <2>1. Len(img) \in Nat
      OBVIOUS
    <2> QED BY <1>1, <1>6, <2>1 DEF Sized
  <1>7. TapeSound'
    BY SoundStep
  <1>8. tap_task => Sized'
    <2>1. Play \/ ReadBit => UNCHANGED <<type, size, cells, saved>>
      BY ReadSound DEF Play, ReadBit, deck, storage
    <2>2. Idle \/ Taken => UNCHANGED <<type, size, cells, saved>>
      BY DEF Idle, Rewind, FastForward, Taken, file, deck, storage
    <2>3. MotorOff => UNCHANGED <<type, size, cells>> /\ (saved' = cells \/ saved' = saved)
      BY DEF MotorOff, Store, file, deck
    <2>4. ASSUME Record PROVE Sized'
      <3>1. PICK byte \in Recordings : tap_write_byte(byte)
        BY <2>4 DEF Record
      <3>2. UNCHANGED <<type, size, saved>>
        BY <2>4 DEF Record, deck
      <3>3. CASE Mounted /\ pos < MaxLen
        BY <1>3, <3>1, <3>2, <3>3, WriteGrows
      <3>4. CASE ~(Mounted /\ pos < MaxLen)
        BY <1>2, <3>1, <3>2, <3>4 DEF tap_write_byte
      <3> QED BY <3>3, <3>4
    <2> QED BY <1>2, <1>4, <2>1, <2>2, <2>3, <2>4 DEF tap_task
  <1>9. Search \/ (\E p \in Positions : tap_api_seek(p)) => Sized'
    <2>1. Search \/ (\E p \in Positions : tap_api_seek(p)) => UNCHANGED <<type, size, saved>>
      BY DEF Search, tap_api_seek, deck, storage
    <2>2. Search \/ (\E p \in Positions : tap_api_seek(p)) => Grown(cells, cells')
      BY SoundAtSearch, SoundAtApiSeek
    <2>3. cells' \in Seq(Cells)
      BY <1>7 DEF TapeSound, Tapes
    <2> QED BY <1>3, <2>1, <2>2, <2>3 DEF Grown
  <1>10. tap_umount => Sized'
    BY <1>5 DEF tap_umount, Empty
  <1>11. ASSUME NEW kind \in Kinds, NEW img \in Images, tap_mount(kind, img) PROVE Sized'
    <2>1. img \in Seq(Cells) /\ Len(img) >= HeaderLen
      BY Constants DEF NoStub
    <2> QED BY <1>6, <1>11, <2>1 DEF tap_mount, Open
  <1>12. ASSUME Remount PROVE Sized'
    <2>1. type = "FAT"
      BY <1>12 DEF Remount
    <2>2. saved \in Seq(Cells) /\ Len(saved) >= HeaderLen
      BY <1>1, <2>1 DEF Sized, Mounted, TapeSound, Tapes
    <2> QED BY <1>5, <1>6, <1>12, <2>2 DEF Remount, Open, Empty
  <1>13. Program \/ Menu \/ UNCHANGED vars => UNCHANGED <<type, size, cells, saved>>
    BY DEF Program, Motor, Command, Done, Menu, vars, file, deck, storage
  <1> QED BY <1>2, <1>8, <1>9, <1>10, <1>11, <1>12, <1>13 DEF Next, Call

\* The k'th block of a search from where the file is.
LEMMA BlocksFollow ==
  ASSUME Counters, counter = pos, NEW k \in Nat
  PROVE  At(k) = counter + k * BlockStep
  <1>1. CASE k = 0
    BY <1>1, Steps DEF At, Counters
  <1>2. CASE k # 0
    BY <1>2 DEF At
  <1> QED BY <1>1, <1>2

LEMMA MarkIsIn ==
  ASSUME Tapes, Counters, NEW k \in Nat, NEW p \in Nat, IsMark(p), At(k) <= p, p - At(k) <= Room(k) - 5
  PROVE  p - At(k) \in MarksIn(k)
  <1>1. At(k) \in Nat /\ Room(k) \in Nat
    BY Rooms
  <1>2. p - At(k) \in 0 .. Room(k) - 5 /\ ~(Room(k) < 4)
    BY <1>1
  <1>3. At(k) + (p - At(k)) = p
    BY <1>1
  <1> QED BY <1>2, <1>3 DEF MarksIn

\* A block that does not end the search is full, and there is no mark in it.
LEMMA NotInBlock ==
  ASSUME Tapes, Counters, NEW k \in Nat, ~Ends(k), NEW p \in Nat, IsMark(p), At(k) <= p
  PROVE  p >= At(k) + BlockStep /\ Len(cells) - At(k) >= MBUF_SIZE
  <1>1. MarksIn(k) = {} /\ ~(Room(k) < MBUF_SIZE)
    BY DEF Ends
  <1>2. At(k) \in Nat /\ Room(k) \in Nat /\ Room(k) <= MBUF_SIZE /\ MBUF_SIZE \in Nat /\ MBUF_SIZE > 4
    BY Rooms, Constants
  <1>3. Room(k) = MBUF_SIZE
    BY <1>1, <1>2
  <1>4. ~(p - At(k) <= Room(k) - 5)
    BY <1>1, MarkIsIn
  <1>5. Len(cells) - At(k) >= MBUF_SIZE
    <2>1. Len(cells) \in Nat
      BY DEF Tapes
    <2>2. Room(k) = IF Len(cells) <= At(k) THEN 0
                    ELSE IF MBUF_SIZE <= Len(cells) - At(k) THEN MBUF_SIZE ELSE Len(cells) - At(k)
      BY Rooms
    <2> QED BY <1>2, <1>3, <2>1, <2>2
  <1> QED BY <1>2, <1>3, <1>4, <1>5 DEF BlockStep

LEMMA NoMarkBefore ==
  ASSUME Tapes, Counters, counter = pos, NEW p \in Nat, counter <= p, IsMark(p)
  PROVE  counter + LastOf * BlockStep <= p
  <1> SUFFICES ASSUME p < counter + LastOf * BlockStep PROVE FALSE
    <2>1. LastOf \in Nat
      BY SearchEnds, Constants
    <2>2. counter + LastOf * BlockStep \in Nat
      BY <2>1, Steps DEF Counters
    <2> QED BY <2>2
  <1> DEFINE K == {k \in Nat : p < counter + (k + 1) * BlockStep}
  <1>1. LastOf \in Nat /\ counter \in Nat /\ BlockStep \in Nat \ {0}
    BY SearchEnds, Constants, Steps DEF Counters
  <1>2. LastOf # 0
    BY <1>1, Steps
  <1>3. LastOf - 1 \in K
    <2>1. LastOf - 1 \in Nat /\ (LastOf - 1) + 1 = LastOf
      BY <1>1, <1>2
    <2> QED BY <2>1
  <1>4. K \in SUBSET Nat /\ K # {}
    BY <1>3
  <1> HIDE DEF K
  <1>5. PICK m \in K : m = Min(K) /\ \A k \in K : m <= k
    BY <1>4, LeastOfNats
  <1>6. m \in Nat /\ p < counter + (m + 1) * BlockStep /\ m <= LastOf - 1
    BY <1>3, <1>5 DEF K
  <1>7. counter + m * BlockStep <= p
    <2>1. CASE m = 0
      BY <1>1, <2>1, Steps
    <2>2. CASE m # 0
      <3>1. m - 1 \in Nat /\ (m - 1) + 1 = m /\ ~(m <= m - 1)
        BY <1>6, <2>2
      <3>2. m - 1 \notin K
        BY <1>5, <3>1
      <3>3. ~(p < counter + m * BlockStep)
        BY <3>1, <3>2 DEF K
      <3>4. counter + m * BlockStep \in Nat
        BY <1>1, <1>6, Steps
      <3> QED BY <3>3, <3>4
    <2> QED BY <2>1, <2>2
  <1>8. At(m) = counter + m * BlockStep
    BY <1>6, BlocksFollow
  <1>9. ~Ends(m)
    <2>1. m < LastOf
      BY <1>1, <1>2, <1>6
    <2> QED BY <1>6, <2>1, SearchEnds
  <1>10. p >= At(m) + BlockStep
    BY <1>6, <1>7, <1>8, <1>9, NotInBlock
  <1>11. (m + 1) * BlockStep = m * BlockStep + BlockStep /\ m * BlockStep \in Nat
    BY <1>6, Steps
  <1> QED BY <1>1, <1>6, <1>8, <1>10, <1>11

\* The block that a search ends at has room for a mark, or the file has none.
LEMMA RoomAtLast ==
  ASSUME TapeSound, Sized, Mounted, ~TooFar, counter = pos
  PROVE  /\ LastOf \in Nat /\ At(LastOf) = counter + LastOf * BlockStep
         /\ Len(cells) - At(LastOf) >= 4
         /\ Room(LastOf) >= 4
         /\ Room(LastOf) = MBUF_SIZE \/ Room(LastOf) = Len(cells) - At(LastOf)
         /\ Room(LastOf) <= Len(cells) - At(LastOf)
  <1>1. LastOf \in Nat
    BY SearchEnds, Constants DEF TapeSound
  <1>2. At(LastOf) = counter + LastOf * BlockStep
    BY <1>1, BlocksFollow DEF TapeSound
  <1>3. At(LastOf) \in Nat /\ Len(cells) \in Nat /\ MBUF_SIZE \in Nat /\ MBUF_SIZE > 4
    <2>1. At(LastOf) \in Nat
      BY <1>1, Rooms DEF TapeSound
    <2>2. Len(cells) \in Nat
      BY DEF TapeSound, Tapes
    <2> QED BY <2>1, <2>2, Constants
  <1>4. Len(cells) - At(LastOf) >= 4
    <2>1. CASE LastOf = 0
      <3>1. At(LastOf) = counter
        BY <2>1 DEF At
      <3>2. /\ HeaderLen \in Nat /\ HeaderLen >= 4 /\ size \in Nat /\ size < Word /\ Word \in Nat
            /\ HeaderLen <= size /\ size <= Len(cells) /\ counter \in Nat
        BY Constants DEF Sized, TapeSound, Counters
      <3>3. (size - HeaderLen) % Word = size - HeaderLen
        BY <3>2
      <3> QED BY <1>3, <3>1, <3>2, <3>3 DEF TooFar
    <2>2. CASE LastOf # 0
      <3> DEFINE k == LastOf - 1
      <3>1. k \in Nat /\ k + 1 = LastOf
        BY <1>1, <2>2
      <3>2. ~Ends(k)
        BY <3>1, SearchEnds DEF TapeSound
      <3>3. ~(Room(k) < MBUF_SIZE)
        BY <3>2 DEF Ends
      <3>4. At(k) = counter + k * BlockStep /\ At(k) \in Nat
        BY <3>1, BlocksFollow, Rooms DEF TapeSound
      <3>5. Room(k) = IF Len(cells) <= At(k) THEN 0
                      ELSE IF MBUF_SIZE <= Len(cells) - At(k) THEN MBUF_SIZE ELSE Len(cells) - At(k)
        BY <3>1, Rooms DEF TapeSound
      <3>6. Len(cells) - At(k) >= MBUF_SIZE
        BY <1>3, <3>3, <3>4, <3>5
      <3>7. LastOf * BlockStep = k * BlockStep + BlockStep /\ k * BlockStep \in Nat
        BY <3>1, Steps
      <3>8. MBUF_SIZE = BlockStep + 4 /\ BlockStep \in Nat /\ counter \in Nat
        BY Steps DEF TapeSound, Counters
      <3> HIDE DEF k
      <3> QED BY <1>2, <1>3, <3>4, <3>6, <3>7, <3>8, SMTT(60)
    <2> QED BY <2>1, <2>2
  <1>5. Room(LastOf) = IF Len(cells) <= At(LastOf) THEN 0
                       ELSE IF MBUF_SIZE <= Len(cells) - At(LastOf) THEN MBUF_SIZE
                       ELSE Len(cells) - At(LastOf)
    BY <1>1, Rooms DEF TapeSound
  <1> QED BY <1>1, <1>2, <1>3, <1>4, <1>5

LEMMA NoneWhenTooFar ==
  ASSUME TapeSound, Sized, Mounted, TooFar
  PROVE  NoneAhead
  <1>1. /\ HeaderLen \in Nat /\ HeaderLen >= 4 /\ size \in Nat /\ size < Word /\ Word \in Nat
        /\ HeaderLen <= size /\ counter \in Nat
    BY Constants DEF Sized, TapeSound, Counters
  <1>2. (size - HeaderLen) % Word = size - HeaderLen
    BY <1>1
  <1>3. counter >= size - HeaderLen
    BY <1>2 DEF TooFar
  <1>4. ASSUME NEW p \in Ahead PROVE p + 4 + HeaderLen > size
    <2>1. p \in Int /\ counter <= p
      BY DEF Ahead
    <2> QED BY <1>1, <1>3, <2>1
  <1> QED BY <1>4 DEF NoneAhead

LEMMA NoneWhenNotFound ==
  ASSUME TapeSound, Sized, Mounted, ~TooFar, counter = pos, MarksIn(LastOf) = {}
  PROVE  NoneAhead
  <1>1. /\ LastOf \in Nat /\ At(LastOf) = counter + LastOf * BlockStep
        /\ Room(LastOf) = MBUF_SIZE \/ Room(LastOf) = Len(cells) - At(LastOf)
    BY RoomAtLast
  <1>2. Room(LastOf) < MBUF_SIZE
    BY SearchEnds DEF Ends, TapeSound
  <1>3. /\ HeaderLen \in Nat /\ HeaderLen >= 4 /\ size \in Nat
        /\ size <= Len(cells) /\ Len(cells) \in Nat /\ counter \in Nat
        /\ Room(LastOf) \in Nat /\ At(LastOf) \in Nat /\ MBUF_SIZE \in Nat
    BY <1>1, Constants, Rooms DEF Sized, TapeSound, Counters, Tapes
  <1>4. Room(LastOf) = Len(cells) - At(LastOf)
    BY <1>1, <1>2, <1>3
  <1>5. ASSUME NEW p \in Ahead PROVE p + 4 + HeaderLen > size
    <2>1. p \in counter .. Len(cells) /\ IsMark(p)
      BY <1>5 DEF Ahead
    <2>2. p \in Nat /\ counter <= p
      BY <1>3, <2>1
    <2>3. At(LastOf) <= p
      BY <1>1, <2>1, <2>2, NoMarkBefore DEF TapeSound
    <2>4. ~(p - At(LastOf) <= Room(LastOf) - 5)
      BY <1>1, <2>1, <2>2, <2>3, MarkIsIn DEF TapeSound
    <2> QED BY <1>3, <1>4, <2>2, <2>4
  <1> QED BY <1>5 DEF NoneAhead

\* The first mark of the last block is the first that lies ahead.
LEMMA FirstAhead ==
  ASSUME TapeSound, Sized, Mounted, ~TooFar, counter = pos,
         NEW i \in MarksIn(LastOf), i = Min(MarksIn(LastOf))
  PROVE  LET first == counter + LastOf * BlockStep + i
         IN first \in Ahead /\ first = Min(Ahead) /\ first \in Nat /\ first + 4 <= Len(cells)
  <1> DEFINE a == At(LastOf)
             first == a + i
  <1>1. LastOf \in Nat /\ a = counter + LastOf * BlockStep /\ Room(LastOf) >= 4
    BY RoomAtLast
  <1>2. /\ Len(cells) \in Nat /\ counter \in Nat /\ a \in Nat /\ Room(LastOf) \in Nat
        /\ LastOf * BlockStep \in Nat
    <2>1. a \in Nat /\ Room(LastOf) \in Nat
      BY <1>1, Rooms DEF TapeSound
    <2>2. LastOf * BlockStep \in Nat
      BY <1>1, Steps
    <2> QED BY <2>1, <2>2 DEF TapeSound, Counters, Tapes
  <1>3. MarksIn(LastOf) = {j \in 0 .. Room(LastOf) - 5 : IsMark(a + j)}
    BY <1>1, <1>2, SMTT(60) DEF MarksIn
  <1>4. i \in 0 .. Room(LastOf) - 5 /\ IsMark(first)
    BY <1>3
  <1>5. first \in Nat /\ first + 4 <= Len(cells) /\ counter <= first
    <2>1. first + 4 <= Len(cells)
      BY <1>4 DEF IsMark
    <2> QED BY <1>1, <1>2, <1>4, <2>1, SMTT(60)
  <1> HIDE DEF a, first
  <1>6. first \in Ahead
    BY <1>2, <1>4, <1>5 DEF Ahead
  <1>7. Ahead \in SUBSET Nat
    BY <1>2 DEF Ahead
  <1>8. Min(Ahead) \in Ahead /\ Min(Ahead) <= first
    BY <1>6, <1>7, LeastOfNats
  <1> DEFINE q == Min(Ahead)
  <1> HIDE DEF q
  <1>9. q \in Nat /\ counter <= q /\ IsMark(q) /\ q <= first
    <2>1. q \in Ahead /\ q <= first
      BY <1>8 DEF q
    <2> QED BY <1>2, <2>1 DEF Ahead
  <1>10. a <= q
    BY <1>1, <1>9, NoMarkBefore DEF TapeSound
  <1>11. i <= q - a
    <2>1. first = a + i
      BY DEF first
    <2>2. q - a <= Room(LastOf) - 5
      BY <1>2, <1>4, <1>9, <1>10, <2>1
    <2>3. q - a \in MarksIn(LastOf)
      BY <1>1, <1>9, <1>10, <2>2, MarkIsIn DEF TapeSound, a
    <2>4. MarksIn(LastOf) \in SUBSET Nat
      BY <1>1, MarksAreNats DEF TapeSound
    <2> QED BY <2>3, <2>4, LeastOfNats
  <1>12. first = q
    BY <1>2, <1>4, <1>5, <1>9, <1>11 DEF first
  <1> QED BY <1>1, <1>5, <1>6, <1>12 DEF first, q

LEMMA SearchFinds ==
  ASSUME TapeSound, Sized, Search, counter = pos, MaxLen <= Word \div 2
  PROVE  IF headed' THEN Answer' \in Ahead /\ Answer' = Min(Ahead) ELSE NoneAhead
  <1>1. Mounted /\ ~TooFar
    BY DEF Search
  <1> DEFINE start == counter + LastOf * BlockStep
  <1>2. Room(LastOf) >= 4 /\ LastOf \in Nat /\ Room(LastOf) \in Nat
    BY <1>1, RoomAtLast, Rooms DEF TapeSound
  <1>3. \/ \E i \in MarksIn(LastOf) :
             /\ i \in Nat /\ start + i + 4 \in Nat
             /\ Room(LastOf) < 4 \/ i = Min(MarksIn(LastOf))
             /\ tap_seek(start + i + 4, HeaderLen) /\ headed' = TRUE
        \/ /\ MarksIn(LastOf) = {}
           /\ headed' = FALSE
    BY SearchSeeks DEF TapeSound
  <1> HIDE DEF start
  <1>4. CASE MarksIn(LastOf) = {} /\ headed' = FALSE
    BY <1>1, <1>4, NoneWhenNotFound
  <1>5. ASSUME NEW i \in MarksIn(LastOf), i = Min(MarksIn(LastOf)), start + i + 4 \in Nat,
               tap_seek(start + i + 4, HeaderLen), headed' = TRUE
        PROVE  IF headed' THEN Answer' \in Ahead /\ Answer' = Min(Ahead) ELSE NoneAhead
    <2> DEFINE first == start + i
    <2>1. first \in Ahead /\ first = Min(Ahead) /\ first \in Nat /\ first + 4 <= Len(cells)
      BY <1>1, <1>5, FirstAhead DEF start
    <2> HIDE DEF first
    <2>2. first + 4 = start + i + 4
      BY DEF first
    <2>3. counter' = SeekTarget(first + 4)
      BY <1>5, <2>2 DEF tap_seek
    <2>4. first + 4 \in Nat /\ MaxLen \in Nat /\ Word \in Nat /\ Word \div 2 \in Nat /\ first + 4 <= MaxLen
      BY <2>1, Constants DEF TapeSound, Tapes
    <2>5. Min({first + 4, MaxLen}) = first + 4
      <3>1. first + 4 \in Int /\ MaxLen \in Int
        BY <2>4
      <3>2. Min({first + 4, MaxLen}) = IF first + 4 <= MaxLen THEN first + 4 ELSE MaxLen
        BY <3>1, OfTwo
      <3> QED BY <2>4, <3>2
    <2>6. ~(first + 4 > Word \div 2)
      BY <2>4
    <2>7. counter' = first + 4
      BY <2>3, <2>5, <2>6 DEF SeekTarget
    <2>8. Answer' = first
      BY <2>1, <2>7 DEF Answer
    <2> QED BY <1>5, <2>1, <2>8
  <1>6. CASE \E i \in MarksIn(LastOf) :
               /\ i \in Nat /\ start + i + 4 \in Nat
               /\ Room(LastOf) < 4 \/ i = Min(MarksIn(LastOf))
               /\ tap_seek(start + i + 4, HeaderLen) /\ headed' = TRUE
    <2>1. PICK i \in MarksIn(LastOf) :
               /\ start + i + 4 \in Nat
               /\ Room(LastOf) < 4 \/ i = Min(MarksIn(LastOf))
               /\ tap_seek(start + i + 4, HeaderLen) /\ headed' = TRUE
      BY <1>6
    <2>2. ~(Room(LastOf) < 4)
      BY <1>2
    <2> QED BY <1>5, <2>1, <2>2
  <1> QED BY <1>3, <1>4, <1>6

(***************************************************************************)
(* A search from where the caller has sought to finds the next synch bytes *)
(* with their mark, wherever the blocks that are read begin and end, and   *)
(* there is no header left when it finds none (tap.c:422-491): on images   *)
(* that are no shorter than a header, on a volume that is smaller than the *)
(* largest offset that LittleFS takes.                                     *)
(***************************************************************************)
THEOREM NextHeaderFound ==
  ASSUME NoStub, MaxLen <= Word \div 2
  PROVE  Spec => SearchFindsNext
  <1>1. Init => TapeSound /\ Sized
    <2>1. Init => Sized
      BY DEF Init, Sized, Mounted
    <2> QED BY <2>1, SoundAtFirst
  <1>2. TapeSound /\ Sized /\ [Next]_vars => TapeSound' /\ Sized'
    BY SoundStep, SizedStep
  <1>3. TapeSound /\ Sized /\ [Next]_vars =>
          [counter = pos =>
             /\ Search => IF headed' THEN Answer' \in Ahead /\ Answer' = Min(Ahead) ELSE NoneAhead
             /\ Mounted /\ TooFar => NoneAhead]_vars
    BY SearchFinds, NoneWhenTooFar
  <1> QED BY <1>1, <1>2, <1>3, PTL DEF Spec, SearchFindsNext
=============================================================================
