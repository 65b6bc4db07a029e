-------------------------- MODULE FlashDiskProofs --------------------------
(***************************************************************************)
(* Proofs about the disk in flash, for every geometry, content and bound   *)
(* on faults.                                                              *)
(***************************************************************************)
EXTENDS FlashDisk, SequenceTheorems, TLAPS

(* The first disk sector of a flash sector. *)
Base(b) == b * PER

FirstBlock == sector \div PER

(* Where a call is: what is left of buff begins at the first disk sector   *)
(* of the next flash sector, or the last disk sector to write lies in this *)
(* one.                                                                    *)
Place ==
  /\ pc = "idle" => sector = 0 /\ count = 0
  /\ pc = "first" => block = FirstBlock /\ SectorCnt = count /\ count >= 1
  /\ pc = "next" => /\ block >= FirstBlock + 1 /\ SectorCnt >= 1
                    /\ sector + count = Base(block) + SectorCnt
  /\ pc \in {"erase", "program"} =>
       /\ block >= FirstBlock
       /\ SectorCnt > 0 => sector + count = Base(block) + PER + SectorCnt
       /\ SectorCnt = 0 => /\ Base(block) < sector + count
                           /\ sector + count <= Base(block) + PER

(* What disk sector k should hold: the old content where nothing is to be  *)
(* written, and its part of buff if the call touches two flash sectors.    *)
Wanted(k, v) ==
  /\ k \notin Targets => v = before[k]
  /\ k \in Targets /\ count <= Room + PER => v = buff[k - sector + 1]

(* Without a fault, flash sectors behind the one in work hold what they    *)
(* should, those ahead of it what they held before, and the copy what the  *)
(* one in work should hold, of which the first units are programmed.       *)
Progress ==
  faults = 0 =>
    /\ pc \in {"idle", "first"} => \A k \in Sectors : disk[k] = before[k]
    /\ pc \in {"next", "erase", "program"} =>
         \A k \in Sectors : k < Base(block) => Wanted(k, disk[k])
    /\ pc \in {"next", "erase"} =>
         \A k \in Sectors : k >= Base(block) => disk[k] = before[k]
    /\ pc \in {"erase", "program"} => \A u \in Units : Wanted(Base(block) + u, tempbuf[u])
    /\ pc = "program" =>
         /\ \A k \in Sectors : k >= Base(block) + PER => disk[k] = before[k]
         /\ \A u \in Units : u < unit => Wanted(Base(block) + u, disk[Base(block) + u])
    /\ pc = "done" => \A k \in Sectors : Wanted(k, disk[k])

Inv == TypeOK /\ Place /\ Progress

-----------------------------------------------------------------------------
(* The geometry of the disk. *)
LEMMA Geometry ==
  /\ PER \in Nat /\ PER >= 1 /\ BLOCKS \in Nat /\ BLOCKS >= 1
  /\ Units = 0 .. PER - 1 /\ Sectors = 0 .. PER * BLOCKS - 1
  /\ PER * BLOCKS \in Nat /\ PER * BLOCKS >= 1 /\ 0 \in Sectors
  /\ PER * BLOCKS = Base(BLOCKS)
<1>1. \A x, y \in Nat : x >= 1 /\ y >= 1 => x * y \in Nat /\ x * y >= 1 /\ x * y = y * x
  OBVIOUS
<1>2. PER \in Nat /\ PER >= 1 /\ BLOCKS \in Nat /\ BLOCKS >= 1
  BY DiskAssumption
<1>3. PER * BLOCKS \in Nat /\ PER * BLOCKS >= 1 /\ PER * BLOCKS = BLOCKS * PER
  BY <1>1, <1>2
<1>4. QED
  BY <1>2, <1>3 DEF Units, Sectors, Base

(* The next flash sector begins where the last one ends.                   *)
LEMMA BaseFacts ==
  ASSUME NEW b \in Nat
  PROVE  Base(b) \in Nat /\ Base(b + 1) = Base(b) + PER
  BY Geometry DEF Base

(* Flash sectors do not overlap.                                           *)
LEMMA BaseOrder ==
  ASSUME NEW b \in Nat, NEW c \in Nat
  PROVE  /\ b < c => Base(b) + PER <= Base(c)
         /\ Base(b) < Base(c) => b < c
<1>1. ASSUME NEW x \in Nat, NEW y \in Nat, NEW p \in Nat, x <= y PROVE x * p <= y * p
  BY <1>1
<1>2. b < c => Base(b + 1) <= Base(c)
  BY <1>1, Geometry DEF Base
<1>3. c <= b => Base(c) <= Base(b)
  BY <1>1, Geometry DEF Base
<1>4. QED
  BY <1>2, <1>3, BaseFacts

(* A disk sector's flash sector is the one that begins at most PER - 1     *)
(* disk sectors before it.                                                 *)
LEMMA DivFacts ==
  ASSUME NEW s \in Nat
  PROVE  /\ s \div PER \in Nat /\ s % PER \in Units
         /\ s = Base(s \div PER) + (s % PER)
  BY Geometry DEF Base

(* A disk sector lies in a flash sector if it lies between its ends.       *)
LEMMA InBlock ==
  ASSUME NEW k \in Sectors, NEW b \in Nat
  PROVE  k \in BlockOf(b) <=> Base(b) <= k /\ k < Base(b) + PER
<1>1. /\ k \in Nat /\ k \div PER \in Nat /\ k = Base(k \div PER) + (k % PER)
      /\ k % PER \in Nat /\ k % PER < PER
  <2>1. k \in Nat
    BY Geometry
  <2>2. k \div PER \in Nat /\ k % PER \in Units /\ k = Base(k \div PER) + (k % PER)
    BY <2>1, DivFacts, Zenon
  <2>3. \A u \in Units : u \in Nat /\ u < PER
    BY Geometry
  <2>4. QED
    BY <2>1, <2>2, <2>3
<1>2. Base(b) \in Nat /\ Base(k \div PER) \in Nat
  BY <1>1, BaseFacts
<1>3. CASE k \div PER < b
  BY <1>1, <1>2, <1>3, BaseOrder, Geometry DEF BlockOf
<1>4. CASE b < k \div PER
  BY <1>1, <1>2, <1>4, BaseOrder, Geometry DEF BlockOf
<1>5. CASE k \div PER = b
  BY <1>1, <1>2, <1>5, Geometry DEF BlockOf
<1>6. QED
  BY <1>1, <1>3, <1>4, <1>5

(* Every part of a flash sector is a sector of the disk.                   *)
LEMMA UnitInDisk ==
  ASSUME NEW b \in 0 .. BLOCKS - 1, NEW u \in Units
  PROVE  Base(b) + u \in Sectors /\ Base(b) \in Nat /\ b \in Nat
<1>1. b \in Nat /\ b < BLOCKS
  BY Geometry
<1>2. Base(b) + PER <= PER * BLOCKS /\ Base(b) \in Nat
  BY <1>1, BaseOrder, BaseFacts, Geometry
<1>3. QED
  BY <1>1, <1>2, Geometry

(* The numbers of a call. *)
LEMMA CallFacts ==
  ASSUME TypeOK
  PROVE  /\ PER \in Nat /\ sector \in Nat /\ count \in Nat /\ SectorCnt \in Nat /\ SectorCnt <= count
         /\ block \in Nat /\ block < BLOCKS /\ unit \in Nat /\ unit < PER
         /\ Base(block) \in Nat /\ Base(block) + PER <= PER * BLOCKS
         /\ FirstBlock \in Nat /\ Base(FirstBlock) \in Nat
         /\ WritePoint \in Nat /\ WritePoint < PER /\ sector = Base(FirstBlock) + WritePoint
         /\ Room \in Nat /\ Room = PER - WritePoint
         /\ sector + count <= PER * BLOCKS
         /\ \A j \in Int : 1 <= j /\ j <= count => buff[j] \in Data
<1>1. sector \in Nat /\ block \in Nat /\ block < BLOCKS /\ unit \in Nat /\ unit < PER
  BY Geometry DEF TypeOK
<1>2. Base(block) \in Nat /\ Base(block) + PER <= PER * BLOCKS
  BY <1>1, BaseFacts, BaseOrder, Geometry
<1>3. /\ FirstBlock \in Nat /\ WritePoint \in Nat /\ WritePoint < PER
      /\ sector = Base(FirstBlock) + WritePoint
  <2>1. FirstBlock \in Nat /\ WritePoint \in Units /\ sector = Base(FirstBlock) + WritePoint
    BY <1>1, DivFacts, Zenon DEF FirstBlock, WritePoint
  <2>2. \A u \in Units : u \in Nat /\ u < PER
    BY Geometry
  <2>3. QED
    BY <2>1, <2>2
<1>4. count \in Nat /\ (\A j \in Int : 1 <= j /\ j <= count => buff[j] \in Data)
  BY LenProperties DEF TypeOK
<1>5. SectorCnt \in Nat /\ SectorCnt <= count
  BY <1>4 DEF TypeOK
<1>6. Room \in Nat /\ Room = PER - WritePoint
  BY <1>3, Geometry DEF Room
<1>7. sector + count <= PER * BLOCKS
  BY DEF TypeOK
<1>8. QED
  BY <1>1, <1>2, <1>3, <1>4, <1>5, <1>6, <1>7, BaseFacts, Geometry

(* A target of the call. *)
LEMMA TargetFacts ==
  ASSUME NEW k \in Sectors
  PROVE  k \in Targets <=> sector <= k /\ k < sector + count
  BY DEF Targets

-----------------------------------------------------------------------------
(* The disk begins at rest.                                                *)
LEMMA InitInv == Init => Inv
<1> SUFFICES ASSUME Init PROVE Inv
  OBVIOUS
<1>1. buff \in Seq(Data) /\ Len(buff) = 0
  BY EmptySeq DEF Init
<1>2. TypeOK
  BY <1>1, Geometry, DiskAssumption DEF Init, TypeOK, Contents
<1>3. Place /\ Progress
  BY DEF Init, Place, Progress
<1>4. QED
  BY <1>2, <1>3 DEF Inv

(* The end of a call, by return or by power loss. *)
LEMMA NoCallInv ==
  ASSUME Inv, UNCHANGED <<disk, faults>>, NoCall
  PROVE  Inv'
<1>1. buff' \in Seq(Data) /\ Len(buff') = 0
  BY EmptySeq DEF NoCall
<1>2. TypeOK'
  BY <1>1, Geometry, DiskAssumption DEF NoCall, TypeOK, Contents, Inv
<1>3. Place'
  BY DEF NoCall, Place
<1>4. Progress'
  BY DEF NoCall, Progress
<1>5. QED
  BY <1>2, <1>3, <1>4 DEF Inv

(* A call begins with nothing written and the whole buffer to go.          *)
LEMMA CallWriteInv ==
  ASSUME Inv, NEW s \in Sectors, NEW n \in 1 .. PER * BLOCKS - s, NEW b \in [1 .. n -> Data],
         CallWrite(s, b)
  PROVE  Inv'
<1>1. /\ pc = "idle" /\ pc' = "first" /\ sector' = s /\ buff' = b /\ count' = Len(b)
      /\ before' = disk /\ block' = s \div PER /\ SectorCnt' = Len(b)
      /\ UNCHANGED <<disk, tempbuf, unit, faults>>
  BY DEF CallWrite
<1>2. b \in Seq(Data) /\ Len(b) = n /\ n \in Nat /\ n >= 1 /\ s + n <= PER * BLOCKS
  <2>1. n \in Nat /\ n >= 1 /\ s + n <= PER * BLOCKS
    <3>1. ASSUME NEW N \in Nat, NEW x \in 0 .. N - 1, NEW y \in 1 .. N - x
          PROVE  y \in Nat /\ y >= 1 /\ x + y <= N
      OBVIOUS
    <3>2. PER * BLOCKS \in Nat /\ s \in 0 .. PER * BLOCKS - 1
      BY Geometry
    <3>3. QED
      BY <3>1, <3>2, Zenon
  <2>2. b \in Seq(Data)
    <3>1. Seq(Data) = UNION {[1 .. m -> Data] : m \in Nat}
      BY SeqDef, Zenon
    <3>2. QED
      BY <2>1, <3>1, Zenon
  <2>3. Len(b) \in Nat /\ 1 .. Len(b) = 1 .. n
    <3>1. Len(b) \in Nat /\ DOMAIN b = 1 .. Len(b)
      BY <2>2, LenProperties, Zenon
    <3>2. DOMAIN b = 1 .. n
      BY Zenon
    <3>3. QED
      BY <3>1, <3>2, Zenon
  <2>4. Len(b) = n
    <3>1. \A x, y \in Nat : x >= 1 /\ 1 .. x = 1 .. y => x = y
      OBVIOUS
    <3>2. QED
      BY <2>1, <2>3, <3>1, Zenon
  <2>5. QED
    BY <2>1, <2>2, <2>4, Zenon
<1>3. s \div PER \in 0 .. BLOCKS - 1
  <2>1. s \in Nat /\ s < Base(BLOCKS) /\ BLOCKS \in Nat
    BY Geometry
  <2>2. s \div PER \in Nat /\ s % PER \in Units /\ s = Base(s \div PER) + (s % PER)
    BY <2>1, DivFacts, Zenon
  <2>3. Base(s \div PER) \in Nat /\ Base(BLOCKS) \in Nat /\ s % PER \in Nat
    <3>1. Units \subseteq Nat
      BY Geometry
    <3>2. QED
      BY <2>1, <2>2, <3>1, BaseFacts, Zenon
  <2>4. Base(s \div PER) < Base(BLOCKS)
    <3>1. \A x, y, z \in Nat : x + y < z => x < z
      OBVIOUS
    <3>2. QED
      BY <2>1, <2>2, <2>3, <3>1, Zenon
  <2>5. s \div PER < BLOCKS
    BY <2>1, <2>2, <2>4, BaseOrder
  <2>6. QED
    BY <2>1, <2>2, <2>5
<1>4. TypeOK'
  BY <1>1, <1>2, <1>3 DEF TypeOK, Inv
<1>5. Place'
  BY <1>1, <1>2 DEF Place, FirstBlock
<1>6. Progress'
  BY <1>1 DEF Progress, Inv
<1>7. QED
  BY <1>4, <1>5, <1>6 DEF Inv

(* The first flash sector is copied and patched: what lies in it of the    *)
(* call is put at its place, and there is more only if it is full.         *)
LEMMA LoadFirstInv == ASSUME Inv, LoadFirst PROVE Inv'
<1> DEFINE n == IF SectorCnt <= Room THEN SectorCnt ELSE Room
<1>1. /\ pc = "first" /\ pc' = "erase" /\ SectorCnt' = SectorCnt - n
      /\ UNCHANGED <<disk, sector, count, buff, before, block, unit, faults>>
      /\ tempbuf' = Patched(WritePoint, n, 0)
  BY DEF LoadFirst, call
<1>2. /\ TypeOK /\ block = FirstBlock /\ SectorCnt = count /\ count >= 1
      /\ faults = 0 => \A k \in Sectors : disk[k] = before[k]
  BY <1>1 DEF Inv, Place, Progress
<1>3. /\ n \in Nat /\ n >= 1 /\ n <= count /\ WritePoint + n <= PER
      /\ n < count => WritePoint + n = PER
  BY <1>2, CallFacts
<1> HIDE DEF n
<1>4. ASSUME NEW u \in Units
      PROVE  /\ u \in Nat /\ u < PER /\ Base(block) + u \in Sectors
             /\ WritePoint <= u /\ u < WritePoint + n => tempbuf'[u] = buff[u - WritePoint + 1]
             /\ ~ (WritePoint <= u /\ u < WritePoint + n) => tempbuf'[u] = disk[Base(block) + u]
  <2>1. block \in 0 .. BLOCKS - 1
    BY <1>2 DEF TypeOK
  <2>2. u \in Nat /\ u < PER
    BY Geometry
  <2>3. tempbuf'[u] = IF WritePoint <= u /\ u < WritePoint + n THEN buff[0 + (u - WritePoint) + 1]
                      ELSE disk[Base(block) + u]
    BY <1>1, Zenon DEF Patched, Base
  <2>4. 0 + (u - WritePoint) + 1 = u - WritePoint + 1
    BY <1>2, <2>2, CallFacts
  <2>5. QED
    BY <2>1, <2>2, <2>3, <2>4, UnitInDisk
<1>5. TypeOK'
  <2>1. ASSUME NEW u \in Units PROVE tempbuf'[u] \in Contents
    <3>1. CASE WritePoint <= u /\ u < WritePoint + n
      <4>1. u - WritePoint + 1 \in Int /\ 1 <= u - WritePoint + 1 /\ u - WritePoint + 1 <= count
        BY <1>2, <1>3, <1>4, <3>1, CallFacts
      <4>2. QED
        BY <1>2, <1>4, <3>1, <4>1, CallFacts DEF Contents
    <3>2. CASE ~ (WritePoint <= u /\ u < WritePoint + n)
      BY <1>2, <1>4, <3>2 DEF TypeOK
    <3>3. QED
      BY <3>1, <3>2
  <2>2. tempbuf' \in [Units -> Contents]
    BY <1>1, <2>1 DEF Patched
  <2>3. SectorCnt' \in 0 .. count
    BY <1>1, <1>2, <1>3, CallFacts
  <2>4. QED
    BY <1>1, <1>2, <2>2, <2>3 DEF TypeOK
<1>6. Place'
  <2>1. SectorCnt' > 0 => sector + count = Base(block) + PER + SectorCnt'
    BY <1>1, <1>2, <1>3, CallFacts
  <2>2. SectorCnt' = 0 => Base(block) < sector + count /\ sector + count <= Base(block) + PER
    BY <1>1, <1>2, <1>3, CallFacts
  <2>3. block >= FirstBlock
    BY <1>2, CallFacts
  <2>4. QED
    BY <1>1, <2>1, <2>2, <2>3 DEF Place, FirstBlock
<1>7. Progress'
  <2>1. ASSUME faults = 0, NEW k \in Sectors, k < Base(block) PROVE Wanted(k, disk[k])
    BY <1>2, <2>1, CallFacts, Geometry, TargetFacts DEF Wanted
  <2>2. ASSUME faults = 0, NEW u \in Units PROVE Wanted(Base(block) + u, tempbuf'[u])
    <3>1. CASE WritePoint <= u /\ u < WritePoint + n
      <4>1. Base(block) + u \in Targets
        BY <1>2, <1>3, <1>4, <3>1, CallFacts, TargetFacts
      <4>2. (Base(block) + u) - sector + 1 = u - WritePoint + 1
        BY <1>2, <1>4, CallFacts
      <4>3. QED
        BY <1>4, <3>1, <4>1, <4>2 DEF Wanted
    <3>2. CASE ~ (WritePoint <= u /\ u < WritePoint + n)
      <4>1. Base(block) + u \notin Targets
        BY <1>2, <1>3, <1>4, <3>2, CallFacts, TargetFacts
      <4>2. QED
        BY <1>2, <1>4, <2>2, <3>2, <4>1 DEF Wanted
    <3>3. QED
      BY <3>1, <3>2
  <2>3. QED
    BY <1>1, <1>2, <2>1, <2>2 DEF Progress, Wanted, Targets, Room, WritePoint
<1>8. QED
  BY <1>5, <1>6, <1>7 DEF Inv

(* A further flash sector is copied and patched from its beginning.  The   *)
(* last one takes its part from position Room of buff, which is the right  *)
(* one if it is the second.                                                *)
LEMMA LoadNextInv == ASSUME Inv, LoadNext PROVE Inv'
<1> DEFINE n == IF SectorCnt > PER THEN PER ELSE SectorCnt
           f == IF SectorCnt > PER THEN count - SectorCnt ELSE Room
<1>1. /\ pc = "next" /\ pc' = "erase" /\ SectorCnt' = SectorCnt - n
      /\ UNCHANGED <<disk, sector, count, buff, before, block, unit, faults>>
      /\ tempbuf' = Patched(0, n, f)
  BY DEF LoadNext, call
<1>2. /\ TypeOK /\ block >= FirstBlock + 1 /\ SectorCnt >= 1
      /\ sector + count = Base(block) + SectorCnt
      /\ faults = 0 =>
           /\ \A k \in Sectors : k < Base(block) => Wanted(k, disk[k])
           /\ \A k \in Sectors : k >= Base(block) => disk[k] = before[k]
  BY <1>1 DEF Inv, Place, Progress
<1>3. sector + Room = Base(FirstBlock + 1) /\ sector + Room <= Base(block)
  <2>1. sector + Room = Base(FirstBlock) + PER
    BY <1>2, CallFacts
  <2>2. FirstBlock < block
    BY <1>2, CallFacts
  <2>3. QED
    BY <1>2, <2>1, <2>2, CallFacts, BaseFacts, BaseOrder
<1>4. /\ n \in Nat /\ n >= 1 /\ n <= SectorCnt /\ n <= PER /\ (n < SectorCnt => n = PER)
      /\ f \in Nat /\ f + n <= count
  <2>1. /\ PER \in Nat /\ PER >= 1 /\ SectorCnt \in Nat /\ SectorCnt >= 1 /\ count \in Nat
        /\ SectorCnt <= count /\ Room \in Nat /\ Room <= count - SectorCnt
    <3>1. PER \in Nat /\ PER >= 1
      BY Geometry
    <3>2. /\ SectorCnt \in Nat /\ count \in Nat /\ SectorCnt <= count /\ Room \in Nat
          /\ sector \in Nat /\ Base(block) \in Nat
      BY <1>2, CallFacts
    <3>3. Room <= count - SectorCnt
      BY <1>2, <1>3, <3>2
    <3>4. QED
      BY <1>2, <3>1, <3>2, <3>3
  <2>2. CASE SectorCnt > PER
    BY <2>1, <2>2
  <2>3. CASE ~ (SectorCnt > PER)
    BY <2>1, <2>3
  <2>4. QED
    BY <2>2, <2>3
<1>5. count <= Room + PER => f = count - SectorCnt
  <2> SUFFICES ASSUME count <= Room + PER, SectorCnt <= PER PROVE Room = count - SectorCnt
    BY <1>2, CallFacts
  <2>1. Base(block) < Base(FirstBlock + 1) + PER
    BY <1>2, <1>3, CallFacts
  <2>2. FirstBlock + 1 \in Nat /\ block \in Nat
    BY <1>2, CallFacts
  <2>3. ~ (FirstBlock + 1 < block)
    <3>1. Base(FirstBlock + 1) \in Nat /\ Base(block) \in Nat /\ PER \in Nat
      BY <2>2, BaseFacts, Geometry
    <3>2. QED
      BY <2>1, <2>2, <3>1, BaseOrder
  <2>4. block = FirstBlock + 1
    BY <1>2, <2>2, <2>3
  <2>5. QED
    BY <1>2, <1>3, <2>4, CallFacts
<1> HIDE DEF n, f
<1>6. ASSUME NEW u \in Units
      PROVE  /\ u \in Nat /\ u < PER /\ Base(block) + u \in Sectors
             /\ u < n => tempbuf'[u] = buff[f + u + 1]
             /\ ~ (u < n) => tempbuf'[u] = disk[Base(block) + u]
  <2>1. block \in 0 .. BLOCKS - 1
    BY <1>2 DEF TypeOK
  <2>2. u \in Nat /\ u < PER
    BY Geometry
  <2>3. tempbuf'[u] = IF 0 <= u /\ u < 0 + n THEN buff[f + (u - 0) + 1]
                      ELSE disk[Base(block) + u]
    BY <1>1, Zenon DEF Patched, Base
  <2>4. f + (u - 0) + 1 = f + u + 1 /\ 0 + n = n /\ 0 <= u
    BY <1>4, <2>2
  <2>5. QED
    BY <2>1, <2>2, <2>3, <2>4, UnitInDisk
<1>7. TypeOK'
  <2>1. ASSUME NEW u \in Units PROVE tempbuf'[u] \in Contents
    <3>1. CASE u < n
      <4>1. f + u + 1 \in Int /\ 1 <= f + u + 1 /\ f + u + 1 <= count
        BY <1>2, <1>4, <1>6, <3>1, CallFacts
      <4>2. QED
        BY <1>2, <1>6, <3>1, <4>1, CallFacts DEF Contents
    <3>2. CASE ~ (u < n)
      BY <1>2, <1>6, <3>2 DEF TypeOK
    <3>3. QED
      BY <3>1, <3>2
  <2>2. tempbuf' \in [Units -> Contents]
    BY <1>1, <2>1 DEF Patched
  <2>3. SectorCnt' \in 0 .. count
    BY <1>1, <1>2, <1>4, CallFacts
  <2>4. QED
    BY <1>1, <1>2, <2>2, <2>3 DEF TypeOK
<1>8. Place'
  <2>1. SectorCnt' > 0 => sector + count = Base(block) + PER + SectorCnt'
    BY <1>1, <1>2, <1>4, CallFacts
  <2>2. SectorCnt' = 0 => Base(block) < sector + count /\ sector + count <= Base(block) + PER
    BY <1>1, <1>2, <1>4, CallFacts
  <2>3. block >= FirstBlock
    BY <1>2, CallFacts
  <2>4. QED
    BY <1>1, <2>1, <2>2, <2>3 DEF Place, FirstBlock
<1>9. Progress'
  <2>1. ASSUME faults = 0, NEW u \in Units PROVE Wanted(Base(block) + u, tempbuf'[u])
    <3>1. CASE u < n
      <4>1. Base(block) + u \in Targets
        BY <1>2, <1>3, <1>4, <1>6, <3>1, CallFacts, TargetFacts
      <4>2. f = count - SectorCnt => (Base(block) + u) - sector + 1 = f + u + 1
        BY <1>2, <1>4, <1>6, CallFacts
      <4>3. QED
        BY <1>5, <1>6, <3>1, <4>1, <4>2 DEF Wanted
    <3>2. CASE ~ (u < n)
      <4>1. Base(block) + u \notin Targets
        BY <1>2, <1>4, <1>6, <3>2, CallFacts, TargetFacts
      <4>2. Base(block) + u >= Base(block)
        BY <1>2, <1>6, CallFacts
      <4>3. QED
        BY <1>2, <1>6, <2>1, <3>2, <4>1, <4>2 DEF Wanted
    <3>3. QED
      BY <3>1, <3>2
  <2>2. QED
    BY <1>1, <1>2, <2>1 DEF Progress, Wanted, Targets, Room, WritePoint
<1>10. QED
  BY <1>7, <1>8, <1>9 DEF Inv

(* The erase touches the flash sector in work only. *)
LEMMA EraseInv == ASSUME Inv, EraseBlock PROVE Inv'
<1>1. /\ pc = "erase" /\ pc' = "program" /\ unit' = 0
      /\ disk' = [k \in Sectors |-> IF k \in BlockOf(block) THEN Erased ELSE disk[k]]
      /\ UNCHANGED <<sector, count, buff, before, block, SectorCnt, tempbuf, faults>>
  BY DEF EraseBlock, call
<1>2. TypeOK /\ block \in Nat /\ Base(block) \in Nat /\ PER \in Nat
  BY CallFacts DEF Inv
<1>3. ASSUME NEW k \in Sectors, k < Base(block) \/ k >= Base(block) + PER
      PROVE  disk'[k] = disk[k]
  BY <1>1, <1>2, <1>3, InBlock, Geometry
<1>4. TypeOK'
  BY <1>1, <1>2, Geometry DEF TypeOK, Contents
<1>5. Place'
  BY <1>1 DEF Inv, Place, FirstBlock
<1>6. Progress'
  <2>1. ASSUME NEW k \in Sectors, k >= Base(block) + PER PROVE k >= Base(block)
    BY <1>2, <2>1, Geometry
  <2>2. \A u \in Units : ~ (u < 0)
    BY Geometry
  <2>3. QED
    BY <1>1, <1>3, <2>1, <2>2 DEF Inv, Progress, Wanted, Targets, Room, WritePoint
<1>7. QED
  BY <1>4, <1>5, <1>6 DEF Inv

(* The flash sector in work is done: the next one begins where this one    *)
(* ends, or the call has written its last disk sector.                     *)
LEMMA AfterBlockPlace ==
  ASSUME Inv, pc = "program", AfterBlock, disk' \in [Sectors -> Contents],
         faults' \in 0 .. MAX_FAULTS
  PROVE  /\ TypeOK' /\ Place'
         /\ UNCHANGED <<sector, count, buff, before, SectorCnt, tempbuf>>
         /\ \/ pc' = "next" /\ Base(block') = Base(block) + PER
            \/ pc' = "done" /\ sector + count <= Base(block) + PER
<1>1. /\ UNCHANGED <<sector, count, buff, before, SectorCnt, tempbuf>> /\ unit' = 0
      /\ SectorCnt > 0 => pc' = "next" /\ block' = block + 1
      /\ ~ (SectorCnt > 0) => pc' = "done" /\ block' = block
  BY DEF AfterBlock, call
<1>2. /\ TypeOK /\ block >= FirstBlock
      /\ SectorCnt > 0 => sector + count = Base(block) + PER + SectorCnt
      /\ SectorCnt = 0 => /\ Base(block) < sector + count
                          /\ sector + count <= Base(block) + PER
  BY DEF Inv, Place
<1>3. unit' \in Units
  BY <1>1, Geometry
<1>4. CASE SectorCnt > 0
  <2>1. Base(block + 1) = Base(block) + PER /\ block + 1 \in Nat
    BY <1>2, CallFacts, BaseFacts
  <2>2. Base(block + 1) < Base(BLOCKS)
    <3>1. PER * BLOCKS = Base(BLOCKS) /\ PER * BLOCKS \in Nat /\ PER \in Nat
      BY Geometry
    <3>2. sector + count <= PER * BLOCKS /\ SectorCnt \in Nat /\ Base(block) \in Nat
      BY <1>2, CallFacts
    <3>3. QED
      BY <1>2, <1>4, <2>1, <3>1, <3>2
  <2>3. block + 1 \in 0 .. BLOCKS - 1
    BY <2>1, <2>2, BaseOrder, Geometry
  <2>4. TypeOK'
    BY <1>1, <1>2, <1>3, <1>4, <2>3 DEF TypeOK
  <2>5. block + 1 >= FirstBlock + 1 /\ SectorCnt >= 1 /\ sector + count = Base(block + 1) + SectorCnt
    BY <1>2, <1>4, <2>1, CallFacts
  <2>6. Place'
    BY <1>1, <1>4, <2>5 DEF Place, FirstBlock
  <2>7. QED
    BY <1>1, <1>4, <2>1, <2>4, <2>6
<1>5. CASE ~ (SectorCnt > 0)
  <2>1. SectorCnt = 0
    BY <1>2, <1>5, CallFacts
  <2>2. TypeOK'
    BY <1>1, <1>2, <1>3, <1>5 DEF TypeOK
  <2>3. Place'
    BY <1>1, <1>5 DEF Place
  <2>4. QED
    BY <1>1, <1>2, <1>5, <2>1, <2>2, <2>3
<1>6. QED
  BY <1>4, <1>5

(* Programming a unit leaves a disk. *)
LEMMA ProgrammedType ==
  ASSUME TypeOK, disk' = disk \/ Programmed(tempbuf[unit])
  PROVE  /\ disk' \in [Sectors -> Contents]
         /\ \A k \in Sectors : k # Base(block) + unit => disk'[k] = disk[k]
         /\ Base(block) + unit \in Sectors
         /\ Programmed(tempbuf[unit]) => disk'[Base(block) + unit] = tempbuf[unit]
<1>1. Base(block) + unit \in Sectors
  BY UnitInDisk DEF TypeOK
<1>2. tempbuf[unit] \in Contents /\ disk \in [Sectors -> Contents]
  BY DEF TypeOK
<1>3. CASE disk' = disk /\ ~ Programmed(tempbuf[unit])
  BY <1>1, <1>2, <1>3
<1>4. CASE Programmed(tempbuf[unit])
  <2>1. disk' = [disk EXCEPT ![Base(block) + unit] = tempbuf[unit]]
    BY <1>4 DEF Programmed, Base
  <2>2. QED
    BY <1>1, <1>2, <2>1
<1>5. QED
  BY <1>3, <1>4

(* A write that gives up is a fault and ends the work on its sector.       *)
LEMMA GivesUpInv == ASSUME Inv, ProgramGivesUp PROVE Inv'
<1>1. TypeOK /\ pc = "program" /\ AfterBlock /\ Programmed(tempbuf[unit])
  BY DEF ProgramGivesUp, Inv
<1>2. faults' \in 0 .. MAX_FAULTS /\ faults' # 0
  BY <1>1, DiskAssumption DEF ProgramGivesUp, TypeOK
<1>3. disk' \in [Sectors -> Contents]
  BY <1>1, ProgrammedType
<1>4. TypeOK' /\ Place'
  BY <1>1, <1>2, <1>3, AfterBlockPlace
<1>5. Progress'
  BY <1>2 DEF Progress
<1>6. QED
  BY <1>4, <1>5 DEF Inv

(* A unit that verifies holds what it should; after the last one the whole *)
(* flash sector does.                                                      *)
LEMMA ProgramInv == ASSUME Inv, ProgramUnit PROVE Inv'
<1>1. /\ TypeOK /\ pc = "program"
      /\ \/ Programmed(tempbuf[unit]) /\ faults' = faults
         \/ faults < MAX_FAULTS /\ faults' = faults + 1 /\ disk' = disk
  BY DEF ProgramUnit, Inv
<1>2. faults' \in 0 .. MAX_FAULTS /\ (faults' = 0 => faults = 0 /\ Programmed(tempbuf[unit]))
  BY <1>1, DiskAssumption DEF TypeOK
<1>3. /\ disk' \in [Sectors -> Contents] /\ Base(block) + unit \in Sectors
      /\ \A k \in Sectors : k # Base(block) + unit => disk'[k] = disk[k]
      /\ faults' = 0 => disk'[Base(block) + unit] = tempbuf[unit]
  BY <1>1, <1>2, ProgrammedType
<1>4. unit \in Units /\ unit \in Nat /\ unit < PER /\ PER \in Nat /\ Base(block) \in Nat /\ block \in Nat
  BY <1>1, CallFacts DEF TypeOK
<1>5. ASSUME faults' = 0
      PROVE  /\ \A k \in Sectors : k < Base(block) => Wanted(k, disk'[k])
             /\ \A k \in Sectors : k >= Base(block) + PER => disk'[k] = before[k]
             /\ \A u \in Units : u <= unit =>
                  Wanted(Base(block) + u, disk'[Base(block) + u])
             /\ \A u \in Units : Wanted(Base(block) + u, tempbuf[u])
  <2>1. /\ \A k \in Sectors : k < Base(block) => Wanted(k, disk[k])
        /\ \A k \in Sectors : k >= Base(block) + PER => disk[k] = before[k]
        /\ \A u \in Units : u < unit => Wanted(Base(block) + u, disk[Base(block) + u])
        /\ \A u \in Units : Wanted(Base(block) + u, tempbuf[u])
    BY <1>1, <1>2, <1>5 DEF Inv, Progress
  <2>2. ASSUME NEW k \in Sectors, k < Base(block) \/ k >= Base(block) + PER
        PROVE  disk'[k] = disk[k]
    BY <1>3, <1>4, <2>2, Geometry
  <2>3. ASSUME NEW u \in Units, u < unit PROVE disk'[Base(block) + u] = disk[Base(block) + u]
    <3>1. Base(block) + u \in Sectors /\ u \in Nat
      BY <1>1, UnitInDisk, Geometry, SMTT(40) DEF TypeOK
    <3>2. Base(block) + u # Base(block) + unit
      BY <1>4, <2>3, <3>1
    <3>3. QED
      BY <1>3, <3>1, <3>2
  <2>4. ASSUME NEW u \in Units, u <= unit
        PROVE  Wanted(Base(block) + u, disk'[Base(block) + u])
    <3>1. u < unit \/ u = unit
      BY <1>4, <2>4, Geometry
    <3>2. CASE u < unit
      BY <2>1, <2>3, <3>2
    <3>3. CASE u = unit
      BY <1>3, <1>5, <2>1, <3>3
    <3>4. QED
      BY <3>1, <3>2, <3>3
  <2>5. QED
    BY <2>1, <2>2, <2>4
<1>6. CASE unit + 1 \in Units
  <2>1. /\ unit' = unit + 1
        /\ UNCHANGED <<pc, sector, count, buff, before, block, SectorCnt, tempbuf>>
    BY <1>6 DEF ProgramUnit, call
  <2>2. TypeOK'
    BY <1>1, <1>2, <1>3, <1>6, <2>1 DEF TypeOK
  <2>3. Place'
    BY <2>1 DEF Inv, Place, FirstBlock
  <2>4. \A u \in Units : u < unit + 1 => u <= unit
    BY <1>4, Geometry
  <2>5. Progress'
    BY <1>1, <1>5, <2>1, <2>4 DEF Progress, Wanted, Targets, Room, WritePoint
  <2>6. QED
    BY <2>2, <2>3, <2>5 DEF Inv
<1>7. CASE unit + 1 \notin Units
  <2>1. AfterBlock
    BY <1>7 DEF ProgramUnit
  <2>2. /\ TypeOK' /\ Place'
        /\ UNCHANGED <<sector, count, buff, before, SectorCnt, tempbuf>>
        /\ \/ pc' = "next" /\ Base(block') = Base(block) + PER
           \/ pc' = "done" /\ sector + count <= Base(block) + PER
    BY <1>1, <1>2, <1>3, <2>1, AfterBlockPlace
  <2>3. unit = PER - 1 /\ \A u \in Units : u <= unit
    BY <1>4, <1>7, Geometry
  <2>4. ASSUME faults' = 0, NEW k \in Sectors, k < Base(block) + PER
        PROVE  Wanted(k, disk'[k])
    <3>1. CASE k < Base(block)
      BY <1>5, <2>4, <3>1
    <3>2. CASE k >= Base(block)
      <4>1. k - Base(block) \in Units /\ k = Base(block) + (k - Base(block))
        BY <1>4, <2>4, <3>2, Geometry
      <4>2. QED
        BY <1>5, <2>3, <2>4, <4>1
    <3>3. QED
      BY <1>4, <3>1, <3>2, Geometry
  <2>5. ASSUME faults' = 0, NEW k \in Sectors, k >= Base(block) + PER,
               sector + count <= Base(block) + PER
        PROVE  Wanted(k, disk'[k])
    <3>1. k \notin Targets
      BY <1>1, <1>4, <2>5, TargetFacts, CallFacts, Geometry, SMTT(40)
    <3>2. QED
      BY <1>5, <2>5, <3>1 DEF Wanted
  <2>6. \A k \in Sectors : k < Base(block) + PER \/ k >= Base(block) + PER
    BY <1>4, Geometry
  <2>7. CASE pc' = "next" /\ Base(block') = Base(block) + PER
    BY <1>5, <2>2, <2>4, <2>7 DEF Inv, Progress, Wanted, Targets, Room, WritePoint
  <2>8. CASE pc' = "done" /\ sector + count <= Base(block) + PER
    BY <2>2, <2>4, <2>5, <2>6, <2>8 DEF Inv, Progress, Wanted, Targets, Room, WritePoint
  <2>9. QED
    BY <2>2, <2>7, <2>8
<1>8. QED
  BY <1>6, <1>7

(* Every step keeps the invariant.                                         *)
LEMMA NextInv == Inv /\ [Next]_vars => Inv'
<1> SUFFICES ASSUME Inv, [Next]_vars PROVE Inv'
  OBVIOUS
<1>1. CASE UNCHANGED vars
  BY <1>1 DEF vars, call, Inv, TypeOK, Place, Progress, Wanted, Targets, Room, WritePoint,
              FirstBlock
<1>2. CASE Return \/ PowerLoss
  BY <1>2, NoCallInv DEF Return, PowerLoss
<1>3. CASE \E s \in Sectors : \E n \in 1 .. PER * BLOCKS - s : \E b \in [1 .. n -> Data] :
             CallWrite(s, b)
  BY <1>3, CallWriteInv
<1>4. QED
  BY <1>1, <1>2, <1>3, LoadFirstInv, LoadNextInv, EraseInv, ProgramInv, GivesUpInv
     DEF Next, Work

(* A write is always where its counters say; without a fault what it has   *)
(* passed is as it should be and what is ahead as it was before, for       *)
(* every size of disk and flash sector.                                    *)
THEOREM DiskInv == Spec => []Inv
  BY InitInv, NextInv, PTL DEF Spec

(* The variables of a write keep their types: in particular it never reads *)
(* past its buffer nor leaves the disk.                                    *)
THEOREM DiskTypeOK == Spec => []TypeOK
<1>1. Inv => TypeOK
  BY DEF Inv
<1>2. QED
  BY <1>1, DiskInv, PTL

(* Without a fault, sectors a call was not asked to write differ from      *)
(* before only in the flash sector it is rewriting.                        *)
THEOREM DiskOneBlockAtRisk == Spec => []OneBlockAtRisk
<1>1. Inv => OneBlockAtRisk
  <2> SUFFICES ASSUME Inv, faults = 0, NEW k \in Sectors, k \notin Targets,
                      k \notin BlockOf(block)
               PROVE  disk[k] = before[k]
    BY DEF OneBlockAtRisk
  <2>1. block \in Nat /\ Base(block) \in Nat /\ PER \in Nat /\ TypeOK
    BY CallFacts DEF Inv
  <2>2. k < Base(block) \/ (k >= Base(block) /\ k >= Base(block) + PER)
    BY <2>1, InBlock, Geometry
  <2>3. CASE k < Base(block)
    BY <2>1, <2>3 DEF Inv, Progress, Wanted, TypeOK
  <2>4. CASE k >= Base(block) /\ k >= Base(block) + PER
    BY <2>1, <2>4 DEF Inv, Progress, Wanted, TypeOK
  <2>5. QED
    BY <2>2, <2>3, <2>4
<1>2. QED
  BY <1>1, DiskInv, PTL

(* A write without a fault that touches at most two flash sectors reads    *)
(* back, and leaves all other sectors alone.                               *)
THEOREM DiskWriteReadsBack == Spec => []WriteReadsBack
<1>1. Inv => WriteReadsBack
  <2> SUFFICES ASSUME Inv, pc = "done", faults = 0, count <= Room + PER, NEW k \in Sectors
               PROVE  disk_read(disk, k, 1) = <<IF k \in Targets THEN buff[k - sector + 1]
                                                ELSE before[k]>>
    BY DEF WriteReadsBack
  <2>1. disk[k] = IF k \in Targets THEN buff[k - sector + 1] ELSE before[k]
    BY DEF Inv, Progress, Wanted
  <2>2. disk_read(disk, k, 1) = <<disk[k]>>
    BY Geometry DEF disk_read
  <2>3. QED
    BY <2>1, <2>2
<1>2. QED
  BY <1>1, DiskInv, PTL
=============================================================================
