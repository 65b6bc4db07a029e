----------------------------- MODULE FlashDisk -----------------------------
(***************************************************************************)
(* The disk that FatFs sees, kept in the NOR flash (Fatfs/diskio.c over    *)
(* QSpiWriteOneSector): a write reads a flash sector, puts its disk        *)
(* sectors into the copy, erases the flash sector and programs the copy,   *)
(* one flash sector after the other.  Power may go at any point.           *)
(*                                                                         *)
(* A disk sector is two pages; programming them is one step.  A page that  *)
(* needs all its attempts ends QSpiWriteOneSector early, and one that      *)
(* never verifies is passed over (j wraps): disk_write looks at neither.   *)
(* tempbuf is allocated successfully.                                      *)
(*                                                                         *)
(* The firmware as configured leaves FatFs out (app_cfg.h:46).  With it,   *)
(* the disk, 0x34000 to 0x7CFFF, would cover the sector of the saved       *)
(* configuration (0x64000, nuagent_drv.c:124), which is not modelled.      *)
(***************************************************************************)
EXTENDS Naturals, Sequences

CONSTANTS PER,         \* disk sectors in a flash sector (8)
          BLOCKS,      \* flash sectors
          Data,        \* contents of a disk sector
          Erased,      \* content of an erased one
          MAX_FAULTS   \* bound on pages that do not verify in time

ASSUME DiskAssumption == /\ PER \in Nat \ {0} /\ BLOCKS \in Nat \ {0}
                         /\ Erased \notin Data /\ MAX_FAULTS \in Nat

Sectors == 0 .. PER * BLOCKS - 1
Units == 0 .. PER - 1            \* disk sectors of one flash sector
Contents == Data \cup {Erased}

VARIABLES disk,
          pc, sector, count, buff,   \* the call in progress and its arguments
          block,      \* WriteSector + i
          SectorCnt, tempbuf,
          unit,       \* next disk sector of the block to program
          before,     \* the disk when the call began
          faults

call == <<sector, count, buff, before>>
vars == <<disk, pc, call, block, SectorCnt, tempbuf, unit, faults>>

WritePoint == sector % PER
Room == PER - WritePoint         \* disk sectors of the first flash sector
Targets == {k \in Sectors : sector <= k /\ k < sector + count}
BlockOf(b) == {k \in Sectors : k \div PER = b}

(* disk_read on a disk d: the offset grows by i in iteration i. *)
disk_read(d, s, n) == [i \in 1 .. n |-> d[s + ((i - 1) * (i - 2)) \div 2]]

NoCall == /\ pc' = "idle" /\ sector' = 0 /\ count' = 0 /\ buff' = <<>>
          /\ block' = 0 /\ SectorCnt' = 0 /\ unit' = 0
          /\ tempbuf' = [u \in Units |-> Erased] /\ before' = disk'

Init == /\ disk = [k \in Sectors |-> Erased]
        /\ pc = "idle" /\ sector = 0 /\ count = 0 /\ buff = <<>>
        /\ block = 0 /\ SectorCnt = 0 /\ unit = 0
        /\ tempbuf = [u \in Units |-> Erased] /\ before = disk /\ faults = 0

-----------------------------------------------------------------------------
(* disk_write(0, b, s, Len(b)); FatFs asks for sectors of the disk only. *)
CallWrite(s, b) ==
  /\ pc = "idle" /\ pc' = "first"
  /\ sector' = s /\ buff' = b /\ count' = Len(b) /\ before' = disk
  /\ block' = s \div PER /\ SectorCnt' = Len(b)
  /\ UNCHANGED <<disk, tempbuf, unit, faults>>

(* The flash sector copied to tempbuf, with n sectors of buff from number  *)
(* f on put at position p.                                                 *)
Patched(p, n, f) ==
  [u \in Units |-> IF p <= u /\ u < p + n THEN buff[f + (u - p) + 1]
                   ELSE disk[block * PER + u]]

(* The first flash sector: as much as it has room for. *)
LoadFirst ==
  LET n == IF SectorCnt <= Room THEN SectorCnt ELSE Room
  IN /\ pc = "first" /\ pc' = "erase"
     /\ tempbuf' = Patched(WritePoint, n, 0)
     /\ SectorCnt' = SectorCnt - n
     /\ UNCHANGED <<disk, call, block, unit, faults>>

(* Variants: the last flash sector gets the start of the buffer; a full    *)
(* one is not counted.                                                     *)
LoadNextFromStart ==
  LET full == SectorCnt > PER
      n    == IF full THEN PER ELSE SectorCnt
  IN /\ pc = "next" /\ pc' = "erase"
     /\ tempbuf' = Patched(0, n, IF full THEN count - SectorCnt ELSE 0)
     /\ SectorCnt' = SectorCnt - n
     /\ UNCHANGED <<disk, call, block, unit, faults>>
LoadNextUncounted ==
  LET full == SectorCnt > PER
      n    == IF full THEN PER ELSE SectorCnt
  IN /\ pc = "next" /\ pc' = "erase"
     /\ tempbuf' = Patched(0, n, IF full THEN count - SectorCnt ELSE Room)
     /\ SectorCnt' = IF full THEN SectorCnt ELSE 0
     /\ UNCHANGED <<disk, call, block, unit, faults>>

(* Each further one: whole from its place in buff while more than a flash  *)
(* sector is left, and the last from position 8 - WritePoint of buff.      *)
LoadNext ==
  LET full == SectorCnt > PER
      n    == IF full THEN PER ELSE SectorCnt
  IN /\ pc = "next" /\ pc' = "erase"
     /\ tempbuf' = Patched(0, n, IF full THEN count - SectorCnt ELSE Room)
     /\ SectorCnt' = SectorCnt - n
     /\ UNCHANGED <<disk, call, block, unit, faults>>

(* A variant with the block erase command in place of the sector erase. *)
EraseBlockWide ==
  /\ pc = "erase" /\ pc' = "program" /\ unit' = 0
  /\ disk' = [k \in Sectors |-> Erased]
  /\ UNCHANGED <<call, block, SectorCnt, tempbuf, faults>>

(* QSpiWriteOneSector: the erase, then one disk sector after the other. *)
EraseBlock ==
  /\ pc = "erase" /\ pc' = "program" /\ unit' = 0
  /\ disk' = [k \in Sectors |-> IF k \in BlockOf(block) THEN Erased ELSE disk[k]]
  /\ UNCHANGED <<call, block, SectorCnt, tempbuf, faults>>

(* What follows when the flash sector is done: the next one, or the end. *)
AfterBlock ==
  /\ IF SectorCnt > 0 THEN pc' = "next" /\ block' = block + 1
                      ELSE pc' = "done" /\ UNCHANGED block
  /\ unit' = 0 /\ UNCHANGED <<call, SectorCnt, tempbuf>>

Programmed(v) == disk' = [disk EXCEPT ![block * PER + unit] = v]

(* Both pages verify with attempts to spare, or the second never does. *)
ProgramUnit ==
  /\ pc = "program"
  /\ \/ Programmed(tempbuf[unit]) /\ UNCHANGED faults
     \/ faults < MAX_FAULTS /\ faults' = faults + 1 /\ UNCHANGED disk
  /\ IF unit + 1 \in Units
     THEN unit' = unit + 1 /\ UNCHANGED <<pc, call, block, SectorCnt, tempbuf>>
     ELSE AfterBlock

(* A page verifies at its last attempt: -1 is returned, and ignored. *)
ProgramGivesUp ==
  /\ pc = "program" /\ faults < MAX_FAULTS /\ faults' = faults + 1
  /\ Programmed(tempbuf[unit])
  /\ AfterBlock

(* The copy is freed; RES_OK. *)
Return == pc = "done" /\ UNCHANGED <<disk, faults>> /\ NoCall

(* The call is lost, at any point of it. *)
PowerLoss == pc \notin {"idle", "done"} /\ UNCHANGED <<disk, faults>> /\ NoCall

Work == \/ LoadFirst \/ LoadNext \/ EraseBlock \/ ProgramUnit \/ ProgramGivesUp
        \/ Return

Next == \/ \E s \in Sectors :
             \E n \in 1 .. PER * BLOCKS - s : \E b \in [1 .. n -> Data] : CallWrite(s, b)
        \/ Work \/ PowerLoss

Spec == Init /\ [][Next]_vars

-----------------------------------------------------------------------------
TypeOK ==
  /\ disk \in [Sectors -> Contents] /\ before \in [Sectors -> Contents]
  /\ pc \in {"idle", "first", "next", "erase", "program", "done"}
  /\ sector \in Sectors /\ count = Len(buff) /\ sector + count <= PER * BLOCKS
  /\ buff \in Seq(Data) /\ SectorCnt \in 0 .. count
  /\ block \in 0 .. BLOCKS - 1 /\ unit \in Units
  /\ tempbuf \in [Units -> Contents] /\ faults \in 0 .. MAX_FAULTS

(* A write that touches at most two flash sectors and meets no fault reads *)
(* back, sector by sector, and leaves all other sectors alone              *)
(* (diskio.c:104-131; a longer one does not: line 127 takes the wrong part *)
(* of the buffer).                                                         *)
WriteReadsBack ==
  (pc = "done" /\ faults = 0 /\ count <= Room + PER)
    => \A k \in Sectors :
         disk_read(disk, k, 1) = <<IF k \in Targets THEN buff[k - sector + 1]
                                   ELSE before[k]>>

(* A call in progress, and so a power loss in it, endangers one flash      *)
(* sector at a time: sectors it was not asked to write differ from before  *)
(* only in the flash sector it is rewriting (diskio.c:105-107, 112-130).   *)
OneBlockAtRisk ==
  faults = 0 =>
    \A k \in Sectors \ Targets : disk[k] # before[k] => k \in BlockOf(block)
=============================================================================
