------------------------------- MODULE DynMem -------------------------------
(***************************************************************************)
(* The dynamic memory pool of Ports/Cortex-M3/os_dmem.c: a circular,       *)
(* doubly linked list of block headers laid out inside the pool, a roving  *)
(* search pointer, first fit from it, and merging with both neighbours on  *)
(* release.                                                                *)
(*                                                                         *)
(* The whole of OS_GetMem and OS_FreeMem that touches the pool runs with   *)
(* interrupts off, so at most one call is in progress.  A release is one   *)
(* action.  An allocation is several, because its search loop is: entering *)
(* the critical section, one action per block passed over, and leaving it  *)
(* with a block or with OS_ERR_MEM_FULL.                                   *)
(*                                                                         *)
(* Addresses are byte offsets from dm_start_address, which the linker      *)
(* aligns to a word.  `live' is the set of addresses at which a header is  *)
(* linked; the bytes of a header that merging has unlinked are no longer   *)
(* looked at and leave the model.                                          *)
(***************************************************************************)
EXTENDS Integers

CONSTANTS POOL_SIZE,       \* argument pool_size of OS_Create_Memory_Pool
          MIN_ALLOCATION,  \* argument min_allocation
          UNSIGNED_MAX,    \* largest value of type UNSIGNED (2^32 - 1 in the build)
          Requests         \* sizes that callers ask for

VARIABLES live,      \* addresses of the linked headers
          nextMem,   \* dm_next_memory of each header
          prevMem,   \* dm_previous_memory
          free,      \* the headers whose dm_memory_free is TRUE
          search,    \* dm_search_ptr of the pool
          available, \* dm_available of the pool
          pc,        \* "idle", or "search" inside OS_GetMem's loop
          size,      \* the adjusted request of the call in progress
          wanted,    \* the size its caller passed
          cursor,    \* memory_ptr of the call in progress
          held,      \* headers of the blocks callers own
          asked      \* for each of them, the size its caller passed

poolVars == <<live, nextMem, prevMem, free, search, available>>
callVars == <<pc, size, wanted, cursor>>
vars     == <<poolVars, callVars, held, asked>>

WORD        == 4    \* sizeof(UNSIGNED)
DM_OVERHEAD == 16   \* sizeof(DM_HEADER): two links, flag and padding, pool

RoundDown(n) == (n \div WORD) * WORD

(* Unsigned arithmetic: the sum wraps before it is divided. *)
RoundUp(n) == (((n + WORD - 1) % (UNSIGNED_MAX + 1)) \div WORD) * WORD

PoolSize      == RoundDown(POOL_SIZE)
MinAllocation == RoundUp(MIN_ALLOCATION)
Trailer       == PoolSize - DM_OVERHEAD

ASSUME PoolAssumption ==
  /\ POOL_SIZE \in Nat /\ MIN_ALLOCATION \in Nat \ {0} /\ UNSIGNED_MAX \in Nat
  /\ MIN_ALLOCATION <= UNSIGNED_MAX - WORD
  /\ PoolSize >= 2 * DM_OVERHEAD + MinAllocation

(* No caller asks for the last few sizes of the type, which would wrap to *)
(* zero; the largest request in the sources is a flash sector.            *)
ASSUME RequestAssumption == Requests \subseteq 0 .. (UNSIGNED_MAX - WORD)

-----------------------------------------------------------------------------
(* OS_DMemInit / OS_Create_Memory_Pool: one free block and the trailer     *)
(* that keeps the first and the last block from merging around the end.    *)
Init ==
  /\ live = {0, Trailer}
  /\ nextMem = [b \in live |-> IF b = 0 THEN Trailer ELSE 0]
  /\ prevMem = [b \in live |-> IF b = 0 THEN Trailer ELSE 0]
  /\ free = {0}
  /\ search = 0
  /\ available = PoolSize - 2 * DM_OVERHEAD
  /\ pc = "idle" /\ size = 0 /\ wanted = 0 /\ cursor = 0
  /\ held = {}
  /\ asked = [b \in held |-> 0]

(* Bytes usable in a block. *)
Payload(b) == nextMem[b] - b - DM_OVERHEAD

(* A variant that forgets the flag of the block. *)
FreeSizeAnyBlock(b) == Payload(b)

(* The free_size the search loop computes for a block. *)
FreeSize(b) == IF b \in free THEN Payload(b) ELSE 0

(* A variant that rounds the wrong way. *)
AdjustedSizeDown(n) == IF n < MinAllocation THEN MinAllocation ELSE RoundDown(n)

AdjustedSize(n) == IF n < MinAllocation THEN MinAllocation ELSE RoundUp(n)

(* A variant that starts behind the search pointer's block. *)
GetMemEnterBehind(n) ==
  /\ pc = "idle"
  /\ pc' = "search" /\ wanted' = n /\ size' = AdjustedSize(n)
  /\ cursor' = nextMem[search]
  /\ UNCHANGED <<poolVars, held, asked>>

(* A caller enters OS_GetMem (through OSMMalloc or OSMCalloc). *)
GetMemEnter(n) ==
  /\ pc = "idle"
  /\ pc' = "search"
  /\ wanted' = n
  /\ size' = AdjustedSize(n)
  /\ cursor' = search
  /\ UNCHANGED <<poolVars, held, asked>>

(* A variant of the loop without the test that it has come around. *)
SearchStepEndless ==
  /\ pc = "search" /\ FreeSize(cursor) < size
  /\ cursor' = nextMem[cursor]
  /\ UNCHANGED <<poolVars, pc, size, wanted, held, asked>>

(* The block at the cursor is too small and the search goes on. *)
SearchStep ==
  /\ pc = "search"
  /\ FreeSize(cursor) < size
  /\ nextMem[cursor] # search
  /\ cursor' = nextMem[cursor]
  /\ UNCHANGED <<poolVars, pc, size, wanted, held, asked>>

(* The search has come back to where it started: OS_ERR_MEM_FULL. *)
GetMemFail ==
  /\ pc = "search"
  /\ FreeSize(cursor) < size
  /\ nextMem[cursor] = search
  /\ pc' = "idle" /\ size' = 0 /\ wanted' = 0 /\ cursor' = 0
  /\ UNCHANGED <<poolVars, held, asked>>

(* A variant that forgets the header of the new block. *)
MustSplitTight == FreeSize(cursor) >= size + MinAllocation

(* Is what remains of the block at the cursor worth a block of its own? *)
MustSplit == FreeSize(cursor) >= size + DM_OVERHEAD + MinAllocation

(* The links and the count after cutting the block at the cursor in two. *)
SplitBlock ==
  LET new == cursor + size + DM_OVERHEAD
      nxt == nextMem[cursor]
  IN /\ live' = live \cup {new}
     /\ nextMem' = [b \in live' |-> IF b = new THEN nxt
                                    ELSE IF b = cursor THEN new ELSE nextMem[b]]
     /\ prevMem' = [b \in live' |-> IF b = new THEN cursor
                                    ELSE IF b = nxt THEN new ELSE prevMem[b]]
     /\ free' = (free \cup {new}) \ {cursor}
     /\ available' = available - size - DM_OVERHEAD

(* A variant that counts the request and not the block. *)
TakeWholeCountsRequest ==
  /\ free' = free \ {cursor}
  /\ available' = available - size
  /\ UNCHANGED <<live, nextMem, prevMem>>

(* The whole block goes to the caller. *)
TakeWhole ==
  /\ free' = free \ {cursor}
  /\ available' = available - FreeSize(cursor)
  /\ UNCHANGED <<live, nextMem, prevMem>>

(* A variant that moves the search pointer to a new block even where none  *)
(* was cut off.                                                            *)
GetMemTakeAlwaysNew ==
  /\ pc = "search" /\ FreeSize(cursor) >= size
  /\ IF MustSplit THEN SplitBlock ELSE TakeWhole
  /\ search' = IF search = cursor THEN cursor + size + DM_OVERHEAD ELSE search
  /\ held' = held \cup {cursor}
  /\ asked' = [b \in held' |-> IF b = cursor THEN wanted ELSE asked[b]]
  /\ pc' = "idle" /\ size' = 0 /\ wanted' = 0 /\ cursor' = 0

(* The block at the cursor satisfies the request and is handed out. *)
GetMemTake ==
  /\ pc = "search"
  /\ FreeSize(cursor) >= size
  /\ IF MustSplit THEN SplitBlock ELSE TakeWhole
  /\ search' = IF search = cursor THEN nextMem'[cursor] ELSE search
  /\ held' = held \cup {cursor}
  /\ asked' = [b \in held' |-> IF b = cursor THEN wanted ELSE asked[b]]
  /\ pc' = "idle" /\ size' = 0 /\ wanted' = 0 /\ cursor' = 0

(* A variant of the release that merges with the previous block only. *)
FreeMemMergesBack(b) ==
  LET p     == prevMem[b]
      n     == nextMem[b]
      joinP == p \in free
  IN /\ pc = "idle"
     /\ live' = IF joinP THEN live \ {b} ELSE live
     /\ nextMem' = [x \in live' |-> IF joinP /\ x = p THEN n ELSE nextMem[x]]
     /\ prevMem' = [x \in live' |-> IF joinP /\ x = n THEN p ELSE prevMem[x]]
     /\ free' = IF joinP THEN free ELSE free \cup {b}
     /\ available' = available + Payload(b) + (IF joinP THEN DM_OVERHEAD ELSE 0)
     /\ search' = IF joinP THEN p ELSE search
     /\ held' = held \ {b}
     /\ asked' = [x \in held' |-> asked[x]]
     /\ UNCHANGED callVars

(* The owner of block b returns it (OSMFree): merge with the previous      *)
(* block if that is free, then the result with the next one.               *)
FreeMem(b) ==
  LET p     == prevMem[b]
      n     == nextMem[b]
      joinP == p \in free
      joinN == n \in free
      h     == IF joinP THEN p ELSE b
      last  == IF joinN THEN nextMem[n] ELSE n
      dead  == (IF joinP THEN {b} ELSE {}) \cup (IF joinN THEN {n} ELSE {})
  IN /\ pc = "idle"
     /\ live' = live \ dead
     /\ nextMem' = [x \in live' |-> IF x = h THEN last ELSE nextMem[x]]
     /\ prevMem' = [x \in live' |-> IF x = last /\ (joinP \/ joinN) THEN h
                                    ELSE prevMem[x]]
     /\ free' = (free \ dead) \cup {h}
     /\ available' = available + Payload(b)
                     + (IF joinP THEN DM_OVERHEAD ELSE 0)
                     + (IF joinN THEN DM_OVERHEAD ELSE 0)
     /\ search' = IF joinP \/ joinN THEN h ELSE search
     /\ held' = held \ {b}
     /\ asked' = [x \in held' |-> asked[x]]
     /\ UNCHANGED callVars

GetMem == SearchStep \/ GetMemFail \/ GetMemTake

Next == \/ \E n \in Requests : GetMemEnter(n)
        \/ GetMem
        \/ \E b \in held : FreeMem(b)

Spec == Init /\ [][Next]_vars

(* Interrupts are off during the search: nothing can keep it from running. *)
FairSpec == Spec /\ WF_vars(GetMem)

-----------------------------------------------------------------------------
(* Every header links to headers, the search pointer and the cursor are at *)
(* linked headers, and callers own blocks that exist.                      *)
TypeOK ==
  /\ live \subseteq 0 .. Trailer
  /\ {0, Trailer} \subseteq live
  /\ nextMem \in [live -> live]
  /\ prevMem \in [live -> live]
  /\ free \subseteq live
  /\ search \in live
  /\ available \in Int
  /\ pc \in {"idle", "search"}
  /\ size \in Nat /\ wanted \in Nat
  /\ cursor \in live /\ (pc = "idle" => cursor = 0)
  /\ held \subseteq live
  /\ asked \in [held -> Nat]

(* The list goes through the blocks in address order and closes at the     *)
(* trailer; no header lies inside a block, and each block has room for the *)
(* minimum allocation.                                                     *)
Tiled ==
  /\ nextMem[Trailer] = 0
  /\ \A b \in live \ {Trailer} :
       /\ nextMem[b] >= b + DM_OVERHEAD + MinAllocation
       /\ \A c \in live : ~ (b < c /\ c < nextMem[b])

(* dm_previous_memory is the inverse of dm_next_memory. *)
DoublyLinked == \A b \in live : prevMem[nextMem[b]] = b /\ nextMem[prevMem[b]] = b

(* Headers, and so the addresses returned, are word aligned. *)
WordAligned == \A b \in live : b % WORD = 0

(* The headers are what os_dmem.c takes them for on every walk: the list   *)
(* tiles the pool, both link directions agree and nothing is misaligned    *)
(* (os_dmem.c:80-91, 220-233, 313-316, 333-336).                           *)
WellLinked == Tiled /\ DoublyLinked /\ WordAligned

(* A block is free exactly when nobody owns it; the trailer is neither.    *)
FreeUnlessHeld ==
  /\ Trailer \notin held
  /\ \A b \in live \ {Trailer} : b \in free <=> b \notin held
  /\ Trailer \notin free

(* Merging on release leaves no two free neighbours, so a request never    *)
(* fails on memory that is free but cut in two (os_dmem.c:183-185, 305,    *)
(* 325).                                                                   *)
Coalesced == \A b \in free : nextMem[b] \notin free

(* Every owner has at least the bytes it asked for. *)
GrantCoversRequest == \A b \in held : Payload(b) >= asked[b]

(* The sum of c[0] .. c[n - 1]. *)
Total(c, n) ==
  LET s[a \in 0 .. n] == IF a = 0 THEN 0 ELSE s[a - 1] + c[a - 1] IN s[n]

FreeBytes == [a \in 0 .. PoolSize - 1 |-> IF a \in free THEN Payload(a) ELSE 0]

(* dm_available is the number of bytes in the free blocks: the additions   *)
(* and subtractions spread over split, whole grant and the two merges      *)
(* never drift (os_dmem.c:236, 242, 301, 310, 330).                        *)
AvailableExact == available = Total(FreeBytes, PoolSize)

(* The search has passed over the blocks from the search pointer up to the *)
(* cursor, around the end of the pool if need be.                          *)
Passed(b) == IF search <= cursor THEN search <= b /\ b < cursor
                                 ELSE search <= b \/ b < cursor

(* None of the blocks passed over could have served the request. *)
SearchedSoFar ==
  pc = "search" =>
    /\ size >= MinAllocation /\ size >= wanted /\ size % WORD = 0
    /\ \A b \in live : Passed(b) => FreeSize(b) < size

(* The inductive invariant. *)
IInv == /\ TypeOK
        /\ WellLinked
        /\ FreeUnlessHeld
        /\ Coalesced
        /\ GrantCoversRequest
        /\ SearchedSoFar

(* An allocation is refused only when no free block is large enough: the   *)
(* search that starts at the roving pointer misses none.                   *)
FullMeansFull ==
  [][ (pc = "search" /\ pc' = "idle" /\ held' = held)
        => \A b \in free : Payload(b) < size ]_vars

(* Every call of OS_GetMem leaves its critical section. *)
SearchEnds == pc = "search" ~> pc = "idle"

(* The regions callers may use, as the abstract heap sees them. *)
HeldRegions == {<<b + DM_OVERHEAD, nextMem[b]>> : b \in held}

H == INSTANCE Heap WITH HeapSize <- PoolSize, Align <- WORD, regions <- HeldRegions

(* The pool implements the abstract heap. *)
ImplementsHeap == H!HeapSpec
=============================================================================
