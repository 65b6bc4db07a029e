---------------------------- MODULE DynMemProofs ----------------------------
(***************************************************************************)
(* Proofs about the memory pool for every pool size, minimum allocation    *)
(* and set of requests.                                                    *)
(***************************************************************************)
EXTENDS DynMem, WellFoundedInduction, TLAPS

(* Rounding in unsigned arithmetic is exact below the wrap. *)
LEMMA ModSmall == \A x, c \in Nat : x < c => x % c = x
  BY SMT

(* RoundUp returns a multiple of a word that is no smaller than n.         *)
LEMMA RoundUpBounds ==
  ASSUME NEW n \in 0 .. (UNSIGNED_MAX - WORD)
  PROVE  RoundUp(n) \in Nat /\ RoundUp(n) >= n /\ RoundUp(n) % WORD = 0
<1>1. UNSIGNED_MAX \in Nat
  BY PoolAssumption
<1>2. (n + WORD - 1) % (UNSIGNED_MAX + 1) = n + 3
  BY <1>1, ModSmall DEF WORD
<1>3. QED
  BY <1>1, <1>2 DEF RoundUp, WORD

(* The geometry of the pool. *)
LEMMA PoolFacts ==
  /\ MinAllocation \in Nat /\ MinAllocation >= 1 /\ MinAllocation % 4 = 0
  /\ Trailer \in Nat /\ Trailer % 4 = 0 /\ Trailer >= 16 + MinAllocation
  /\ PoolSize = Trailer + 16
<1>1. /\ MinAllocation \in Nat /\ MinAllocation >= 1 /\ MinAllocation % 4 = 0
  BY PoolAssumption, RoundUpBounds DEF MinAllocation, WORD
<1>2. PoolSize \in Nat /\ PoolSize % 4 = 0
  BY PoolAssumption DEF PoolSize, RoundDown, WORD
<1>3. QED
  BY <1>1, <1>2, PoolAssumption DEF Trailer, DM_OVERHEAD

(* The size searched for is at least the minimum and the request. *)
LEMMA AdjustedSizeBounds ==
  ASSUME NEW n \in Requests
  PROVE  /\ AdjustedSize(n) \in Nat /\ AdjustedSize(n) >= MinAllocation
         /\ AdjustedSize(n) >= n /\ AdjustedSize(n) % 4 = 0 /\ n \in Nat
<1>1. n \in 0 .. (UNSIGNED_MAX - WORD)
  BY RequestAssumption
<1>2. RoundUp(n) \in Nat /\ RoundUp(n) >= n /\ RoundUp(n) % 4 = 0
  BY <1>1, RoundUpBounds DEF WORD
<1>3. n \in Nat
  BY <1>1
<1>4. QED
  BY <1>2, <1>3, PoolFacts DEF AdjustedSize

(* The initial pool is well formed. *)
LEMMA InitIInv == Init => IInv
<1> SUFFICES ASSUME Init PROVE IInv
  OBVIOUS
<1> USE PoolFacts
<1>1. TypeOK
  BY DEF Init, TypeOK, DM_OVERHEAD
<1>2. WellLinked
  BY DEF Init, WellLinked, Tiled, DoublyLinked, WordAligned, WORD, DM_OVERHEAD
<1>3. FreeUnlessHeld /\ Coalesced /\ GrantCoversRequest /\ SearchedSoFar
  BY DEF Init, FreeUnlessHeld, Coalesced, GrantCoversRequest, SearchedSoFar
<1>4. QED
  BY <1>1, <1>2, <1>3 DEF IInv

-----------------------------------------------------------------------------
(* Entering OS_GetMem: nothing has been passed over yet. *)
LEMMA EnterIInv ==
  ASSUME IInv, NEW n \in Requests, GetMemEnter(n)
  PROVE  IInv'
<1> USE DEF IInv, GetMemEnter, poolVars
<1>1. TypeOK'
  BY AdjustedSizeBounds DEF TypeOK
<1>2. WellLinked' /\ FreeUnlessHeld' /\ Coalesced'
  BY DEF WellLinked, Tiled, DoublyLinked, WordAligned, FreeUnlessHeld, Coalesced
<1>3. GrantCoversRequest'
  BY DEF GrantCoversRequest, Payload
<1>4. SearchedSoFar'
  BY AdjustedSizeBounds DEF SearchedSoFar, Passed, TypeOK, WORD
<1>5. QED
  BY <1>1, <1>2, <1>3, <1>4

(* Passing over a block that does not fit adds exactly that block to the   *)
(* blocks passed, because the list is in address order.                    *)
LEMMA StepIInv ==
  ASSUME IInv, SearchStep
  PROVE  IInv'
<1> USE DEF IInv, SearchStep, poolVars
<1>1. TypeOK'
  BY DEF TypeOK
<1>2. WellLinked' /\ FreeUnlessHeld' /\ Coalesced'
  BY DEF WellLinked, Tiled, DoublyLinked, WordAligned, FreeUnlessHeld, Coalesced
<1>3. GrantCoversRequest'
  BY DEF GrantCoversRequest, Payload
<1>4. SearchedSoFar'
  <2>1. ASSUME NEW b \in live, Passed(b)'
        PROVE  Passed(b) \/ b = cursor
    BY <2>1, PoolFacts DEF Passed, TypeOK, WellLinked, Tiled, DM_OVERHEAD
  <2>2. QED
    BY <2>1 DEF SearchedSoFar, FreeSize, Payload
<1>5. QED
  BY <1>1, <1>2, <1>3, <1>4

(* A refused call leaves the pool alone. *)
LEMMA FailIInv ==
  ASSUME IInv, GetMemFail
  PROVE  IInv'
<1> USE DEF IInv, GetMemFail, poolVars
<1>1. TypeOK'
  BY DEF TypeOK
<1>2. WellLinked' /\ FreeUnlessHeld' /\ Coalesced'
  BY DEF WellLinked, Tiled, DoublyLinked, WordAligned, FreeUnlessHeld, Coalesced
<1>3. GrantCoversRequest' /\ SearchedSoFar'
  BY DEF GrantCoversRequest, Payload, SearchedSoFar
<1>4. QED
  BY <1>1, <1>2, <1>3

(* Links lead from headers to headers, and headers are offsets in the pool. *)
LEMMA LinkFacts ==
  ASSUME IInv, NEW b \in live
  PROVE  /\ b \in Int /\ 0 <= b /\ b <= Trailer
         /\ nextMem[b] \in live /\ nextMem[b] \in Int
         /\ prevMem[b] \in live /\ prevMem[b] \in Int
         /\ b = Trailer => nextMem[b] = 0
         /\ b # Trailer => nextMem[b] >= b + 16 + MinAllocation
         /\ \A c \in live : c \in Int /\ (b # Trailer => c <= b \/ nextMem[b] <= c)
<1>1. live \subseteq 0 .. Trailer /\ Trailer \in Int
  BY PoolFacts DEF IInv, TypeOK
<1>2. \A c \in live : c \in Int /\ 0 <= c /\ c <= Trailer
  BY <1>1
<1>3. nextMem[b] \in live /\ prevMem[b] \in live
  BY DEF IInv, TypeOK
<1>4. b = Trailer => nextMem[b] = 0
  BY DEF IInv, WellLinked, Tiled
<1>5. b # Trailer => nextMem[b] >= b + 16 + MinAllocation
  BY DEF IInv, WellLinked, Tiled, DM_OVERHEAD
<1>6. b # Trailer => \A c \in live : ~ (b < c /\ c < nextMem[b])
  BY DEF IInv, WellLinked, Tiled
<1>7. QED
  BY <1>2, <1>3, <1>4, <1>5, <1>6

(* The block at the cursor is free, nobody's, and not the trailer. *)
LEMMA TakeFacts ==
  ASSUME IInv, pc = "search", FreeSize(cursor) >= size
  PROVE  /\ cursor \in free /\ cursor \notin held /\ cursor # Trailer
         /\ cursor \in live /\ cursor \in Int
         /\ nextMem[cursor] \in live /\ nextMem[cursor] \in Int
         /\ FreeSize(cursor) = nextMem[cursor] - cursor - 16
         /\ size \in Nat /\ size >= MinAllocation /\ size % 4 = 0 /\ size >= wanted
<1>1. size \in Nat /\ size >= MinAllocation /\ size % 4 = 0 /\ size >= wanted
  BY DEF IInv, SearchedSoFar, TypeOK, WORD
<1>2. cursor \in free
  BY <1>1, PoolFacts DEF FreeSize
<1>3. cursor \in live /\ cursor # Trailer /\ cursor \notin held
  BY <1>2 DEF IInv, FreeUnlessHeld, TypeOK
<1>4. cursor \in Int /\ nextMem[cursor] \in live /\ nextMem[cursor] \in Int
  BY <1>3, LinkFacts
<1>5. QED
  BY <1>1, <1>2, <1>3, <1>4 DEF FreeSize, Payload, DM_OVERHEAD

(* Handing out a whole block. *)
LEMMA TakeWholeIInv ==
  ASSUME IInv, GetMemTake, ~ MustSplit
  PROVE  IInv'
<1>0. /\ cursor \in free /\ cursor \notin held /\ cursor # Trailer
      /\ cursor \in live /\ cursor \in Int
      /\ nextMem[cursor] \in live /\ nextMem[cursor] \in Int
      /\ FreeSize(cursor) = nextMem[cursor] - cursor - 16
      /\ FreeSize(cursor) >= size /\ size >= wanted /\ size \in Nat
  BY TakeFacts DEF GetMemTake
<1>1. /\ live' = live /\ nextMem' = nextMem /\ prevMem' = prevMem
      /\ free' = free \ {cursor} /\ held' = held \cup {cursor}
      /\ available' = available - FreeSize(cursor)
      /\ asked' = [b \in held' |-> IF b = cursor THEN wanted ELSE asked[b]]
      /\ search' = IF search = cursor THEN nextMem[cursor] ELSE search
      /\ pc' = "idle" /\ size' = 0 /\ wanted' = 0 /\ cursor' = 0
  BY DEF GetMemTake, TakeWhole
<1>2. TypeOK'
  <2>1. available' \in Int
    BY <1>0, <1>1 DEF IInv, TypeOK
  <2>2. asked' \in [held' -> Nat]
    BY <1>1 DEF IInv, TypeOK
  <2>3. QED
    BY <1>0, <1>1, <2>1, <2>2 DEF IInv, TypeOK
<1>3. WellLinked'
  BY <1>1 DEF IInv, WellLinked, Tiled, DoublyLinked, WordAligned
<1>4. FreeUnlessHeld'
  BY <1>0, <1>1 DEF IInv, FreeUnlessHeld
<1>5. Coalesced'
  BY <1>1 DEF IInv, Coalesced
<1>6. GrantCoversRequest'
  <2>1. wanted \in Nat
    BY DEF IInv, TypeOK
  <2>2. nextMem[cursor] - cursor - 16 >= wanted
    BY <1>0, <2>1
  <2>3. QED
    BY <1>1, <2>2 DEF IInv, GrantCoversRequest, Payload, DM_OVERHEAD
<1>7. SearchedSoFar'
  BY <1>1 DEF SearchedSoFar
<1>8. QED
  BY <1>2, <1>3, <1>4, <1>5, <1>6, <1>7 DEF IInv

(* Handing out the front of a block and linking the rest as a free block.  *)
LEMMA SplitIInv ==
  ASSUME IInv, GetMemTake, MustSplit
  PROVE  IInv'
<1> DEFINE new == cursor + size + 16
           nxt == nextMem[cursor]
<1>0. /\ cursor \in free /\ cursor \notin held /\ cursor # Trailer
      /\ cursor \in live /\ cursor \in Int /\ nxt \in live /\ nxt \in Int
      /\ FreeSize(cursor) = nxt - cursor - 16
      /\ size >= wanted /\ size \in Nat /\ size >= MinAllocation /\ size % 4 = 0
  BY TakeFacts DEF GetMemTake
<1>1. /\ live \subseteq 0 .. Trailer /\ 0 \in live /\ Trailer \in live
      /\ nextMem \in [live -> live] /\ prevMem \in [live -> live]
      /\ free \subseteq live /\ search \in live /\ cursor \in live
      /\ held \subseteq live /\ asked \in [held -> Nat]
      /\ available \in Int /\ wanted \in Nat
  BY DEF IInv, TypeOK
<1>2. /\ new \in 0 .. Trailer /\ new \in Int
      /\ new + 16 + MinAllocation <= nxt /\ cursor + 16 + MinAllocation <= new
      /\ cursor < new /\ new < nxt
  <2>1. 0 <= cursor /\ nxt <= Trailer
    BY <1>0, LinkFacts
  <2>2. nxt - cursor - 16 >= size + 16 + MinAllocation
    BY <1>0 DEF MustSplit, DM_OVERHEAD
  <2>3. QED
    BY <1>0, <2>1, <2>2, PoolFacts
<1>3. new \notin live
  BY <1>0, <1>2, LinkFacts
<1>4. /\ live' = live \cup {new}
      /\ nextMem' = [b \in live' |-> IF b = new THEN nxt
                                     ELSE IF b = cursor THEN new ELSE nextMem[b]]
      /\ prevMem' = [b \in live' |-> IF b = new THEN cursor
                                     ELSE IF b = nxt THEN new ELSE prevMem[b]]
      /\ free' = (free \cup {new}) \ {cursor}
      /\ available' = available - size - 16
      /\ search' = IF search = cursor THEN nextMem'[cursor] ELSE search
      /\ held' = held \cup {cursor}
      /\ asked' = [b \in held' |-> IF b = cursor THEN wanted ELSE asked[b]]
      /\ pc' = "idle" /\ size' = 0 /\ wanted' = 0 /\ cursor' = 0
  BY DEF GetMemTake, SplitBlock, DM_OVERHEAD
<1> HIDE DEF new, nxt
<1>5. TypeOK'
  BY <1>0, <1>1, <1>2, <1>4 DEF TypeOK
<1>6. WellLinked'
  <2>1. Tiled'
    <3>0. \A c \in live : c \in Int /\ (c <= cursor \/ nxt <= c)
      BY <1>0, LinkFacts DEF nxt
    <3>1. nextMem'[Trailer] = 0
      BY <1>0, <1>1, <1>3, <1>4 DEF IInv, WellLinked, Tiled
    <3>2. ASSUME NEW b \in live', b # Trailer
          PROVE  /\ nextMem'[b] >= b + 16 + MinAllocation
                 /\ \A c \in live' : ~ (b < c /\ c < nextMem'[b])
      <4>1. CASE b = new
        <5>1. nextMem'[b] = nxt
          BY <4>1, <1>4
        <5>2. \A c \in live' : ~ (new < c /\ c < nxt)
          BY <3>0, <1>0, <1>2, <1>4
        <5>3. QED
          BY <4>1, <5>1, <5>2, <1>2
      <4>2. CASE b = cursor
        <5>1. nextMem'[b] = new
          BY <4>2, <1>0, <1>3, <1>4
        <5>2. \A c \in live' : ~ (cursor < c /\ c < new)
          BY <3>0, <1>0, <1>2, <1>4
        <5>3. QED
          BY <4>2, <5>1, <5>2, <1>2
      <4>3. CASE b # new /\ b # cursor
        <5>1. b \in live /\ nextMem'[b] = nextMem[b]
          BY <4>3, <1>4
        <5>2. /\ nextMem[b] >= b + 16 + MinAllocation
              /\ \A c \in live : ~ (b < c /\ c < nextMem[b])
          BY <5>1, <3>2, LinkFacts
        <5>3. ~ (b < new /\ new < nextMem[b])
          <6>1. b < cursor \/ b >= nxt
            BY <5>1, <4>3, <1>0, LinkFacts DEF nxt
          <6>2. b < cursor => nextMem[b] <= cursor
            BY <5>1, <3>2, <1>0, LinkFacts
          <6>3. b \in Int /\ nextMem[b] \in Int
            BY <5>1, LinkFacts
          <6>4. QED
            BY <6>1, <6>2, <6>3, <1>0, <1>2
        <5>4. QED
          BY <5>1, <5>2, <5>3, <1>4
      <4>4. QED
        BY <4>1, <4>2, <4>3
    <3>3. QED
      BY <3>1, <3>2 DEF Tiled, DM_OVERHEAD
  <2>2. DoublyLinked'
    <3>1. ASSUME NEW b \in live'
          PROVE  prevMem'[nextMem'[b]] = b /\ nextMem'[prevMem'[b]] = b
      BY <1>0, <1>1, <1>3, <1>4 DEF IInv, WellLinked, DoublyLinked, nxt
    <3>2. QED
      BY <3>1 DEF DoublyLinked
  <2>3. WordAligned'
    BY <1>0, <1>1, <1>4 DEF IInv, WellLinked, WordAligned, WORD, new
  <2>4. QED
    BY <2>1, <2>2, <2>3 DEF WellLinked
<1>7. FreeUnlessHeld'
  BY <1>0, <1>1, <1>2, <1>3, <1>4 DEF IInv, FreeUnlessHeld
<1>8. Coalesced'
  <2>1. nxt \notin free
    BY <1>0 DEF IInv, Coalesced, nxt
  <2>2. QED
    BY <2>1, <1>0, <1>1, <1>2, <1>3, <1>4 DEF IInv, Coalesced, WellLinked, DoublyLinked
<1>9. GrantCoversRequest'
  BY <1>0, <1>1, <1>2, <1>3, <1>4 DEF IInv, GrantCoversRequest, Payload, DM_OVERHEAD, new
<1>10. SearchedSoFar'
  BY <1>4 DEF SearchedSoFar
<1>11. QED
  BY <1>5, <1>6, <1>7, <1>8, <1>9, <1>10 DEF IInv

(* Returning a block, before the cases on its two neighbours: what the     *)
(* owner's block and its neighbours look like.                             *)
LEMMA FreeFacts ==
  ASSUME IInv, NEW b \in held
  PROVE  /\ b \in live /\ b # Trailer /\ b \notin free /\ b \in Int
         /\ prevMem[b] \in live /\ nextMem[b] \in live
         /\ nextMem[prevMem[b]] = b /\ prevMem[nextMem[b]] = b
         /\ prevMem[b] # b /\ nextMem[b] # b
         /\ prevMem[b] \in free => prevMem[b] < b /\ prevMem[b] # Trailer
         /\ nextMem[b] > b /\ 0 # nextMem[b]
         /\ nextMem[b] \in free => nextMem[b] # Trailer
<1>1. b \in live /\ b # Trailer /\ b \notin free
  BY DEF IInv, FreeUnlessHeld, TypeOK
<1>2. prevMem[b] \in live /\ nextMem[b] \in live
  BY <1>1, LinkFacts
<1>3. nextMem[prevMem[b]] = b /\ prevMem[nextMem[b]] = b
  BY <1>1 DEF IInv, WellLinked, DoublyLinked
<1>4. Trailer \notin free
  BY DEF IInv, FreeUnlessHeld
<1>5. b \in Int /\ 0 <= b /\ nextMem[b] \in Int /\ nextMem[b] > b
  BY <1>1, LinkFacts, PoolFacts
<1>6. prevMem[b] # Trailer => prevMem[b] < b
  <2>1. prevMem[b] # Trailer => nextMem[prevMem[b]] >= prevMem[b] + 16 + MinAllocation
    BY <1>2, LinkFacts
  <2>2. prevMem[b] \in Int
    BY <1>1, LinkFacts
  <2>3. QED
    BY <1>3, <1>5, <2>1, <2>2, PoolFacts
<1>7. prevMem[b] # b
  BY <1>1, <1>5, <1>6
<1>8. QED
  BY <1>1, <1>2, <1>3, <1>4, <1>5, <1>6, <1>7

(* Returning a block: whatever merges, the result is one free block from h *)
(* to last with nothing linked in between.                                 *)
LEMMA FreeIInv ==
  ASSUME IInv, NEW b \in held, FreeMem(b)
  PROVE  IInv'
<1> DEFINE p     == prevMem[b]
           n     == nextMem[b]
           h     == IF p \in free THEN p ELSE b
           last  == IF n \in free THEN nextMem[n] ELSE n
           dead  == (IF p \in free THEN {b} ELSE {}) \cup (IF n \in free THEN {n} ELSE {})
<1>1. /\ b \in live /\ b # Trailer /\ b \notin free /\ b \in Int
      /\ p \in live /\ n \in live /\ nextMem[p] = b /\ prevMem[n] = b
      /\ p # b /\ n # b
      /\ p \in free => p < b /\ p # Trailer
      /\ n > b /\ 0 # n /\ (n \in free => n # Trailer)
  BY FreeFacts
<1>2. /\ live \subseteq 0 .. Trailer /\ 0 \in live /\ Trailer \in live
      /\ nextMem \in [live -> live] /\ prevMem \in [live -> live]
      /\ free \subseteq live /\ search \in live /\ cursor \in live
      /\ held \subseteq live /\ asked \in [held -> Nat] /\ available \in Int
      /\ Trailer \notin free /\ Trailer \notin held
      /\ \A x \in live \ {Trailer} : x \in free <=> x \notin held
  BY DEF IInv, TypeOK, FreeUnlessHeld
<1>3. /\ pc = "idle"
      /\ live' = live \ dead
      /\ nextMem' = [x \in live' |-> IF x = h THEN last ELSE nextMem[x]]
      /\ prevMem' = [x \in live' |-> IF x = last /\ (p \in free \/ n \in free) THEN h
                                     ELSE prevMem[x]]
      /\ free' = (free \ dead) \cup {h}
      /\ available' = available + Payload(b) + (IF p \in free THEN 16 ELSE 0)
                                             + (IF n \in free THEN 16 ELSE 0)
      /\ search' = IF p \in free \/ n \in free THEN h ELSE search
      /\ held' = held \ {b}
      /\ asked' = [x \in held' |-> asked[x]]
      /\ pc' = pc /\ size' = size /\ wanted' = wanted /\ cursor' = cursor
  BY DEF FreeMem, callVars, DM_OVERHEAD
<1>4. /\ \A x \in live : nextMem[x] \in live /\ prevMem[x] \in live
                         /\ nextMem[prevMem[x]] = x /\ prevMem[nextMem[x]] = x
      /\ \A x \in free : nextMem[x] \notin free
  BY <1>2 DEF IInv, WellLinked, DoublyLinked, Coalesced
<1>5. /\ \A x \in live : x \in Int /\ 0 <= x /\ x <= Trailer /\ nextMem[x] \in Int
      /\ \A x \in live \ {Trailer} : nextMem[x] >= x + 16 + MinAllocation
      /\ \A x \in live \ {Trailer} : \A c \in live : c <= x \/ nextMem[x] <= c
      /\ nextMem[Trailer] = 0
  BY <1>2, LinkFacts
<1> HIDE DEF p, n, h, last, dead
<1>6. /\ h \in live /\ h \notin dead /\ last \in live /\ last \notin dead
      /\ h # Trailer /\ h <= b /\ last >= n /\ h # last
      /\ 0 \notin dead /\ Trailer \notin dead
  <2>1. n \in free => nextMem[n] > n
    BY <1>1, <1>5, PoolFacts
  <2>2. QED
    BY <2>1, <1>1, <1>4, <1>5 DEF h, last, dead
<1>7. \A c \in live' : c <= h \/ last <= c
  <2>1. \A c \in live : c <= b \/ n <= c
    BY <1>1, <1>5 DEF n
  <2>2. p \in free => \A c \in live : c <= p \/ b <= c
    BY <1>1, <1>5
  <2>3. n \in free => \A c \in live : c <= n \/ nextMem[n] <= c
    BY <1>1, <1>5
  <2>4. QED
    BY <2>1, <2>2, <2>3, <1>1, <1>3, <1>5 DEF h, last, dead
<1>8. \A x \in live' : /\ x # h => nextMem[x] \in live' /\ nextMem[x] # last
                       /\ x # last => prevMem[x] \in live' /\ prevMem[x] # h
  <2>0. nextMem[b] = n /\ prevMem[b] = p
    BY DEF n, p
  <2>1. ASSUME NEW x \in live'
        PROVE  /\ x \in live /\ x \notin dead
               /\ nextMem[x] = b => x = p
               /\ nextMem[x] = n => x = b
               /\ nextMem[x] = nextMem[n] => x = n
               /\ prevMem[x] = b => x = n
               /\ prevMem[x] = n => x = nextMem[n]
               /\ prevMem[x] = p => x = b
    BY <2>0, <1>1, <1>3, <1>4
  <2>2. ASSUME NEW x \in live', x # h
        PROVE  nextMem[x] \notin dead /\ nextMem[x] # last
    BY <2>1, <2>2 DEF h, last, dead
  <2>3. ASSUME NEW x \in live', x # last
        PROVE  prevMem[x] \notin dead /\ prevMem[x] # h
    BY <2>1, <2>3 DEF h, last, dead
  <2>4. QED
    BY <2>1, <2>2, <2>3, <1>3, <1>4
<1>9. TypeOK'
  <2>1. available' \in Int
    BY <1>1, <1>2, <1>3, <1>5 DEF Payload, DM_OVERHEAD
  <2>2. nextMem' \in [live' -> live']
    BY <1>3, <1>6, <1>8
  <2>3. prevMem' \in [live' -> live']
    BY <1>1, <1>3, <1>6, <1>8 DEF h, last
  <2>4. search' \in live'
    BY <1>1, <1>2, <1>3, <1>6 DEF dead
  <2>5. held' \subseteq live' /\ free' \subseteq live'
    BY <1>1, <1>2, <1>3, <1>6 DEF dead
  <2>6. cursor' \in live'
    BY <1>3, <1>2, <1>6 DEF IInv, TypeOK
  <2>7. QED
    BY <2>1, <2>2, <2>3, <2>4, <2>5, <2>6, <1>2, <1>3, <1>6 DEF TypeOK, IInv
<1>10. WellLinked'
  <2>1. Tiled'
    <3>1. nextMem'[Trailer] = 0
      BY <1>2, <1>3, <1>5, <1>6
    <3>2. ASSUME NEW x \in live', x # Trailer
          PROVE  /\ nextMem'[x] >= x + 16 + MinAllocation
                 /\ \A c \in live' : ~ (x < c /\ c < nextMem'[x])
      <4>0. x \in live /\ x \in Int
        BY <1>3, <1>5
      <4>1. CASE x = h
        <5>1. nextMem'[x] = last /\ h \in Int /\ last \in Int
          BY <4>1, <1>3, <1>5, <1>6
        <5>2. last >= h + 16 + MinAllocation
          <6>1. n >= b + 16 + MinAllocation
            BY <1>1, <1>5 DEF n
          <6>2. n \in Int /\ b \in Int
            BY <1>1, <1>5
          <6>3. QED
            BY <6>1, <6>2, <5>1, <1>6, PoolFacts
        <5>3. QED
          BY <5>1, <5>2, <4>1, <1>3, <1>5, <1>7
      <4>2. CASE x # h
        BY <4>0, <4>2, <3>2, <1>3, <1>5
      <4>3. QED
        BY <4>1, <4>2
    <3>3. QED
      BY <3>1, <3>2 DEF Tiled, DM_OVERHEAD
  <2>2. DoublyLinked'
    <3>1. prevMem'[last] = h
      BY <1>1, <1>3, <1>6 DEF last, h
    <3>2. ASSUME NEW x \in live'
          PROVE  prevMem'[nextMem'[x]] = x /\ nextMem'[prevMem'[x]] = x
      <4>1. x \in live
        BY <1>3
      <4>2. prevMem'[nextMem'[x]] = x
        BY <4>1, <3>1, <1>3, <1>4, <1>6, <1>8
      <4>3. nextMem'[prevMem'[x]] = x
        BY <4>1, <3>1, <1>3, <1>4, <1>6, <1>8
      <4>4. QED
        BY <4>2, <4>3
    <3>3. QED
      BY <3>2 DEF DoublyLinked
  <2>3. WordAligned'
    BY <1>3 DEF IInv, WellLinked, WordAligned
  <2>4. QED
    BY <2>1, <2>2, <2>3 DEF WellLinked
<1>11. FreeUnlessHeld'
  BY <1>1, <1>2, <1>3, <1>6 DEF FreeUnlessHeld, h, dead
<1>12. Coalesced'
  <2>1. last \notin free
    BY <1>4 DEF last
  <2>2. ASSUME NEW x \in live', x # h, x \in free
        PROVE  nextMem[x] # h /\ nextMem[x] \notin free
    BY <2>2, <1>1, <1>3, <1>4 DEF h, p
  <2>3. QED
    BY <2>1, <2>2, <1>3, <1>6, <1>9 DEF Coalesced, TypeOK
<1>13. GrantCoversRequest'
  <2>1. ASSUME NEW x \in held'
        PROVE  nextMem'[x] = nextMem[x] /\ asked'[x] = asked[x] /\ x \in held
    BY <1>1, <1>2, <1>3, <1>9 DEF h, TypeOK
  <2>2. QED
    BY <2>1 DEF IInv, GrantCoversRequest, Payload
<1>14. SearchedSoFar'
  BY <1>3 DEF SearchedSoFar
<1>15. QED
  BY <1>9, <1>10, <1>11, <1>12, <1>13, <1>14 DEF IInv

-----------------------------------------------------------------------------
(* Every action preserves the inductive invariant. *)
LEMMA NextIInv == IInv /\ [Next]_vars => IInv'
<1> SUFFICES ASSUME IInv, [Next]_vars PROVE IInv'
  OBVIOUS
<1>1. ASSUME NEW n \in Requests, GetMemEnter(n) PROVE IInv'
  BY <1>1, EnterIInv
<1>2. CASE SearchStep
  BY <1>2, StepIInv
<1>3. CASE GetMemFail
  BY <1>3, FailIInv
<1>4. CASE GetMemTake
  BY <1>4, SplitIInv, TakeWholeIInv
<1>5. ASSUME NEW b \in held, FreeMem(b) PROVE IInv'
  BY <1>5, FreeIInv
<1>6. CASE UNCHANGED vars
  BY <1>6 DEF vars, poolVars, callVars, IInv, TypeOK, WellLinked, Tiled,
              DoublyLinked, WordAligned, FreeUnlessHeld, Coalesced,
              GrantCoversRequest, SearchedSoFar, Payload, FreeSize, Passed
<1>7. QED
  BY <1>1, <1>2, <1>3, <1>4, <1>5, <1>6 DEF Next, GetMem

(* The inductive invariant holds in every reachable state of the pool. *)
THEOREM PoolInvariant == Spec => []IInv
<1>1. Init => IInv
  BY InitIInv
<1>2. IInv /\ [Next]_vars => IInv'
  BY NextIInv
<1>3. QED
  BY <1>1, <1>2, PTL DEF Spec

(* Pointers of the pool always lead to linked headers: os_dmem.c follows   *)
(* no dangling search pointer, link or owner's block.                      *)
THEOREM PoolTypeOK == Spec => []TypeOK
<1>1. IInv => TypeOK
  BY DEF IInv
<1>2. QED
  BY <1>1, PoolInvariant, PTL

(* The list of headers always tiles the pool, in both directions.          *)
THEOREM PoolWellLinked == Spec => []WellLinked
<1>1. IInv => WellLinked
  BY DEF IInv
<1>2. QED
  BY <1>1, PoolInvariant, PTL

(* No two free blocks are ever neighbours. *)
THEOREM PoolCoalesced == Spec => []Coalesced
<1>1. IInv => Coalesced
  BY DEF IInv
<1>2. QED
  BY <1>1, PoolInvariant, PTL

(* Nobody is ever given less than was asked for. *)
THEOREM PoolGrantCoversRequest == Spec => []GrantCoversRequest
<1>1. IInv => GrantCoversRequest
  BY DEF IInv
<1>2. QED
  BY <1>1, PoolInvariant, PTL

(* OS_GetMem refuses a request only when no free block can serve it. *)
THEOREM PoolFullMeansFull == Spec => FullMeansFull
<1>1. ASSUME IInv, Next, pc = "search", pc' = "idle", held' = held
      PROVE  \A b \in free : Payload(b) < size
  <2>1. GetMemFail
    <3>1. ~ GetMemTake
      BY <1>1, TakeFacts DEF GetMemTake
    <3>2. QED
      BY <1>1, <3>1 DEF Next, GetMem, GetMemEnter, SearchStep, FreeMem
  <2>2. ASSUME NEW b \in free
        PROVE  Passed(b) \/ b = cursor
    <3>1. b \in live /\ cursor \in live /\ search \in live
      BY <1>1 DEF IInv, TypeOK
    <3>2. nextMem[cursor] = search
      BY <2>1 DEF GetMemFail
    <3>3. /\ b \in Int /\ 0 <= b /\ b <= Trailer
          /\ cursor \in Int /\ search \in Int /\ cursor <= Trailer
          /\ cursor = Trailer => search = 0
          /\ cursor # Trailer => /\ search >= cursor + 16 + MinAllocation
                                 /\ b <= cursor \/ search <= b
      BY <1>1, <3>1, <3>2, LinkFacts
    <3>4. CASE cursor = Trailer
      BY <3>3, <3>4 DEF Passed
    <3>5. CASE cursor # Trailer
      BY <3>3, <3>5, PoolFacts DEF Passed
    <3>6. QED
      BY <3>4, <3>5
  <2>3. \A b \in free : FreeSize(b) = Payload(b)
    BY DEF FreeSize
  <2>4. \A b \in free : b \in live
    BY <1>1 DEF IInv, TypeOK
  <2>5. \A b \in live : Passed(b) => FreeSize(b) < size
    BY <1>1 DEF IInv, SearchedSoFar
  <2>6. FreeSize(cursor) < size
    BY <2>1 DEF GetMemFail
  <2>7. QED
    BY <2>2, <2>3, <2>4, <2>5, <2>6
<1>2. IInv /\ [Next]_vars => [ (pc = "search" /\ pc' = "idle" /\ held' = held)
                               => \A b \in free : Payload(b) < size ]_vars
  BY <1>1
<1>3. QED
  BY <1>2, PoolInvariant, PTL DEF Spec, FullMeansFull

-----------------------------------------------------------------------------
(* A grant adds the region of the block at the cursor, cut at its new end. *)
LEMMA TakeRegion ==
  ASSUME IInv, GetMemTake
  PROVE  /\ held' = held \cup {cursor}
         /\ cursor \in live /\ cursor # Trailer
         /\ \A b \in held : nextMem'[b] = nextMem[b]
         /\ nextMem'[cursor] \in Int /\ nextMem'[cursor] <= nextMem[cursor]
<1>0. /\ cursor \in free /\ cursor \notin held /\ cursor # Trailer
      /\ cursor \in live /\ cursor \in Int
      /\ nextMem[cursor] \in live /\ nextMem[cursor] \in Int
      /\ FreeSize(cursor) = nextMem[cursor] - cursor - 16
      /\ size \in Nat /\ size >= MinAllocation
  BY TakeFacts DEF GetMemTake
<1>1. held' = held \cup {cursor} /\ held \subseteq live
  BY DEF GetMemTake, IInv, TypeOK
<1>2. CASE ~ MustSplit
  BY <1>0, <1>1, <1>2 DEF GetMemTake, TakeWhole
<1>3. CASE MustSplit
  <2>1. nextMem[cursor] - cursor - 16 >= size + 16 + MinAllocation
    BY <1>0, <1>3 DEF MustSplit, DM_OVERHEAD
  <2>2. cursor + size + 16 \notin live
    BY <1>0, <2>1, LinkFacts, PoolFacts
  <2>3. /\ live' = live \cup {cursor + size + 16}
        /\ nextMem' = [b \in live' |->
              IF b = cursor + size + 16 THEN nextMem[cursor]
              ELSE IF b = cursor THEN cursor + size + 16 ELSE nextMem[b]]
    BY <1>3 DEF GetMemTake, SplitBlock, DM_OVERHEAD
  <2>4. nextMem'[cursor] = cursor + size + 16
    BY <2>2, <2>3, <1>0
  <2>5. \A b \in held : nextMem'[b] = nextMem[b]
    BY <2>2, <2>3, <1>0, <1>1
  <2>6. nextMem'[cursor] \in Int /\ nextMem'[cursor] <= nextMem[cursor]
    BY <2>4, <2>1, <1>0, PoolFacts
  <2>7. QED
    BY <2>5, <2>6, <1>0, <1>1
<1>4. QED
  BY <1>2, <1>3

(* A grant is a grant of the abstract heap: the region is inside the pool, *)
(* aligned, and apart from every region held.                              *)
LEMMA TakeIsGrant ==
  ASSUME IInv, IInv', GetMemTake
  PROVE  H!HeapGrant
<1> DEFINE lo == cursor + 16
           hi == nextMem'[cursor]
<1>1. /\ held' = held \cup {cursor} /\ held \subseteq live
      /\ cursor \in live /\ cursor # Trailer /\ cursor \in Int /\ 0 <= cursor
      /\ \A b \in held : nextMem'[b] = nextMem[b]
      /\ hi \in Int /\ hi <= nextMem[cursor]
  BY TakeRegion, LinkFacts DEF IInv, TypeOK
<1>2. cursor \in held' /\ cursor \in live' /\ hi \in live'
  BY <1>1 DEF IInv, TypeOK
<1>3. hi <= Trailer /\ hi >= cursor + 16 + MinAllocation
  <2>1. live' \subseteq 0 .. Trailer
    BY DEF IInv, TypeOK
  <2>2. QED
    BY <1>1, <1>2, <2>1, PoolFacts DEF IInv, WellLinked, Tiled, DM_OVERHEAD
<1>4. cursor % 4 = 0 /\ hi % 4 = 0
  BY <1>1, <1>2 DEF IInv, WellLinked, WordAligned, WORD
<1> HIDE DEF hi
<1>5. lo \in H!HeapAddr /\ hi \in H!HeapAddr /\ lo < hi
  BY <1>1, <1>3, <1>4, PoolFacts DEF H!HeapAddr, WORD
<1>6. \A r \in HeldRegions : H!Disjoint(<<lo, hi>>, r)
  <2>1. SUFFICES ASSUME NEW b \in held
                 PROVE  H!Disjoint(<<lo, hi>>, <<b + 16, nextMem[b]>>)
    BY DEF HeldRegions, DM_OVERHEAD
  <2>2. b \in live /\ b \in Int /\ b # Trailer /\ b # cursor /\ nextMem[b] \in Int
    <3>1. b \in live /\ b # Trailer
      BY <1>1 DEF IInv, FreeUnlessHeld
    <3>2. b # cursor
      BY TakeFacts DEF GetMemTake
    <3>3. QED
      BY <3>1, <3>2, LinkFacts
  <2>3. b < cursor => nextMem[b] <= cursor
    BY <1>1, <2>2, LinkFacts
  <2>4. cursor < b => nextMem[cursor] <= b
    BY <1>1, <2>2, LinkFacts
  <2>5. nextMem[cursor] \in Int
    BY <1>1, LinkFacts
  <2>6. nextMem[b] <= lo \/ hi <= b + 16
    BY <1>1, <2>2, <2>3, <2>4, <2>5
  <2>7. QED
    BY <2>6 DEF H!Disjoint
<1>7. HeldRegions' = HeldRegions \cup {<<lo, hi>>}
  <2>1. HeldRegions' = {<<b + 16, nextMem'[b]>> : b \in held'}
    BY DEF HeldRegions, DM_OVERHEAD
  <2>2. HeldRegions = {<<b + 16, nextMem[b]>> : b \in held}
    BY DEF HeldRegions, DM_OVERHEAD
  <2>3. QED
    BY <2>1, <2>2, <1>1 DEF hi
<1>8. QED
  BY <1>5, <1>6, <1>7 DEF H!HeapGrant

(* A release gives back exactly the owner's region. *)
LEMMA FreeIsRelease ==
  ASSUME IInv, NEW b \in held, FreeMem(b)
  PROVE  H!HeapRelease
<1>1. /\ b \notin free /\ prevMem[b] \in live
  BY FreeFacts
<1>2. /\ held' = held \ {b} /\ held \subseteq live
      /\ \A x \in held : x \notin free /\ x \in Int
  <2>1. held' = held \ {b}
    BY DEF FreeMem
  <2>2. QED
    BY <2>1, LinkFacts DEF IInv, TypeOK, FreeUnlessHeld
<1>3. ASSUME NEW x \in held'
      PROVE  nextMem'[x] = nextMem[x]
  <2>1. x \in held /\ x # b /\ x \in live /\ x \notin free
    BY <1>2
  <2>2. x \in live'
    BY <2>1 DEF FreeMem
  <2>3. QED
    BY <2>1, <2>2 DEF FreeMem
<1>4. HeldRegions' = HeldRegions \ {<<b + 16, nextMem[b]>>}
  <2>1. HeldRegions' = {<<x + 16, nextMem[x]>> : x \in held'}
    BY <1>3 DEF HeldRegions, DM_OVERHEAD
  <2>2. HeldRegions = {<<x + 16, nextMem[x]>> : x \in held}
    BY DEF HeldRegions, DM_OVERHEAD
  <2>3. QED
    BY <2>1, <2>2, <1>2
<1>5. <<b + 16, nextMem[b]>> \in HeldRegions
  BY DEF HeldRegions, DM_OVERHEAD
<1>6. QED
  BY <1>4, <1>5 DEF H!HeapRelease

(* The pool of os_dmem.c implements the abstract heap: whatever is         *)
(* allocated and returned in whatever order, the regions callers hold are  *)
(* aligned, inside the pool, disjoint, and stay where they are.            *)
THEOREM PoolImplementsHeap == Spec => ImplementsHeap
<1>1. Init => H!HeapInit
  BY DEF Init, H!HeapInit, HeldRegions
<1>2. IInv /\ IInv' /\ [Next]_vars => [H!HeapNext]_HeldRegions
  <2> SUFFICES ASSUME IInv, IInv', [Next]_vars
               PROVE  [H!HeapNext]_HeldRegions
    OBVIOUS
  <2>1. CASE GetMemTake
    BY <2>1, TakeIsGrant DEF H!HeapNext
  <2>2. ASSUME NEW b \in held, FreeMem(b)
        PROVE  H!HeapNext
    BY <2>2, FreeIsRelease DEF H!HeapNext
  <2>3. ASSUME nextMem' = nextMem, held' = held
        PROVE  HeldRegions' = HeldRegions
    BY <2>3 DEF HeldRegions
  <2>4. ASSUME NEW n \in Requests, GetMemEnter(n)
        PROVE  HeldRegions' = HeldRegions
    BY <2>3, <2>4 DEF GetMemEnter, poolVars
  <2>5. CASE SearchStep \/ GetMemFail \/ UNCHANGED vars
    BY <2>3, <2>5 DEF SearchStep, GetMemFail, vars, poolVars
  <2>6. QED
    BY <2>1, <2>2, <2>4, <2>5 DEF Next, GetMem
<1>3. QED
  BY <1>1, <1>2, PoolInvariant, PTL DEF Spec, ImplementsHeap, H!HeapSpec

-----------------------------------------------------------------------------
(* The count of available bytes.  Sums over the addresses of the pool come *)
(* first; their inductions look at the least address that goes wrong.      *)

(* A set of numbers that is not empty has a least one. *)
LEMMA LeastNat ==
  ASSUME NEW S, S \subseteq Nat, S # {}
  PROVE  \E k \in S : \A j \in S : k <= j
<1> DEFINE R == OpToRel(<, Nat)
<1>1. ASSUME NEW j \in Nat, NEW k \in Nat PROVE <<j, k>> \in R \/ k <= j
  BY DEF OpToRel
<1>2. IsWellFoundedOn(R, Nat)
  BY NatLessThanWellFounded
<1> HIDE DEF R
<1>3. PICK k \in S : \A j \in S : ~ (<<j, k>> \in R)
  BY <1>2, WFMin, Zenon
<1>4. \A j \in S : k <= j
  BY <1>1, <1>3, Zenon
<1>5. QED
  BY <1>4

(* s holds the sums of the first values of c. *)
Sums(s, c, n) == s[0] = 0 /\ \A a \in 1 .. n : s[a] = s[a - 1] + c[a - 1]

(* Every finite row of numbers has its sums. *)
LEMMA SumsExist ==
  ASSUME NEW n \in Nat, NEW c \in [0 .. n - 1 -> Int]
  PROVE  \E s \in [0 .. n -> Int] : Sums(s, c, n)
<1> DEFINE Bad == {k \in 0 .. n : ~ \E s \in [0 .. k -> Int] : Sums(s, c, k)}
<1>1. ASSUME Bad # {} PROVE FALSE
  <2>1. PICK k \in Bad : \A j \in Bad : k <= j
    <3>1. Bad \subseteq Nat
      OBVIOUS
    <3> HIDE DEF Bad
    <3>2. QED
      BY <1>1, <3>1, LeastNat
  <2>2. k \in 0 .. n /\ ~ \E s \in [0 .. k -> Int] : Sums(s, c, k)
    BY <2>1
  <2>3. CASE k = 0
    <3> DEFINE s == [a \in 0 .. 0 |-> 0]
    <3>1. s \in [0 .. k -> Int] /\ Sums(s, c, k)
      BY <2>3 DEF Sums
    <3>2. QED
      BY <2>2, <3>1
  <2>4. CASE k # 0
    <3>1. k - 1 \in 0 .. n /\ k - 1 \notin Bad
      <4>1. k - 1 \in 0 .. n /\ ~ (k <= k - 1)
        BY <2>2, <2>4
      <4>2. QED
        BY <2>1, <4>1
    <3>2. PICK s \in [0 .. k - 1 -> Int] : Sums(s, c, k - 1)
      BY <3>1
    <3> DEFINE r == [a \in 0 .. k |-> IF a = k THEN s[k - 1] + c[k - 1] ELSE s[a]]
    <3>3. r \in [0 .. k -> Int]
      BY <2>2, <2>4
    <3>4. r[0] = 0
      BY <2>2, <2>4, <3>2 DEF Sums
    <3>5. ASSUME NEW a \in 1 .. k PROVE r[a] = r[a - 1] + c[a - 1]
      BY <2>2, <2>4, <3>2 DEF Sums
    <3>6. QED
      BY <2>2, <3>3, <3>4, <3>5 DEF Sums
  <2>5. QED
    BY <2>3, <2>4
<1>2. n \in 0 .. n
  OBVIOUS
<1>3. n \notin Bad
  BY <1>1, Zenon
<1>4. QED
  BY <1>2, <1>3, Zenon

(* Two functions of such sums agree. *)
LEMMA SumsAgree ==
  ASSUME NEW n \in Nat, NEW c \in [0 .. n - 1 -> Int], NEW s \in [0 .. n -> Int], NEW r,
         Sums(s, c, n), Sums(r, c, n)
  PROVE  \A a \in 0 .. n : r[a] = s[a]
<1> DEFINE Bad == {a \in 0 .. n : r[a] # s[a]}
<1>1. ASSUME Bad # {} PROVE FALSE
  <2>1. PICK k \in Bad : \A j \in Bad : k <= j
    <3>1. Bad \subseteq Nat
      OBVIOUS
    <3> HIDE DEF Bad
    <3>2. QED
      BY <1>1, <3>1, LeastNat
  <2>2. k \in 1 .. n /\ k - 1 \in 0 .. n /\ ~ (k <= k - 1)
    BY <2>1 DEF Sums
  <2>3. r[k - 1] = s[k - 1]
    BY <2>1, <2>2
  <2>4. QED
    BY <2>1, <2>2, <2>3 DEF Sums
<1>2. QED
  BY <1>1

(* What Total is. *)
LEMMA TotalIsSum ==
  ASSUME NEW n \in Nat, NEW c \in [0 .. n - 1 -> Int], NEW s \in [0 .. n -> Int], Sums(s, c, n)
  PROVE  Total(c, n) = s[n]
<1> DEFINE F(r) == [a \in 0 .. n |-> IF a = 0 THEN 0 ELSE r[a - 1] + c[a - 1]]
           w == CHOOSE r : r = F(r)
<1>1. Total(c, n) = w[n]
  BY DEF Total
<1>2. s = F(s)
  <2>1. \A a \in 0 .. n : s[a] = F(s)[a]
    BY DEF Sums
  <2>2. QED
    BY <2>1
<1>3. w = F(w)
  BY <1>2
<1> HIDE DEF w
<1>4. Sums(w, c, n)
  <2>1. w[0] = 0
    BY <1>3
  <2>2. ASSUME NEW a \in 1 .. n PROVE w[a] = w[a - 1] + c[a - 1]
    <3>1. a \in 0 .. n /\ a # 0
      OBVIOUS
    <3>2. F(w)[a] = w[a - 1] + c[a - 1]
      BY <3>1
    <3>3. QED
      BY <1>3, <3>2
  <2>3. QED
    BY <2>1, <2>2 DEF Sums
<1>5. QED
  BY <1>1, <1>4, SumsAgree

(* Changing c at x changes the sum by as much. *)
LEMMA TotalUpdate ==
  ASSUME NEW n \in Nat, NEW c \in [0 .. n - 1 -> Int], NEW d \in [0 .. n - 1 -> Int],
         NEW x \in 0 .. n - 1, \A a \in 0 .. n - 1 : a # x => d[a] = c[a]
  PROVE  Total(c, n) \in Int /\ Total(d, n) = Total(c, n) + d[x] - c[x]
<1>1. PICK s \in [0 .. n -> Int] : Sums(s, c, n)
  BY SumsExist
<1> DEFINE r == [a \in 0 .. n |-> IF a <= x THEN s[a] ELSE s[a] + d[x] - c[x]]
<1>2. r \in [0 .. n -> Int]
  OBVIOUS
<1>3. Sums(r, d, n)
  <2>1. r[0] = 0
    BY <1>1 DEF Sums
  <2>2. ASSUME NEW a \in 1 .. n PROVE r[a] = r[a - 1] + d[a - 1]
    <3>1. s[a] = s[a - 1] + c[a - 1] /\ a \in 0 .. n /\ a - 1 \in 0 .. n /\ a - 1 \in 0 .. n - 1
      BY <1>1 DEF Sums
    <3>2. CASE a <= x
      BY <3>1, <3>2
    <3>3. CASE a - 1 = x
      BY <3>1, <3>3
    <3>4. CASE a - 1 > x
      BY <3>1, <3>4
    <3>5. QED
      BY <3>2, <3>3, <3>4
  <2>3. QED
    BY <2>1, <2>2 DEF Sums
<1>4. Total(c, n) = s[n] /\ Total(d, n) = r[n]
  BY <1>1, <1>2, <1>3, TotalIsSum
<1>5. r[n] = s[n] + d[x] - c[x]
  OBVIOUS
<1>6. QED
  BY <1>1, <1>4, <1>5

(* What the bytes free at each address are. *)
FreeBytesFacts ==
  /\ PoolSize \in Nat /\ FreeBytes \in [0 .. PoolSize - 1 -> Int]
  /\ \A b \in live : b \in 0 .. PoolSize - 1
  /\ \A b \in free : FreeBytes[b] = nextMem[b] - b - 16
  /\ \A a \in 0 .. PoolSize - 1 : a \notin free => FreeBytes[a] = 0

(* They are numbers, in every state of the pool. *)
LEMMA FreeBytesType == IInv => FreeBytesFacts
<1> SUFFICES ASSUME IInv PROVE FreeBytesFacts
  OBVIOUS
<1>1. PoolSize \in Nat /\ Trailer \in Nat /\ PoolSize = Trailer + 16
  BY PoolFacts
<1>2. \A b \in live : b \in 0 .. PoolSize - 1 /\ nextMem[b] \in Int
  BY <1>1, LinkFacts
<1>3. free \subseteq live
  BY DEF IInv, TypeOK
<1>4. FreeBytes = [a \in 0 .. PoolSize - 1 |-> IF a \in free THEN nextMem[a] - a - 16 ELSE 0]
  BY DEF FreeBytes, Payload, DM_OVERHEAD
<1>5. QED
  BY <1>1, <1>2, <1>3, <1>4 DEF FreeBytesFacts

(* So they are after a step. *)
LEMMA FreeBytesTypeNext == IInv' => FreeBytesFacts'
BY FreeBytesType, PTL

(* At first the bytes of the only block are available. *)
LEMMA InitAvailable == Init => AvailableExact
<1> SUFFICES ASSUME Init PROVE AvailableExact
  OBVIOUS
<1> DEFINE zero == [a \in 0 .. PoolSize - 1 |-> 0]
           sums == [a \in 0 .. PoolSize |-> 0]
<1>1. /\ PoolSize \in Nat /\ FreeBytes \in [0 .. PoolSize - 1 -> Int] /\ 0 \in 0 .. PoolSize - 1
      /\ FreeBytes[0] = PoolSize - 32
      /\ \A a \in 0 .. PoolSize - 1 : a # 0 => FreeBytes[a] = 0
  <2>1. IInv /\ free = {0} /\ nextMem[0] = Trailer /\ 0 \in live
    BY InitIInv, PoolFacts DEF Init
  <2>2. QED
    BY <2>1, FreeBytesType, PoolFacts DEF FreeBytesFacts
<1>2. zero \in [0 .. PoolSize - 1 -> Int] /\ sums \in [0 .. PoolSize -> Int]
  OBVIOUS
<1>3. Sums(sums, zero, PoolSize)
  BY <1>1 DEF Sums
<1>4. Total(zero, PoolSize) = 0
  <2>1. sums[PoolSize] = 0
    BY <1>1
  <2> HIDE DEF sums, zero
  <2>2. QED
    BY <1>1, <1>2, <1>3, <2>1, TotalIsSum
<1>5. Total(FreeBytes, PoolSize) = Total(zero, PoolSize) + FreeBytes[0] - zero[0]
  <2>1. \A a \in 0 .. PoolSize - 1 : a # 0 => FreeBytes[a] = zero[a]
    BY <1>1
  <2> HIDE DEF zero
  <2>2. QED
    BY <1>1, <1>2, <2>1, TotalUpdate
<1>6. available = PoolSize - 32
  BY DEF Init, DM_OVERHEAD
<1>7. QED
  BY <1>1, <1>4, <1>5, <1>6 DEF AvailableExact

(* A whole block is subtracted. *)
LEMMA TakeWholeAvailable ==
  ASSUME IInv, AvailableExact, GetMemTake, ~ MustSplit
  PROVE  AvailableExact'
<1>1. /\ cursor \in free /\ cursor \in live /\ FreeSize(cursor) = nextMem[cursor] - cursor - 16
      /\ free' = free \ {cursor} /\ nextMem' = nextMem /\ live' = live
      /\ available' = available - FreeSize(cursor)
  BY TakeFacts DEF GetMemTake, TakeWhole
<1>2. IInv'
  BY TakeWholeIInv
<1>3. /\ PoolSize \in Nat /\ FreeBytes \in [0 .. PoolSize - 1 -> Int]
      /\ FreeBytes' \in [0 .. PoolSize - 1 -> Int] /\ cursor \in 0 .. PoolSize - 1
      /\ FreeBytes[cursor] = FreeSize(cursor) /\ FreeBytes'[cursor] = 0
      /\ \A a \in 0 .. PoolSize - 1 : a # cursor => FreeBytes'[a] = FreeBytes[a]
  <2>1. /\ PoolSize \in Nat /\ FreeBytes \in [0 .. PoolSize - 1 -> Int]
        /\ cursor \in 0 .. PoolSize - 1 /\ FreeBytes[cursor] = FreeSize(cursor)
    BY <1>1, FreeBytesType DEF FreeBytesFacts
  <2>2. FreeBytes' \in [0 .. PoolSize - 1 -> Int]
    BY <1>2, FreeBytesTypeNext DEF FreeBytesFacts
  <2>3. /\ FreeBytes'[cursor] = 0
        /\ \A a \in 0 .. PoolSize - 1 : a # cursor => FreeBytes'[a] = FreeBytes[a]
    BY <1>1, <2>1 DEF FreeBytes, Payload
  <2>4. QED
    BY <2>1, <2>2, <2>3
<1>4. Total(FreeBytes, PoolSize) \in Int
      /\ Total(FreeBytes', PoolSize) = Total(FreeBytes, PoolSize) + FreeBytes'[cursor] - FreeBytes[cursor]
  <2> DEFINE d == FreeBytes'
  <2>1. /\ PoolSize \in Nat /\ FreeBytes \in [0 .. PoolSize - 1 -> Int]
        /\ d \in [0 .. PoolSize - 1 -> Int] /\ cursor \in 0 .. PoolSize - 1
    BY <1>3
  <2>2. \A a \in 0 .. PoolSize - 1 : a # cursor => d[a] = FreeBytes[a]
    BY <1>3
  <2> HIDE DEF d
  <2>3. QED
    BY <2>1, <2>2, TotalUpdate DEF d
<1>5. QED
  BY <1>1, <1>3, <1>4 DEF AvailableExact

(* The front of a block and the header of the rest are subtracted. *)
LEMMA SplitAvailable ==
  ASSUME IInv, AvailableExact, GetMemTake, MustSplit
  PROVE  AvailableExact'
<1> DEFINE new == cursor + size + 16
           nxt == nextMem[cursor]
           mid == [FreeBytes EXCEPT ![cursor] = 0]
<1>1. /\ cursor \in free /\ cursor \in live /\ cursor \in Int /\ cursor # Trailer
      /\ nxt \in Int /\ size \in Nat /\ size >= MinAllocation
      /\ FreeSize(cursor) = nxt - cursor - 16 /\ FreeSize(cursor) >= size + 16 + MinAllocation
  BY TakeFacts DEF GetMemTake, MustSplit, DM_OVERHEAD
<1>2. /\ live' = live \cup {new} /\ free' = (free \cup {new}) \ {cursor}
      /\ nextMem' = [b \in live' |-> IF b = new THEN nxt
                                     ELSE IF b = cursor THEN new ELSE nextMem[b]]
      /\ available' = available - size - 16
  BY DEF GetMemTake, SplitBlock, DM_OVERHEAD
<1>3. IInv' /\ free \subseteq live
  BY SplitIInv DEF IInv, TypeOK
<1>4. new \notin live /\ new \in live' /\ new \in free' /\ new # cursor /\ nextMem'[new] = nxt
  <2>1. new \notin live
    BY <1>1, LinkFacts, PoolFacts
  <2>2. QED
    BY <1>1, <1>2, <2>1
<1> HIDE DEF new, nxt
<1>5. /\ PoolSize \in Nat /\ FreeBytes \in [0 .. PoolSize - 1 -> Int]
      /\ cursor \in 0 .. PoolSize - 1 /\ FreeBytes[cursor] = nxt - cursor - 16
      /\ new \in 0 .. PoolSize - 1
      /\ FreeBytes' \in [0 .. PoolSize - 1 -> Int] /\ FreeBytes'[new] = nxt - new - 16
  <2>1. /\ PoolSize \in Nat /\ FreeBytes \in [0 .. PoolSize - 1 -> Int]
        /\ cursor \in 0 .. PoolSize - 1 /\ FreeBytes[cursor] = nxt - cursor - 16
    BY <1>1, FreeBytesType DEF FreeBytesFacts, nxt
  <2>2. /\ FreeBytes' \in [0 .. PoolSize - 1 -> Int] /\ new \in 0 .. PoolSize - 1
        /\ FreeBytes'[new] = nextMem'[new] - new - 16
    BY <1>3, <1>4, FreeBytesTypeNext DEF FreeBytesFacts
  <2>3. QED
    BY <1>4, <2>1, <2>2
<1>6. /\ mid \in [0 .. PoolSize - 1 -> Int] /\ mid[cursor] = 0 /\ mid[new] = 0
      /\ \A a \in 0 .. PoolSize - 1 : a # cursor => mid[a] = FreeBytes[a]
      /\ \A a \in 0 .. PoolSize - 1 : a # new => FreeBytes'[a] = mid[a]
  <2>1. FreeBytes[new] = 0
    BY <1>3, <1>4, <1>5, FreeBytesType DEF FreeBytesFacts
  <2>2. \A a \in 0 .. PoolSize - 1 : a # new => FreeBytes'[a] = IF a = cursor THEN 0 ELSE FreeBytes[a]
    BY <1>1, <1>2, <1>3 DEF FreeBytes, Payload
  <2>3. QED
    BY <1>4, <1>5, <2>1, <2>2
<1> HIDE DEF mid
<1>7. Total(FreeBytes, PoolSize) \in Int
      /\ Total(mid, PoolSize) = Total(FreeBytes, PoolSize) + mid[cursor] - FreeBytes[cursor]
  BY <1>5, <1>6, TotalUpdate
<1>8. Total(FreeBytes', PoolSize) = Total(mid, PoolSize) + FreeBytes'[new] - mid[new]
  BY <1>5, <1>6, TotalUpdate
<1>9. QED
  BY <1>1, <1>2, <1>5, <1>6, <1>7, <1>8 DEF AvailableExact, new

(* A released block is added, with the header of each block it swallows    *)
(* or is swallowed by.                                                     *)
LEMMA FreeAvailable ==
  ASSUME IInv, AvailableExact, NEW b \in held, FreeMem(b)
  PROVE  AvailableExact'
<1> DEFINE p     == prevMem[b]
           n     == nextMem[b]
           h     == IF p \in free THEN p ELSE b
           last  == IF n \in free THEN nextMem[n] ELSE n
           dead  == (IF p \in free THEN {b} ELSE {}) \cup (IF n \in free THEN {n} ELSE {})
           mid   == [FreeBytes EXCEPT ![n] = 0]
<1>1. /\ b \in live /\ b \notin free /\ b \in Int /\ p \in live /\ n \in live
      /\ nextMem[p] = b /\ n > b /\ (p \in free => p < b)
  BY FreeFacts
<1>2. p \in Int /\ n \in Int /\ nextMem[n] \in Int /\ free \subseteq live
  BY <1>1, LinkFacts DEF IInv, TypeOK
<1>3. /\ live' = live \ dead /\ free' = (free \ dead) \cup {h}
      /\ nextMem' = [x \in live' |-> IF x = h THEN last ELSE nextMem[x]]
      /\ available' = available + (n - b - 16) + (IF p \in free THEN 16 ELSE 0)
                                              + (IF n \in free THEN 16 ELSE 0)
  BY DEF FreeMem, Payload, DM_OVERHEAD
<1>4. IInv'
  BY FreeIInv
<1>5. h \in live /\ h \in live' /\ h \in free' /\ h # n /\ h \in Int /\ nextMem'[h] = last
  BY <1>1, <1>2, <1>3
<1>6. /\ PoolSize \in Nat /\ FreeBytes \in [0 .. PoolSize - 1 -> Int]
      /\ h \in 0 .. PoolSize - 1 /\ n \in 0 .. PoolSize - 1
      /\ FreeBytes[n] = (IF n \in free THEN nextMem[n] - n - 16 ELSE 0)
      /\ FreeBytes[h] = (IF p \in free THEN b - p - 16 ELSE 0)
      /\ FreeBytes' \in [0 .. PoolSize - 1 -> Int] /\ FreeBytes'[h] = last - h - 16
  <2> HIDE DEF n, p
  <2>1. /\ PoolSize \in Nat /\ FreeBytes \in [0 .. PoolSize - 1 -> Int]
        /\ h \in 0 .. PoolSize - 1 /\ n \in 0 .. PoolSize - 1
        /\ FreeBytes[n] = (IF n \in free THEN nextMem[n] - n - 16 ELSE 0)
        /\ FreeBytes[h] = (IF p \in free THEN b - p - 16 ELSE 0)
    BY <1>1, <1>5, FreeBytesType DEF FreeBytesFacts
  <2>2. FreeBytes' \in [0 .. PoolSize - 1 -> Int] /\ FreeBytes'[h] = nextMem'[h] - h - 16
    <3> HIDE DEF h
    <3>1. QED
      BY <1>4, <1>5, FreeBytesTypeNext DEF FreeBytesFacts
  <2>3. QED
    BY <1>5, <2>1, <2>2
<1>7. \A a \in 0 .. PoolSize - 1 : a # h =>
         FreeBytes'[a] = IF a = n THEN 0 ELSE FreeBytes[a]
  <2>1. ASSUME NEW a \in 0 .. PoolSize - 1, a # h
        PROVE  /\ FreeBytes'[a] = IF a \in free' THEN nextMem'[a] - a - 16 ELSE 0
               /\ FreeBytes[a] = IF a \in free THEN nextMem[a] - a - 16 ELSE 0
    BY DEF FreeBytes, Payload, DM_OVERHEAD
  <2>2. ASSUME NEW a \in 0 .. PoolSize - 1, a # h
        PROVE  /\ a = n => a \notin free'
               /\ a # n => (a \in free' <=> a \in free)
               /\ a # n /\ a \in free => nextMem'[a] = nextMem[a]
    <3> HIDE DEF n, p, last
    <3>1. QED
      BY <1>1, <1>2, <1>3, <2>2
  <2>3. QED
    BY <2>1, <2>2
<1> HIDE DEF p, n, h, last, dead
<1>8. /\ mid \in [0 .. PoolSize - 1 -> Int] /\ mid[n] = 0 /\ mid[h] = FreeBytes[h]
      /\ \A a \in 0 .. PoolSize - 1 : a # n => mid[a] = FreeBytes[a]
      /\ \A a \in 0 .. PoolSize - 1 : a # h => FreeBytes'[a] = mid[a]
  BY <1>5, <1>6, <1>7
<1> HIDE DEF mid
<1>9. Total(FreeBytes, PoolSize) \in Int
      /\ Total(mid, PoolSize) = Total(FreeBytes, PoolSize) + mid[n] - FreeBytes[n]
  <2>1. \A a \in 0 .. PoolSize - 1 : a # n => mid[a] = FreeBytes[a]
    BY <1>8
  <2>2. /\ PoolSize \in Nat /\ FreeBytes \in [0 .. PoolSize - 1 -> Int]
        /\ mid \in [0 .. PoolSize - 1 -> Int] /\ n \in 0 .. PoolSize - 1
    BY <1>6, <1>8
  <2>3. QED
    BY <2>1, <2>2, TotalUpdate
<1>10. Total(FreeBytes', PoolSize) = Total(mid, PoolSize) + FreeBytes'[h] - mid[h]
  <2> DEFINE d == FreeBytes'
  <2>1. \A a \in 0 .. PoolSize - 1 : a # h => d[a] = mid[a]
    BY <1>8
  <2>2. /\ PoolSize \in Nat /\ mid \in [0 .. PoolSize - 1 -> Int]
        /\ d \in [0 .. PoolSize - 1 -> Int] /\ h \in 0 .. PoolSize - 1
    BY <1>6, <1>8
  <2> HIDE DEF d
  <2>3. QED
    BY <2>1, <2>2, TotalUpdate DEF d
<1>11. FreeBytes'[h] - FreeBytes[h] - FreeBytes[n]
         = (n - b - 16) + (IF p \in free THEN 16 ELSE 0) + (IF n \in free THEN 16 ELSE 0)
  <2>1. /\ h = (IF p \in free THEN p ELSE b) /\ last = (IF n \in free THEN nextMem[n] ELSE n)
        /\ FreeBytes'[h] = last - h - 16 /\ last \in Int /\ h \in Int
    BY <1>1, <1>2, <1>6 DEF h, last
  <2>2. FreeBytes[h] = (IF p \in free THEN b - p - 16 ELSE 0)
    BY <1>6
  <2>3. FreeBytes[n] = (IF n \in free THEN nextMem[n] - n - 16 ELSE 0)
    BY <1>6
  <2>4. FreeBytes'[h] - FreeBytes[h] = last - b - 16 + (IF p \in free THEN 16 ELSE 0)
    BY <1>1, <1>2, <2>1, <2>2
  <2>5. last - FreeBytes[n] = n + (IF n \in free THEN 16 ELSE 0) /\ FreeBytes[n] \in Int
    BY <1>1, <1>2, <2>1, <2>3
  <2>6. FreeBytes'[h] \in Int /\ FreeBytes[h] \in Int
    BY <1>1, <1>2, <2>1, <2>2
  <2>7. QED
    BY <1>1, <1>2, <2>1, <2>4, <2>5, <2>6
<1>12. FreeBytes'[h] \in Int /\ FreeBytes[h] \in Int /\ FreeBytes[n] \in Int
  BY <1>6
<1>13. QED
  <2> DEFINE more == (n - b - 16) + (IF p \in free THEN 16 ELSE 0) + (IF n \in free THEN 16 ELSE 0)
  <2>1. more \in Int /\ available' = available + more
    BY <1>1, <1>2, <1>3 DEF IInv, TypeOK
  <2>2. FreeBytes'[h] - FreeBytes[h] - FreeBytes[n] = more
    BY <1>11
  <2> HIDE DEF more
  <2>3. Total(FreeBytes', PoolSize) = Total(FreeBytes, PoolSize) + more
    BY <1>8, <1>9, <1>10, <1>12, <2>1, <2>2
  <2>4. QED
    BY <2>1, <2>3 DEF AvailableExact

(* dm_available never drifts from the bytes that are free. *)
THEOREM PoolAvailableExact == Spec => []AvailableExact
<1>1. Init => AvailableExact
  BY InitAvailable
<1>2. IInv /\ AvailableExact /\ [Next]_vars => AvailableExact'
  <2> SUFFICES ASSUME IInv, AvailableExact, [Next]_vars PROVE AvailableExact'
    OBVIOUS
  <2>1. CASE GetMemTake
    BY <2>1, TakeWholeAvailable, SplitAvailable
  <2>2. ASSUME NEW b \in held, FreeMem(b) PROVE AvailableExact'
    BY <2>2, FreeAvailable
  <2>3. CASE UNCHANGED poolVars
    BY <2>3 DEF poolVars, AvailableExact, FreeBytes, Payload
  <2>4. QED
    BY <2>1, <2>2, <2>3 DEF Next, GetMem, GetMemEnter, SearchStep, GetMemFail, vars
<1>3. QED
  BY <1>1, <1>2, PoolInvariant, PTL DEF Spec
=============================================================================
