------------------------- MODULE FlashConfigProofs -------------------------
(***************************************************************************)
(* Proofs about the saves of the configuration, for every number of        *)
(* networks, attempts and faults: what a boot finds changes only as the    *)
(* store allows, with torn and cut commands accounted for; an undisturbed  *)
(* save that verified is the one found; the reset button's empty           *)
(* configuration holds; and the rest of the sector survives two saves that *)
(* nest.                                                                   *)
(***************************************************************************)
EXTENDS FlashConfig, TLAPS

Resting     == {"idle", "saved"}
Programming == {"ewait", "try", "command", "wait", "readback", "compare", "page"}
Writing     == {"ewren", "erase"} \cup Programming

(* The configuration part of contents c. *)
IsBlank(c)  == \A x \in ConfigCells : c[x] = Erased
Shows(c, v) == \A x \in ConfigCells : c[x] = Stored(v)[x]

(* Where a writer is, and what it holds there. *)
WriterInv(w) ==
  /\ pc[w] \in Resting <=> net[w] = None
  /\ pc[w] \in Writing => Shows(image[w], net[w])
  /\ pc[w] \in {"ewren", "erase", "ewait"} => pages[w] = 2 /\ page[w] = 1
  /\ pc[w] # "page" => j[w] # 65535
  /\ pc[w] \in {"command", "wait", "readback", "compare"} => j[w] < TRIES

Writer == /\ \A w \in Writers : WriterInv(w)
          /\ pc["app"] # "saved"
          /\ net["app"] \in Nets \cup {None} /\ net["reset"] \in {NoNet, None}

(* The command the chip carries out is that of a writer that waits, whole  *)
(* or, once there was a fault, truncated.                                  *)
Sent(w) ==
  \/ (busy = [op |-> "erase"] /\ pc[w] = "ewait")
  \/ /\ pc[w] = "wait"
     /\ \E d \in {image[w]} \cup Truncated(image[w], page[w]) :
          /\ busy = [op |-> "program", page |-> page[w], data |-> d]
          /\ d # image[w] => faults > 0

Chip == /\ busy = Ready \/ Sent("app") \/ Sent("reset")
        /\ "blind" \notin mishaps /\ pc["reset"] \in Writing => busy = Ready \/ Sent("reset")

(* Nothing programmed onto the flag of c makes it that of a configuration; *)
(* c is a configuration of n, or one that is still to be completed.        *)
Dead(c)      == "common" \notin c["flag"]
PartOf(c, n) == \A x \in ConfigCells : Stored(n)[x] \subseteq c[x]

(* Unless an erase command was cut, no older network is left in the sector *)
(* once the application has sent its own, although a save of the reset     *)
(* button may have used up its write enable.                               *)
Cleared == busy = [op |-> "erase"] \/ Dead(cells) \/ IsBlank(cells)

Sector ==
  "cut_erase" \notin mishaps =>
    /\ pc["app"] \in Programming => Cleared \/ PartOf(cells, net["app"])
    /\ pc["app"] = "erase" =>
         \/ Cleared
         \/ busy = Ready /\ wel /\ pc["reset"] \in {"idle", "saved", "read", "ewren", "erase"}

Inv == TypeOK /\ Writer /\ Chip /\ Sector

(* What a writer that nobody disturbs has verified is in the sector: the   *)
(* application when the button has not been pressed, the reset button when *)
(* it has not read the sector blindly.                                     *)
Alone(w)      == IF w = "app" THEN pc["reset"] = "idle" ELSE "blind" \notin mishaps
Failure(w)    == IF w = "app" THEN "no_config" ELSE "no_reset"
Verified(w)   == pc[w] = "page" /\ j[w] # 65535
ReadBackIs(w) == PageBuf = [x \in PageCells[page[w]] |-> cells[x]]

VerifiedInv(w) ==
  Alone(w) =>
    /\ pc[w] = "compare" => ReadBackIs(w)
    /\ Failure(w) \notin mishaps /\ pc[w] \in Writing /\ (page[w] = 2 \/ Verified(w))
         => Shows(cells, net[w])

(* Every program command of the reset button uses up a write enable, ...   *)
EnableInv ==
  mishaps \cap {"blind", "cut_program"} = {} =>
    /\ pc["reset"] \in {"ewren", "erase", "ewait"} => j["reset"] = TRIES
    /\ pc["reset"] = "command" => wel
    /\ pc["reset"] = "try" => ~ wel \/ j["reset"] = TRIES
    /\ pc["reset"] = "wait" => ~ wel \/ busy # Ready
    /\ pc["reset"] \in {"readback", "compare", "page"} => ~ wel

(* ... the one of an interrupted erase too: what it leaves then holds, if  *)
(* the application had got as far as that.                                 *)
ResetSaved ==
  /\ pc["reset"] # "idle" /\ ~ undoable => pc["app"] \notin {"read", "ewren"}
  /\ pc["reset"] = "saved" /\ ~ undoable
       /\ mishaps \cap {"blind", "no_reset", "cut_program"} = {} =>
       /\ Shows(cells, NoNet) /\ busy # [op |-> "erase"]
       /\ pc["app"] = "erase" => ~ wel

(* A writer owes the rest of the sector from its erase command until it    *)
(* has verified the second page.                                           *)
Owes(w) == pages[w] = 2 /\ pc[w] \in Programming /\ ~ (page[w] = 2 /\ Verified(w))

RestKept == cells["rest"] = RestData \/ (Owes("reset") /\ image["reset"]["rest"] = RestData)

(* The rest of the sector is never less than its data, and the image of a  *)
(* reset that has read more than it does so because the application is     *)
(* still writing it.                                                       *)
InPart == {Half(RestData), Erased}

RestGood ==
  /\ cells["rest"] \in {RestData} \cup InPart
  /\ RestKept \/ Owes("app")
  /\ pc["app"] \in Writing => image["app"]["rest"] = RestData
  /\ pc["reset"] \in Writing =>
       /\ image["reset"]["rest"] = RestData \/ (image["reset"]["rest"] \in InPart /\ Owes("app"))
       /\ image["reset"]["rest"] \in InPart => cells["rest"] \in InPart
  /\ pc["app"] = "compare" /\ page["app"] = 2 /\ PageBuf = [x \in {"rest"} |-> RestData]
       => RestKept

RestInv == mishaps \subseteq Harmless => RestGood

-----------------------------------------------------------------------------
(* Contents of the sector. *)

Contents == [Cells -> SUBSET Bits]

(* The first page holds the configuration, the second the rest.            *)
LEMMA CellFacts ==
  /\ ConfigCells \subseteq Cells /\ "rest" \in Cells /\ "rest" \notin ConfigCells
  /\ "flag" \in ConfigCells /\ "ssid" \in ConfigCells /\ "key" \in ConfigCells
  /\ PageCells[1] = ConfigCells /\ PageCells[2] = {"rest"}
  /\ Cells = ConfigCells \cup {"rest"}
BY DEF ConfigCells, Cells, PageCells

(* The values a cell may hold differ from one another.                     *)
LEMMA BitFacts ==
  /\ Erased # Zero /\ Erased # RestData /\ Zero # RestData
  /\ XPG_CFG_FLAG_CONNECTED # Erased /\ XPG_CFG_FLAG_CONNECTED # Zero
  /\ Erased \in SUBSET Bits /\ Zero \in SUBSET Bits /\ RestData \in SUBSET Bits
  /\ XPG_CFG_FLAG_CONNECTED \in SUBSET Bits
BY DEF Erased, Zero, RestData, XPG_CFG_FLAG_CONNECTED, Bits

(* What a save puts into the cells of the configuration.                   *)
LEMMA StoredFacts ==
  /\ \A x \in ConfigCells : Stored(NoNet)[x] = Zero
  /\ \A n \in Nets : /\ Stored(n)["flag"] = XPG_CFG_FLAG_CONNECTED
                     /\ Stored(n)["ssid"] = Of(n) /\ Stored(n)["key"] = Of(n)
  /\ \A n \in Nets \cup {NoNet} : \A x \in ConfigCells : Stored(n)[x] \in SUBSET Bits
<1>1. \A x \in ConfigCells : Stored(NoNet)[x] = Zero
  BY DEF Stored
<1>2. ASSUME NEW n \in Nets
      PROVE  /\ Stored(n)["flag"] = XPG_CFG_FLAG_CONNECTED
             /\ Stored(n)["ssid"] = Of(n) /\ Stored(n)["key"] = Of(n)
  <2>1. n # NoNet
    BY NetsAssumption
  <2>2. QED
    BY <2>1 DEF Stored, ConfigCells
<1>3. ASSUME NEW n \in Nets, NEW x \in ConfigCells PROVE Stored(n)[x] \in SUBSET Bits
  <2>1. Of(n) \in SUBSET Bits
    BY DEF Of, Bits
  <2>2. QED
    BY <1>2, <2>1, BitFacts DEF ConfigCells
<1>4. QED
  BY <1>1, <1>2, <1>3, BitFacts

(* A boot finds what the sector shows. *)
LEMMA ReadsFacts ==
  ASSUME NEW c
  PROVE  /\ IsBlank(c) => Reads(c) = NoNet
         /\ Shows(c, NoNet) => Reads(c) = NoNet
         /\ \A n \in Nets : Shows(c, n) => Reads(c) = n
<1>1. IsBlank(c) => Reads(c) = NoNet
  BY BitFacts, CellFacts DEF IsBlank, Reads
<1>2. Shows(c, NoNet) => Reads(c) = NoNet
  BY BitFacts, CellFacts, StoredFacts DEF Shows, Reads
<1>3. ASSUME NEW n \in Nets, Shows(c, n) PROVE Reads(c) = n
  <2>1. c["flag"] = XPG_CFG_FLAG_CONNECTED /\ c["ssid"] = Of(n) /\ c["key"] = Of(n)
    BY <1>3, StoredFacts, CellFacts DEF Shows
  <2>2. \A m \in Nets : Of(m) = Of(n) => m = n
    BY DEF Of
  <2>3. \A m \in Nets : (c["ssid"] = Of(m) /\ c["key"] = Of(m)) <=> m = n
    BY <2>1, <2>2
  <2>4. (CHOOSE m \in Nets : c["ssid"] = Of(m) /\ c["key"] = Of(m)) = n
    BY <2>3
  <2>5. QED
    BY <2>1, <2>4 DEF Reads
<1>4. QED
  BY <1>1, <1>2, <1>3

Program(p, d) == [op |-> "program", page |-> p, data |-> d]

(* What a command does to the sector. *)
LEMMA ReadyDone ==
  ASSUME NEW c \in Contents
  PROVE  Done(c, Ready) = c
BY DEF Done, Ready, Contents

(* An erase leaves every cell erased.                                      *)
LEMMA EraseDone ==
  ASSUME NEW c
  PROVE  /\ Done(c, [op |-> "erase"]) \in Contents
         /\ IsBlank(Done(c, [op |-> "erase"]))
         /\ Done(c, [op |-> "erase"])["rest"] = Erased
BY BitFacts, CellFacts DEF Done, Contents, IsBlank

(* A program command clears bits of its page and leaves the other page     *)
(* alone.                                                                  *)
LEMMA ProgramDone ==
  ASSUME NEW c \in Contents, NEW d \in Contents, NEW p \in 1 .. 2,
         NEW r, r = Done(c, Program(p, d))
  PROVE  /\ r \in Contents
         /\ p = 1 => /\ \A x \in ConfigCells : r[x] = c[x] \cap d[x]
                     /\ r["rest"] = c["rest"]
         /\ p = 2 => /\ \A x \in ConfigCells : r[x] = c[x]
                     /\ r["rest"] = c["rest"] \cap d["rest"]
<1>1. r = [x \in Cells |-> IF x \in PageCells[p] THEN c[x] \cap d[x] ELSE c[x]]
  BY DEF Done, Program
<1>2. \A x \in Cells : r[x] = IF x \in PageCells[p] THEN c[x] \cap d[x] ELSE c[x]
  BY <1>1
<1>3. \A x \in Cells : c[x] \in SUBSET Bits /\ d[x] \in SUBSET Bits
  BY DEF Contents
<1>4. r \in Contents
  BY <1>1, <1>3 DEF Contents
<1>5. QED
  BY <1>2, <1>4, CellFacts

(* What is left of an image whose transfer was cut has at least its bits,  *)
(* and of the first page the flag or nothing.                              *)
LEMMA TruncFacts ==
  ASSUME NEW d \in Contents, NEW p \in 1 .. 2, NEW t \in Truncated(d, p)
  PROVE  /\ t \in Contents
         /\ \A x \in Cells : t[x] \in {d[x], Half(d[x]), Erased} /\ d[x] \subseteq t[x]
         /\ p = 1 => IsBlank(t) \/ t["flag"] \in {d["flag"], Half(d["flag"])}
<1>1. PICK y \in PageCells[p], middle \in BOOLEAN :
        t = [x \in Cells |-> IF x \in Before[y] THEN d[x]
                             ELSE IF x = y /\ middle THEN Half(d[x]) ELSE Erased]
  BY DEF Truncated
<1>2. \A x \in Cells : t[x] = IF x \in Before[y] THEN d[x]
                              ELSE IF x = y /\ middle THEN Half(d[x]) ELSE Erased
  BY <1>1
<1>3. \A x \in Cells : d[x] \in SUBSET Bits
  BY DEF Contents
<1>4. \A x \in Cells : Half(d[x]) \in SUBSET Bits /\ d[x] \subseteq Half(d[x])
  BY <1>3 DEF Half, Bits
<1>5. \A x \in Cells : d[x] \subseteq Erased /\ Erased \in SUBSET Bits
  BY <1>3 DEF Erased
<1>6. \A x \in Cells : t[x] \in {d[x], Half(d[x]), Erased} /\ d[x] \subseteq t[x]
  BY <1>2, <1>4, <1>5
<1>7. t \in Contents
  <2>1. \A x \in Cells : t[x] \in SUBSET Bits
    BY <1>3, <1>4, <1>5, <1>6
  <2>2. QED
    BY <1>1, <2>1 DEF Contents
<1>8. ASSUME p = 1 PROVE IsBlank(t) \/ t["flag"] \in {d["flag"], Half(d["flag"])}
  <2>1. y \in ConfigCells
    BY <1>8, CellFacts
  <2>2. CASE y = "flag"
    <3>1. Before[y] = {}
      BY <2>2 DEF Before
    <3>2. CASE middle
      BY <1>2, <2>2, <3>1, <3>2, CellFacts
    <3>3. CASE ~ middle
      BY <1>2, <3>1, <3>3, CellFacts DEF IsBlank
    <3>4. QED
      BY <3>2, <3>3
  <2>3. CASE y # "flag"
    <3>1. "flag" \in Before[y]
      BY <2>1, <2>3 DEF Before, ConfigCells
    <3>2. QED
      BY <1>2, <3>1, CellFacts
  <2>4. QED
    BY <2>2, <2>3
<1>9. QED
  BY <1>6, <1>7, <1>8

-----------------------------------------------------------------------------
(* The steps of the writers. *)

Labels == Resting \cup {"read"} \cup Writing

(* A step of one writer leaves the other where it is.                      *)
LEMMA Moves ==
  ASSUME TypeOK, NEW w \in Writers, NEW l \in Labels, Goes(w, l)
  PROVE  pc' \in [Writers -> Labels] /\ pc'[w] = l /\ \A v \in Writers : v # w => pc'[v] = pc[v]
BY DEF TypeOK, Goes, Labels, Resting, Writing, Programming

(* A read of an idle chip returns the cells; of a busy one, anything.      *)
LEMMA ReadFacts ==
  ASSUME TypeOK, NEW S, S \subseteq Cells, NEW b \in ReadOf(S)
  PROVE  b \in [S -> SUBSET Bits] /\ (busy = Ready => b = [x \in S |-> cells[x]])
<1>1. \A x \in S : cells[x] \in SUBSET Bits
  BY DEF TypeOK
<1>2. CASE busy = Ready
  BY <1>1, <1>2 DEF ReadOf
<1>3. CASE busy # Ready
  <2>1. PICK v \in {Erased, Zero} : b = [x \in S |-> v]
    BY <1>3 DEF ReadOf
  <2>2. QED
    BY <1>3, <2>1, BitFacts
<1>4. QED
  BY <1>2, <1>3

(* The value of j-- for a UINT16 that is not above TRIES. *)
LEMMA Decrement ==
  ASSUME NEW k \in 0 .. TRIES
  PROVE  /\ k = 0 => (k + 65535) % 65536 = 65535
         /\ k # 0 => /\ (k + 65535) % 65536 = k - 1
                     /\ (k + 65535) % 65536 # 65535 /\ (k + 65535) % 65536 < TRIES
<1>1. k \in Int /\ 0 <= k /\ k <= TRIES /\ TRIES \in Int /\ TRIES <= 65534
  BY BoundsAssumption
<1>2. k = 0 => (k + 65535) % 65536 = 65535
  OBVIOUS
<1>3. k # 0 => (k + 65535) % 65536 = k - 1
  BY <1>1
<1>4. QED
  BY <1>1, <1>2, <1>3

(* What ReadSector leaves its writer with. *)
LEMMA ReadSectorFacts ==
  ASSUME TypeOK, NEW w \in Writers, ReadSector(w), net[w] \in Nets \cup {NoNet}
  PROVE  /\ image'[w] \in Contents /\ Shows(image'[w], net[w])
         /\ busy = Ready => image'[w]["rest"] = cells["rest"]
         /\ \A v \in Writers : v # w => image'[v] = image[v] /\ pages'[v] = pages[v]
         /\ image' \in [Writers -> Contents] /\ pages' \in [Writers -> 1 .. 2]
         /\ \/ pc'[w] = "try" /\ pages'[w] = 1 /\ (busy = Ready => IsBlank(cells))
            \/ pc'[w] = "ewren" /\ pages'[w] = 2 /\ (busy = Ready => ~ IsBlank(cells))
         /\ pc' \in [Writers -> Labels] /\ \A v \in Writers : v # w => pc'[v] = pc[v]
         /\ page' = [page EXCEPT ![w] = 1] /\ j' = [j EXCEPT ![w] = TRIES]
         /\ mishaps' = IF busy = Ready THEN mishaps ELSE mishaps \cup {"blind"}
         /\ UNCHANGED <<cells, wel, busy, PageBuf, net, faults, undoable>>
<1> DEFINE img(b) == [x \in Cells |-> IF x = "rest" THEN b[x] ELSE Stored(net[w])[x]]
           blank(b) == \A x \in ConfigCells : b[x] = Erased
<1>1. PICK b \in ReadOf(Cells) :
        /\ image' = [image EXCEPT ![w] = img(b)]
        /\ pages' = [pages EXCEPT ![w] = IF blank(b) THEN 1 ELSE 2]
        /\ Goes(w, IF blank(b) THEN "try" ELSE "ewren")
  BY DEF ReadSector
<1>2. b \in Contents /\ (busy = Ready => b = [x \in Cells |-> cells[x]])
  BY ReadFacts DEF Contents
<1>3. busy = Ready => \A x \in Cells : b[x] = cells[x]
  BY <1>2
<1>4. img(b) \in Contents
  <2>1. \A x \in Cells : b[x] \in SUBSET Bits
    BY <1>2 DEF Contents
  <2>2. \A x \in Cells : x # "rest" => Stored(net[w])[x] \in SUBSET Bits
    BY StoredFacts, CellFacts
  <2>3. QED
    BY <2>1, <2>2 DEF Contents
<1>5. Shows(img(b), net[w])
  BY CellFacts DEF Shows
<1>6. img(b)["rest"] = b["rest"]
  BY CellFacts
<1>7. image \in [Writers -> Contents] /\ pages \in [Writers -> 1 .. 2]
  BY DEF TypeOK, Contents
<1>8. busy = Ready => (blank(b) <=> IsBlank(cells))
  BY <1>3, CellFacts DEF IsBlank
<1> HIDE DEF img, blank
<1>9. /\ image'[w] = img(b) /\ image' \in [Writers -> Contents]
      /\ \A v \in Writers : v # w => image'[v] = image[v]
  BY <1>1, <1>4, <1>7
<1>10. /\ pages'[w] = IF blank(b) THEN 1 ELSE 2
       /\ pages' \in [Writers -> 1 .. 2]
       /\ \A v \in Writers : v # w => pages'[v] = pages[v]
  BY <1>1, <1>7
<1>11. /\ pc'[w] = IF blank(b) THEN "try" ELSE "ewren"
       /\ pc' \in [Writers -> Labels] /\ \A v \in Writers : v # w => pc'[v] = pc[v]
  <2>1. (IF blank(b) THEN "try" ELSE "ewren") \in Labels
    BY DEF Labels, Writing, Programming
  <2>2. QED
    BY <1>1, <2>1, Moves
<1>12. image'[w] \in Contents /\ Shows(image'[w], net[w])
       /\ (busy = Ready => image'[w]["rest"] = cells["rest"])
  BY <1>3, <1>4, <1>5, <1>6, <1>9, CellFacts
<1>13. \/ pc'[w] = "try" /\ pages'[w] = 1 /\ (busy = Ready => IsBlank(cells))
       \/ pc'[w] = "ewren" /\ pages'[w] = 2 /\ (busy = Ready => ~ IsBlank(cells))
  BY <1>8, <1>10, <1>11
<1>14. /\ page' = [page EXCEPT ![w] = 1] /\ j' = [j EXCEPT ![w] = TRIES]
       /\ mishaps' = IF busy = Ready THEN mishaps ELSE mishaps \cup {"blind"}
       /\ UNCHANGED <<cells, wel, busy, PageBuf, net, faults, undoable>>
  BY DEF ReadSector, chip
<1>15. QED
  BY <1>9, <1>10, <1>11, <1>12, <1>13, <1>14

(* What PageDone leaves its writer with: the save ends, or goes on to the  *)
(* second page.                                                            *)
LEMMA PageDoneFacts ==
  ASSUME TypeOK, NEW w \in Writers, PageDone(w)
  PROVE  /\ \/ /\ pc'[w] = (IF w = "reset" THEN "saved" ELSE "idle")
               /\ j[w] = 0 \/ page[w] = pages[w]
               /\ net' = [net EXCEPT ![w] = None]
               /\ image' = [image EXCEPT ![w] = NoImage] /\ pages' = [pages EXCEPT ![w] = 1]
               /\ page' = [page EXCEPT ![w] = 1] /\ j' = [j EXCEPT ![w] = 0]
            \/ /\ pc'[w] = "try" /\ j[w] # 0 /\ page[w] = 1 /\ pages[w] = 2
               /\ page' = [page EXCEPT ![w] = 2] /\ j' = [j EXCEPT ![w] = TRIES]
               /\ UNCHANGED <<net, image, pages>>
         /\ pc' \in [Writers -> Labels] /\ \A v \in Writers : v # w => pc'[v] = pc[v]
         /\ mishaps \subseteq mishaps' /\ mishaps' \subseteq Mishaps
         /\ j[w] = 0 => "last_try" \in mishaps'
         /\ j[w] = 65535 /\ page[w] = 2 => "no_rest" \in mishaps'
         /\ j[w] = 65535 /\ page[w] = 1 =>
              (IF w = "app" THEN "no_config" ELSE "no_reset") \in mishaps'
         /\ UNCHANGED <<cells, wel, busy, PageBuf, faults, undoable>>
<1>1. j[w] \in Int /\ page[w] \in 1 .. 2 /\ pages[w] \in 1 .. 2 /\ page[w] <= pages[w]
  <2>1. /\ j[w] \in 0 .. TRIES \cup {65535} /\ page[w] \in 1 .. 2 /\ pages[w] \in 1 .. 2
        /\ page[w] <= pages[w]
    BY DEF TypeOK
  <2>2. QED
    BY <2>1, BoundsAssumption
<1>2. page[w] = 1 \/ page[w] = 2
  BY <1>1
<1>3. page[w] # pages[w] => page[w] = 1 /\ pages[w] = 2
  BY <1>1
<1> DEFINE Ends == /\ pc'[w] = (IF w = "reset" THEN "saved" ELSE "idle")
                   /\ j[w] = 0 \/ page[w] = pages[w]
                   /\ net' = [net EXCEPT ![w] = None]
                   /\ image' = [image EXCEPT ![w] = NoImage] /\ pages' = [pages EXCEPT ![w] = 1]
                   /\ page' = [page EXCEPT ![w] = 1] /\ j' = [j EXCEPT ![w] = 0]
           Turns == /\ pc'[w] = "try" /\ j[w] # 0 /\ page[w] = 1 /\ pages[w] = 2
                    /\ page' = [page EXCEPT ![w] = 2] /\ j' = [j EXCEPT ![w] = TRIES]
                    /\ UNCHANGED <<net, image, pages>>
           Moved == pc' \in [Writers -> Labels] /\ \A v \in Writers : v # w => pc'[v] = pc[v]
<1>4. ASSUME j[w] = 0 \/ page[w] = pages[w] PROVE Ends /\ Moved
  <2>1. Goes(w, IF w = "reset" THEN "saved" ELSE "idle")
    BY <1>4 DEF PageDone
  <2>2. (IF w = "reset" THEN "saved" ELSE "idle") \in Labels
    BY DEF Labels, Resting
  <2>3. /\ pc'[w] = (IF w = "reset" THEN "saved" ELSE "idle")
        /\ pc' \in [Writers -> Labels] /\ \A v \in Writers : v # w => pc'[v] = pc[v]
    BY <2>1, <2>2, Moves
  <2>4. /\ net' = [net EXCEPT ![w] = None]
        /\ image' = [image EXCEPT ![w] = NoImage] /\ pages' = [pages EXCEPT ![w] = 1]
        /\ page' = [page EXCEPT ![w] = 1] /\ j' = [j EXCEPT ![w] = 0]
    BY <1>4 DEF PageDone
  <2>5. QED
    BY <1>4, <2>3, <2>4
<1>5. ASSUME ~ (j[w] = 0 \/ page[w] = pages[w]) PROVE Turns /\ Moved
  <2>1. Goes(w, "try") /\ page' = [page EXCEPT ![w] = 2] /\ j' = [j EXCEPT ![w] = TRIES]
        /\ UNCHANGED <<net, image, pages>>
    BY <1>5 DEF PageDone
  <2>2. "try" \in Labels
    BY DEF Labels, Writing, Programming
  <2>3. /\ pc'[w] = "try"
        /\ pc' \in [Writers -> Labels] /\ \A v \in Writers : v # w => pc'[v] = pc[v]
    BY <2>1, <2>2, Moves
  <2>4. QED
    BY <1>3, <1>5, <2>1, <2>3
<1>6. \E x \in {"no_rest", "no_config", "no_reset"} :
        /\ mishaps' = mishaps \cup (IF j[w] = 0 THEN {"last_try"}
                                   ELSE IF j[w] = 65535 THEN {x} ELSE {})
        /\ page[w] = 2 => x = "no_rest"
        /\ page[w] = 1 => x = IF w = "app" THEN "no_config" ELSE "no_reset"
  <2> DEFINE x == IF page[w] = 2 THEN "no_rest"
                  ELSE IF w = "app" THEN "no_config" ELSE "no_reset"
  <2>1. mishaps' = mishaps \cup (IF j[w] = 0 THEN {"last_try"}
                                ELSE IF j[w] = 65535 THEN {x} ELSE {})
    <3>1. mishaps' = mishaps \cup (CASE j[w] = 0     -> {"last_try"}
                                     [] j[w] = 65535 -> {x}
                                     [] OTHER        -> {})
      BY DEF PageDone
    <3>2. CASE j[w] = 0
      BY <3>1, <3>2
    <3>3. CASE j[w] = 65535
      BY <3>1, <3>3
    <3>4. CASE j[w] # 0 /\ j[w] # 65535
      BY <3>1, <3>4
    <3>5. QED
      BY <3>2, <3>3, <3>4
  <2>2. x \in {"no_rest", "no_config", "no_reset"}
    OBVIOUS
  <2>3. QED
    BY <2>1, <2>2
<1>7. /\ mishaps \subseteq mishaps' /\ mishaps' \subseteq Mishaps
      /\ j[w] = 0 => "last_try" \in mishaps'
      /\ j[w] = 65535 /\ page[w] = 2 => "no_rest" \in mishaps'
      /\ j[w] = 65535 /\ page[w] = 1 =>
           (IF w = "app" THEN "no_config" ELSE "no_reset") \in mishaps'
  <2>1. mishaps \subseteq Mishaps
    BY DEF TypeOK
  <2>2. QED
    BY <1>6, <2>1 DEF Mishaps
<1>8. UNCHANGED <<cells, wel, busy, PageBuf, faults, undoable>>
  BY DEF PageDone, chip
<1>9. (Ends \/ Turns) /\ Moved
  BY <1>4, <1>5
<1>10. QED
  BY <1>7, <1>8, <1>9

(* The command a waiting writer sent is its erase or its current page.     *)
LEMMA SentFacts ==
  ASSUME TypeOK, NEW w \in Writers, Sent(w)
  PROVE  \/ busy = [op |-> "erase"] /\ pc[w] = "ewait"
         \/ /\ pc[w] = "wait"
            /\ \E d \in Contents :
                 /\ busy = Program(page[w], d)
                 /\ d = image[w] \/ (faults > 0 /\ d \in Truncated(image[w], page[w]))
<1>1. image[w] \in Contents /\ page[w] \in 1 .. 2
  BY DEF TypeOK, Contents
<1>2. \A t \in Truncated(image[w], page[w]) : t \in Contents
  BY <1>1, TruncFacts
<1>3. QED
  BY <1>1, <1>2 DEF Sent, Program

(* Finishing the chip's command gives contents of a sector.                *)
LEMMA DoneTyped ==
  ASSUME TypeOK, Chip
  PROVE  Done(cells, busy) \in Contents
<1>1. cells \in Contents /\ page \in [Writers -> 1 .. 2] /\ "app" \in Writers /\ "reset" \in Writers
  BY DEF TypeOK, Contents, Writers
<1>2. CASE busy = Ready
  BY <1>1, <1>2, ReadyDone
<1>3. ASSUME NEW w \in Writers, Sent(w) PROVE Done(cells, busy) \in Contents
  <2>1. CASE busy = [op |-> "erase"]
    BY <2>1, EraseDone
  <2>2. ASSUME NEW d \in Contents, busy = Program(page[w], d) PROVE Done(cells, busy) \in Contents
    <3>1. page[w] \in 1 .. 2
      BY <1>1
    <3>2. QED
      BY <1>1, <2>2, <3>1, ProgramDone
  <2>3. QED
    BY <1>3, <2>1, <2>2, SentFacts
<1>4. QED
  BY <1>1, <1>2, <1>3 DEF Chip

(* So does interrupting it.                                                *)
LEMMA TornTyped ==
  ASSUME TypeOK, Chip, NEW begun, NEW ended
  PROVE  Torn(cells, busy, begun, ended) \in Contents
<1>1. \A x \in Cells : cells[x] \in SUBSET Bits
  BY DEF TypeOK
<1>2. \A x \in Cells : Done(cells, busy)[x] \in SUBSET Bits
  BY DoneTyped DEF Contents
<1>3. \A x \in Cells : Torn(cells, busy, begun, ended)[x] \in SUBSET Bits
  BY <1>1, <1>2, BitFacts DEF Torn
<1>4. QED
  BY <1>3 DEF Torn, Contents

(* Power that goes while the chip is idle changes nothing.                 *)
LEMMA ReadyTorn ==
  ASSUME TypeOK, busy = Ready, PowerLoss
  PROVE  cells' = cells
<1>1. PICK begun \in SUBSET Touched(busy) : \E ended \in SUBSET begun :
        cells' = Torn(cells, busy, begun, ended)
  BY DEF PowerLoss
<1>2. begun = {}
  BY <1>1 DEF Touched, Ready
<1>3. cells' = [x \in Cells |-> cells[x]]
  BY <1>1, <1>2 DEF Torn
<1>4. QED
  BY <1>3 DEF TypeOK

-----------------------------------------------------------------------------
(* Types. *)

(* The types, with the names the proofs use.                               *)
LEMMA TypeFacts ==
  ASSUME TypeOK
  PROVE  /\ cells \in Contents /\ wel \in BOOLEAN /\ image \in [Writers -> Contents]
         /\ pc \in [Writers -> Labels] /\ net \in [Writers -> Nets \cup {NoNet, None}]
         /\ pages \in [Writers -> 1 .. 2] /\ page \in [Writers -> 1 .. 2]
         /\ j \in [Writers -> 0 .. TRIES \cup {65535}] /\ faults \in 0 .. MAX_FAULTS
         /\ \A w \in Writers : page[w] <= pages[w]
BY DEF TypeOK, Contents, Labels, Resting, Writing, Programming

(* The retry counter's first and last values are among its values.         *)
LEMMA TriesFacts == TRIES \in 0 .. TRIES \cup {65535} /\ 0 \in 0 .. TRIES \cup {65535}
BY BoundsAssumption

(* What a writer's variables hold at the places it may be.                 *)
LEMMA WriterFacts ==
  ASSUME TypeOK, Writer, NEW w \in Writers
  PROVE  /\ pc[w] \notin Resting => net[w] \in Nets \cup {NoNet}
         /\ pc[w] # "page" => j[w] \in 0 .. TRIES
         /\ j[w] \in 0 .. TRIES \cup {65535} /\ page[w] \in 1 .. 2 /\ pages[w] \in 1 .. 2
         /\ page[w] <= pages[w] /\ image[w] \in Contents
BY DEF TypeOK, Writer, WriterInv, Writers, Contents

(* The types hold at the first boot.                                       *)
LEMMA InitType == Init => TypeOK
<1> SUFFICES ASSUME Init PROVE TypeOK
  OBVIOUS
<1>1. cells \in [Cells -> SUBSET Bits]
  <2>1. PICK n \in Nets \cup {NoNet}, blank \in BOOLEAN :
          cells = [x \in Cells |-> IF x = "rest" THEN RestData
                                   ELSE IF blank THEN Erased ELSE Stored(n)[x]]
    BY DEF Init
  <2>2. \A x \in Cells : x # "rest" => Stored(n)[x] \in SUBSET Bits
    BY StoredFacts, CellFacts
  <2>3. QED
    BY <2>1, <2>2, BitFacts
<1>2. NoImage \in [Cells -> SUBSET Bits]
  BY BitFacts DEF NoImage
<1>3. /\ wel \in BOOLEAN /\ busy.op = "none" /\ DOMAIN PageBuf = {}
      /\ pc \in [Writers -> {"idle"}] /\ net \in [Writers -> {None}]
      /\ pages \in [Writers -> {1}] /\ page \in [Writers -> {1}] /\ j \in [Writers -> {0}]
      /\ faults = 0 /\ mishaps = {} /\ undoable \in BOOLEAN
  BY DEF Init, Ready
<1>4. image \in [Writers -> [Cells -> SUBSET Bits]]
  BY <1>2 DEF Init
<1>5. 0 \in 0 .. MAX_FAULTS /\ 0 \in 0 .. TRIES
  BY BoundsAssumption
<1>6. QED
  BY <1>1, <1>3, <1>4, <1>5 DEF TypeOK

(* A command counts the fault that cuts it and may note it.                *)
LEMMA CommandCounts ==
  ASSUME TypeOK, NEW w \in Writers, EraseCommand(w) \/ ProgramCommand(w)
  PROVE  /\ mishaps' \in {mishaps, mishaps \cup {"cut_erase"}, mishaps \cup {"cut_program"}}
         /\ mishaps' \subseteq Mishaps
         /\ faults' \in 0 .. MAX_FAULTS /\ faults <= faults'
<1>1. /\ mishaps' \in {mishaps, mishaps \cup {"cut_erase"}, mishaps \cup {"cut_program"}}
      /\ faults' = faults \/ (faults < MAX_FAULTS /\ faults' = faults + 1)
  BY DEF EraseCommand, ProgramCommand, Cut
<1>2. mishaps' \subseteq Mishaps
  BY <1>1 DEF TypeOK, Mishaps
<1>3. faults' \in 0 .. MAX_FAULTS /\ faults <= faults'
  <2>1. faults \in 0 .. MAX_FAULTS
    BY DEF TypeOK
  <2>2. QED
    BY <1>1, <2>1, BoundsAssumption
<1>4. QED
  BY <1>1, <1>2, <1>3

(* Faults are counted.                                                     *)
LEMMA FaultsNat ==
  ASSUME TypeOK
  PROVE  faults \in Int /\ 0 <= faults
<1>1. faults \in 0 .. MAX_FAULTS
  BY DEF TypeOK
<1>2. QED
  BY <1>1, BoundsAssumption

(* No step forgets a fault.                                                *)
LEMMA FaultsGrow ==
  ASSUME TypeOK, [Next]_vars
  PROVE  faults > 0 => faults' > 0
<1>1. faults \in Int
  BY FaultsNat
<1>2. ASSUME NEW w \in Writers, EraseCommand(w) \/ ProgramCommand(w) PROVE faults > 0 => faults' > 0
  BY <1>1, <1>2, CommandCounts, BoundsAssumption
<1>3. ASSUME ~ \E w \in Writers : EraseCommand(w) \/ ProgramCommand(w) PROVE faults' = faults
  BY <1>3 DEF Next, Step, AppSave, ResetSave, ReadSector, EraseEnable, EraseWait, TryPage,
     ProgramWait, ReadBack, Compare, PageDone, ChipDone, PowerLoss, ChipReset, Restart, vars
<1>4. QED
  BY <1>2, <1>3

(* Every step keeps the types.                                             *)
LEMMA TypeStep ==
  ASSUME TypeOK, Writer, Chip, [Next]_vars
  PROVE  TypeOK'
<1> USE DEF Labels, Resting, Writing, Programming
<1>1. ASSUME NEW n \in Nets, AppSave(n) PROVE TypeOK'
  <2>1. pc' \in [Writers -> Labels]
    BY <1>1, Moves DEF AppSave, Writers
  <2>2. net' \in [Writers -> Nets \cup {NoNet, None}] /\ undoable' \in BOOLEAN
    BY <1>1 DEF AppSave, TypeOK, Writers
  <2>3. QED
    BY <1>1, <2>1, <2>2 DEF AppSave, chip, TypeOK
<1>2. CASE ResetSave
  <2>1. pc' \in [Writers -> Labels]
    BY <1>2, Moves DEF ResetSave, Writers
  <2>2. net' \in [Writers -> Nets \cup {NoNet, None}] /\ undoable' \in BOOLEAN
    BY <1>2 DEF ResetSave, TypeOK, Writers
  <2>3. QED
    BY <1>2, <2>1, <2>2 DEF ResetSave, chip, TypeOK
<1>3. ASSUME NEW w \in Writers, ReadSector(w) PROVE TypeOK'
  <2>1. net[w] \in Nets \cup {NoNet}
    BY <1>3, WriterFacts DEF ReadSector, At
  <2>2. /\ image' \in [Writers -> Contents] /\ pages' \in [Writers -> 1 .. 2]
        /\ pages'[w] \in 1 .. 2 /\ \A v \in Writers : v # w => pages'[v] = pages[v]
        /\ pc' \in [Writers -> Labels]
        /\ page' = [page EXCEPT ![w] = 1] /\ j' = [j EXCEPT ![w] = TRIES]
        /\ mishaps' = IF busy = Ready THEN mishaps ELSE mishaps \cup {"blind"}
        /\ UNCHANGED <<cells, wel, busy, PageBuf, net, faults, undoable>>
    BY <1>3, <2>1, ReadSectorFacts
  <2>3. /\ page' \in [Writers -> 1 .. 2] /\ j' \in [Writers -> 0 .. TRIES \cup {65535}]
        /\ \A v \in Writers : page'[v] <= pages'[v]
    <3>1. page' \in [Writers -> 1 .. 2] /\ page'[w] = 1
          /\ \A v \in Writers : v # w => page'[v] = page[v]
      BY <2>2, TypeFacts
    <3>2. j' \in [Writers -> 0 .. TRIES \cup {65535}]
      BY <2>2, TypeFacts, TriesFacts
    <3>3. \A v \in Writers : page'[v] <= pages'[v]
      BY <2>2, <3>1, TypeFacts
    <3>4. QED
      BY <3>1, <3>2, <3>3
  <2>4. mishaps' \subseteq Mishaps
    BY <2>2 DEF TypeOK, Mishaps
  <2>5. QED
    BY <2>2, <2>3, <2>4 DEF TypeOK, Contents
<1>4. ASSUME NEW w \in Writers, EraseEnable(w) PROVE TypeOK'
  <2>1. pc' \in [Writers -> Labels]
    BY <1>4, Moves DEF EraseEnable
  <2>2. wel' \in BOOLEAN
    BY <1>4 DEF EraseEnable, WriteEnable
  <2>3. QED
    BY <1>4, <2>1, <2>2 DEF EraseEnable, TypeOK
<1>5. ASSUME NEW w \in Writers, EraseCommand(w) PROVE TypeOK'
  <2>1. pc' \in [Writers -> Labels]
    BY <1>5, Moves DEF EraseCommand
  <2>2. busy' = [op |-> "erase"] \/ busy' = busy
    BY <1>5 DEF EraseCommand, Cut
  <2>3. busy'.op \in {"none", "erase", "program"}
    BY <2>2 DEF TypeOK
  <2>4. faults' \in 0 .. MAX_FAULTS /\ mishaps' \subseteq Mishaps
    BY <1>5, CommandCounts
  <2>5. QED
    BY <1>5, <2>1, <2>3, <2>4 DEF EraseCommand, TypeOK
<1>6. ASSUME NEW w \in Writers, EraseWait(w) \/ ProgramWait(w) \/ Compare(w) PROVE TypeOK'
  <2>1. pc' \in [Writers -> Labels]
    <3>1. PICK l \in Labels : Goes(w, l)
      BY <1>6 DEF EraseWait, ProgramWait, Compare
    <3>2. QED
      BY <3>1, Moves
  <2>2. QED
    BY <1>6, <2>1 DEF EraseWait, ProgramWait, Compare, chip, TypeOK
<1>7. ASSUME NEW w \in Writers, TryPage(w) PROVE TypeOK'
  <2>1. pc' \in [Writers -> Labels]
    <3>1. PICK l \in Labels : Goes(w, l)
      BY <1>7 DEF TryPage
    <3>2. QED
      BY <3>1, Moves
  <2>2. wel' \in BOOLEAN
    <3>1. UNCHANGED wel \/ WriteEnable
      BY <1>7 DEF TryPage
    <3>2. WriteEnable => wel' \in BOOLEAN
      BY DEF WriteEnable
    <3>3. wel \in BOOLEAN
      BY DEF TypeOK
    <3>4. QED
      BY <3>1, <3>2, <3>3
  <2>3. j' = [j EXCEPT ![w] = (j[w] + 65535) % 65536] /\ j[w] \in 0 .. TRIES
    BY <1>7, WriterFacts DEF TryPage, At
  <2>4. (j[w] + 65535) % 65536 \in 0 .. TRIES \cup {65535}
    BY <2>3, Decrement, BoundsAssumption
  <2>5. j' \in [Writers -> 0 .. TRIES \cup {65535}]
    BY <2>3, <2>4 DEF TypeOK
  <2>6. QED
    BY <1>7, <2>1, <2>2, <2>5 DEF TryPage, TypeOK
<1>8. ASSUME NEW w \in Writers, ProgramCommand(w) PROVE TypeOK'
  <2>1. pc' \in [Writers -> Labels]
    BY <1>8, Moves DEF ProgramCommand
  <2>2. \/ busy' = busy
        \/ \E d : busy' = [op |-> "program", page |-> page[w], data |-> d]
    BY <1>8 DEF ProgramCommand, Cut
  <2>3. busy'.op \in {"none", "erase", "program"}
    BY <2>2 DEF TypeOK
  <2>4. faults' \in 0 .. MAX_FAULTS /\ mishaps' \subseteq Mishaps
    BY <1>8, CommandCounts
  <2>5. QED
    BY <1>8, <2>1, <2>3, <2>4 DEF ProgramCommand, TypeOK
<1>9. ASSUME NEW w \in Writers, ReadBack(w) PROVE TypeOK'
  <2>1. pc' \in [Writers -> Labels]
    BY <1>9, Moves DEF ReadBack
  <2>2. page[w] \in 1 .. 2
    BY DEF TypeOK
  <2>3. PageCells[page[w]] \subseteq Cells /\ PageBuf' \in ReadOf(PageCells[page[w]])
    BY <1>9, <2>2, CellFacts DEF ReadBack
  <2>4. PageBuf' \in [PageCells[page[w]] -> SUBSET Bits]
    BY <2>3, ReadFacts
  <2>5. DOMAIN PageBuf' \in {{}} \cup {PageCells[p] : p \in 1 .. 2}
    BY <2>2, <2>4
  <2>6. QED
    BY <1>9, <2>1, <2>5 DEF ReadBack, chip, TypeOK
<1>10. ASSUME NEW w \in Writers, PageDone(w) PROVE TypeOK'
  <2>1. NoImage \in Contents
    BY BitFacts DEF NoImage, Contents
  <2>2. /\ pc' \in [Writers -> Labels] /\ mishaps' \subseteq Mishaps
        /\ UNCHANGED <<cells, wel, busy, PageBuf, faults, undoable>>
    BY <1>10, PageDoneFacts
  <2>3. \/ /\ net' = [net EXCEPT ![w] = None]
           /\ image' = [image EXCEPT ![w] = NoImage] /\ pages' = [pages EXCEPT ![w] = 1]
           /\ page' = [page EXCEPT ![w] = 1] /\ j' = [j EXCEPT ![w] = 0]
        \/ /\ page' = [page EXCEPT ![w] = 2] /\ j' = [j EXCEPT ![w] = TRIES] /\ pages[w] = 2
           /\ UNCHANGED <<net, image, pages>>
    BY <1>10, PageDoneFacts
  <2>4. /\ net' \in [Writers -> Nets \cup {NoNet, None}] /\ image' \in [Writers -> Contents]
        /\ pages' \in [Writers -> 1 .. 2] /\ page' \in [Writers -> 1 .. 2]
    <3>1. net' \in [Writers -> Nets \cup {NoNet, None}]
      BY <2>3, TypeFacts
    <3>2. image' \in [Writers -> Contents]
      BY <2>1, <2>3, TypeFacts
    <3>3. pages' \in [Writers -> 1 .. 2] /\ page' \in [Writers -> 1 .. 2]
      BY <2>3, TypeFacts
    <3>4. QED
      BY <3>1, <3>2, <3>3
  <2>5. \A v \in Writers : page'[v] <= pages'[v]
    BY <2>3, TypeFacts
  <2>6. j' \in [Writers -> 0 .. TRIES \cup {65535}]
    BY <2>3, TypeFacts, TriesFacts
  <2>7. QED
    BY <2>2, <2>4, <2>5, <2>6 DEF TypeOK, Contents
<1>11. CASE ChipDone
  <2>1. cells' \in [Cells -> SUBSET Bits]
    BY <1>11, DoneTyped DEF ChipDone, Contents
  <2>2. busy'.op = "none" /\ wel' \in BOOLEAN
    BY <1>11 DEF ChipDone, Ready
  <2>3. QED
    BY <1>11, <2>1, <2>2 DEF ChipDone, TypeOK
<1>12. CASE PowerLoss \/ ChipReset
  <2>1. cells' \in [Cells -> SUBSET Bits]
    BY <1>12, DoneTyped, TornTyped DEF PowerLoss, ChipReset, Contents
  <2>2. Restart
    BY <1>12 DEF PowerLoss, ChipReset
  <2>3. NoImage \in [Cells -> SUBSET Bits]
    BY BitFacts DEF NoImage
  <2>4. image' \in [Writers -> [Cells -> SUBSET Bits]]
    BY <2>2, <2>3 DEF Restart
  <2>5. /\ wel' \in BOOLEAN /\ busy'.op = "none" /\ DOMAIN PageBuf' = {}
        /\ pc' \in [Writers -> {"idle"}] /\ net' \in [Writers -> {None}]
        /\ pages' \in [Writers -> {1}] /\ page' \in [Writers -> {1}] /\ j' \in [Writers -> {0}]
        /\ faults' = faults /\ undoable' \in BOOLEAN
    BY <2>2 DEF Restart, Ready
  <2>6. mishaps' \subseteq Mishaps
    BY <2>2 DEF Restart, TypeOK, Mishaps
  <2>7. 0 \in 0 .. TRIES
    BY BoundsAssumption
  <2>8. QED
    BY <2>1, <2>4, <2>5, <2>6, <2>7 DEF TypeOK
<1>13. CASE UNCHANGED vars
  BY <1>13 DEF vars, chip, TypeOK
<1>14. QED
  BY <1>1, <1>2, <1>3, <1>4, <1>5, <1>6, <1>7, <1>8, <1>9, <1>10, <1>11, <1>12, <1>13
  DEF Next, Step

-----------------------------------------------------------------------------
(* Where the writers are. *)

(* All of writer v's own state but its place. *)
Keeps(v) == /\ net'[v] = net[v] /\ image'[v] = image[v]
            /\ pages'[v] = pages[v] /\ page'[v] = page[v] /\ j'[v] = j[v]

(* A writer whose variables do not change stays on its course.             *)
LEMMA OtherWriter ==
  ASSUME NEW v, WriterInv(v), Keeps(v), pc'[v] = pc[v]
  PROVE  WriterInv(v)'
BY DEF WriterInv, Keeps, Shows

(* Both writers begin at rest.                                             *)
LEMMA InitWriter == Init => Writer
<1> SUFFICES ASSUME Init PROVE Writer
  OBVIOUS
<1>1. \A w \in Writers : pc[w] = "idle" /\ net[w] = None /\ j[w] = 0
  BY DEF Init
<1>2. QED
  BY <1>1 DEF Writer, WriterInv, Writers, Resting, Writing, Programming

(* Every step keeps both writers on their course.                          *)
LEMMA WriterStep ==
  ASSUME TypeOK, Writer, [Next]_vars
  PROVE  Writer'
<1> USE DEF Labels, Resting, Writing, Programming
<1>a. "app" \in Writers /\ "reset" \in Writers /\ None \notin Nets \cup {NoNet}
  BY NetsAssumption DEF Writers
<1>b. ASSUME NEW w \in Writers, WriterInv(w)', w = "app" => pc'[w] # "saved",
             UNCHANGED net,
             \A v \in Writers : v # w => Keeps(v) /\ pc'[v] = pc[v]
      PROVE  Writer'
  <2>1. ASSUME NEW v \in Writers, v # w PROVE WriterInv(v)'
    BY <1>b, <2>1, OtherWriter DEF Writer
  <2>2. pc'["app"] # "saved"
    BY <1>a, <1>b DEF Writer
  <2>3. QED
    BY <1>b, <2>1, <2>2 DEF Writer
<1>1. ASSUME NEW n \in Nets, AppSave(n) PROVE Writer'
  <2>1. pc'["app"] = "read" /\ pc'["reset"] = pc["reset"]
    BY <1>1, <1>a, TypeFacts DEF AppSave, Goes
  <2>2. net'["app"] = n /\ net'["reset"] = net["reset"]
    BY <1>1, <1>a, TypeFacts DEF AppSave
  <2>3. Keeps("reset") /\ j' = j
    BY <1>1, <2>2 DEF AppSave, Keeps
  <2>4. WriterInv("reset")'
    BY <1>a, <2>1, <2>3, OtherWriter DEF Writer
  <2>5. j["app"] # 65535
    BY <1>1, <1>a DEF Writer, WriterInv, AppSave, At
  <2>6. WriterInv("app")'
    BY <1>a, <2>1, <2>2, <2>3, <2>5 DEF WriterInv
  <2>7. QED
    BY <2>1, <2>2, <2>4, <2>6 DEF Writer, Writers
<1>2. CASE ResetSave
  <2>1. pc'["reset"] = "read" /\ pc'["app"] = pc["app"]
    BY <1>2, <1>a, TypeFacts DEF ResetSave, Goes
  <2>2. net'["reset"] = NoNet /\ net'["app"] = net["app"]
    BY <1>2, <1>a, TypeFacts DEF ResetSave
  <2>3. Keeps("app") /\ j' = j
    BY <1>2, <2>2 DEF ResetSave, Keeps
  <2>4. WriterInv("app")'
    BY <1>a, <2>1, <2>3, OtherWriter DEF Writer
  <2>5. j["reset"] # 65535
    BY <1>2, <1>a DEF Writer, WriterInv, ResetSave, At
  <2>6. WriterInv("reset")'
    BY <1>a, <2>1, <2>2, <2>3, <2>5 DEF WriterInv
  <2>7. QED
    BY <2>1, <2>2, <2>4, <2>6 DEF Writer, Writers
<1>3. ASSUME NEW w \in Writers, ReadSector(w) PROVE Writer'
  <2>1. net[w] \in Nets \cup {NoNet}
    BY <1>3, WriterFacts DEF ReadSector, At
  <2>2. /\ Shows(image'[w], net[w]) /\ UNCHANGED net
        /\ (pc'[w] = "try" /\ pages'[w] = 1) \/ (pc'[w] = "ewren" /\ pages'[w] = 2)
        /\ \A v \in Writers : v # w => /\ image'[v] = image[v] /\ pages'[v] = pages[v]
                                       /\ pc'[v] = pc[v]
        /\ page' = [page EXCEPT ![w] = 1] /\ j' = [j EXCEPT ![w] = TRIES]
    BY <1>3, <2>1, ReadSectorFacts
  <2>3. /\ page'[w] = 1 /\ j'[w] = TRIES
        /\ \A v \in Writers : v # w => page'[v] = page[v] /\ j'[v] = j[v]
    BY <2>2, TypeFacts
  <2>4. TRIES # 65535
    BY BoundsAssumption
  <2>5. net'[w] = net[w] /\ net[w] # None
    BY <1>a, <2>1, <2>2
  <2>6. Shows(image[w], net[w])'
    BY <2>2, <2>5 DEF Shows
  <2>7. WriterInv(w)'
    BY <2>2, <2>3, <2>4, <2>5, <2>6 DEF WriterInv
  <2>8. \A v \in Writers : v # w => Keeps(v) /\ pc'[v] = pc[v]
    BY <2>2, <2>3 DEF Keeps
  <2>9. QED
    BY <1>b, <2>2, <2>7, <2>8
<1>4. ASSUME NEW w \in Writers, NEW l \in Writing, Goes(w, l), pc[w] \in Writing,
             l \in {"ewren", "erase", "ewait"} => pc[w] \in {"ewren", "erase", "ewait"},
             l \in {"command", "wait", "readback", "compare"} =>
               pc[w] \in {"command", "wait", "readback", "compare"},
             l # "page" => pc[w] # "page",
             UNCHANGED <<net, image, pages, page, j>>
      PROVE  Writer'
  <2>1. pc'[w] = l /\ \A v \in Writers : v # w => pc'[v] = pc[v]
    BY <1>4, Moves
  <2>2. \A v \in Writers : Keeps(v)
    BY <1>4 DEF Keeps
  <2>3. WriterInv(w)
    BY DEF Writer
  <2>4. Shows(image[w], net[w]) /\ net[w] # None
    BY <1>4, <2>3 DEF WriterInv
  <2>5. Shows(image[w], net[w])'
    BY <1>4, <2>4 DEF Shows
  <2>6. WriterInv(w)'
    BY <1>4, <2>1, <2>3, <2>4, <2>5 DEF WriterInv
  <2>7. QED
    BY <1>4, <1>b, <2>1, <2>2, <2>6
<1>5. ASSUME NEW w \in Writers, EraseEnable(w) PROVE Writer'
  BY <1>4, <1>5 DEF EraseEnable, At
<1>6. ASSUME NEW w \in Writers, EraseCommand(w) PROVE Writer'
  BY <1>4, <1>6 DEF EraseCommand, At
<1>7. ASSUME NEW w \in Writers, EraseWait(w) PROVE Writer'
  BY <1>4, <1>7 DEF EraseWait, At
<1>8. ASSUME NEW w \in Writers, ProgramCommand(w) PROVE Writer'
  BY <1>4, <1>8 DEF ProgramCommand, At
<1>9. ASSUME NEW w \in Writers, ProgramWait(w) PROVE Writer'
  BY <1>4, <1>9 DEF ProgramWait, At
<1>10. ASSUME NEW w \in Writers, ReadBack(w) PROVE Writer'
  BY <1>4, <1>10 DEF ReadBack, At
<1>11. ASSUME NEW w \in Writers, Compare(w) PROVE Writer'
  <2>1. PICK l \in {"page", "try"} : Goes(w, l)
    BY <1>11 DEF Compare
  <2>2. QED
    BY <1>4, <1>11, <2>1 DEF Compare, At
<1>12. ASSUME NEW w \in Writers, TryPage(w) PROVE Writer'
  <2>1. pc[w] = "try" /\ j[w] \in 0 .. TRIES /\ WriterInv(w)
        /\ UNCHANGED <<net, image, pages, page>>
    BY <1>12, WriterFacts DEF TryPage, At, Writer
  <2>2. PICK l \in {"page", "command"} : Goes(w, l) /\ (j[w] = 0 <=> l = "page")
    BY <1>12 DEF TryPage
  <2>3. pc'[w] = l /\ \A v \in Writers : v # w => pc'[v] = pc[v]
    BY <2>2, Moves
  <2>4. j' = [j EXCEPT ![w] = (j[w] + 65535) % 65536]
    BY <1>12 DEF TryPage
  <2>5. j'[w] = (j[w] + 65535) % 65536 /\ \A v \in Writers : v # w => j'[v] = j[v]
    BY <2>4, TypeFacts
  <2>6. ASSUME l = "command" PROVE j'[w] # 65535 /\ j'[w] < TRIES
    <3>1. j[w] # 0
      BY <2>2, <2>6
    <3>2. QED
      BY <2>1, <2>5, <3>1, Decrement
  <2>7. \A v \in Writers : v # w => Keeps(v)
    BY <2>1, <2>5 DEF Keeps
  <2>8. Shows(image[w], net[w])' /\ net[w] # None
    BY <2>1 DEF WriterInv, Shows
  <2>9. WriterInv(w)'
    BY <2>1, <2>2, <2>3, <2>6, <2>8 DEF WriterInv
  <2>10. QED
    BY <1>b, <2>1, <2>2, <2>3, <2>7, <2>9
<1>13. ASSUME NEW w \in Writers, PageDone(w) PROVE Writer'
  <2>1. pc[w] = "page" /\ WriterInv(w)
    BY <1>13 DEF PageDone, At, Writer
  <2>2. \A v \in Writers : v # w => pc'[v] = pc[v]
    BY <1>13, PageDoneFacts
  <2>3. CASE /\ pc'[w] = (IF w = "reset" THEN "saved" ELSE "idle")
             /\ net' = [net EXCEPT ![w] = None]
             /\ image' = [image EXCEPT ![w] = NoImage] /\ pages' = [pages EXCEPT ![w] = 1]
             /\ page' = [page EXCEPT ![w] = 1] /\ j' = [j EXCEPT ![w] = 0]
    <3>1. net'[w] = None /\ j'[w] = 0 /\ \A v \in Writers : v # w => Keeps(v)
      BY <2>3, TypeFacts DEF Keeps
    <3>2. WriterInv(w)'
      BY <2>3, <3>1 DEF WriterInv
    <3>3. \A v \in Writers : v # w => WriterInv(v)'
      BY <2>2, <3>1, OtherWriter DEF Writer
    <3>4. net'["app"] \in Nets \cup {None} /\ net'["reset"] \in {NoNet, None}
      BY <1>a, <2>3, TypeFacts DEF Writer
    <3>5. pc'["app"] # "saved"
      BY <1>a, <2>2, <2>3 DEF Writer
    <3>6. QED
      BY <3>2, <3>3, <3>4, <3>5 DEF Writer
  <2>4. CASE /\ pc'[w] = "try"
             /\ page' = [page EXCEPT ![w] = 2] /\ j' = [j EXCEPT ![w] = TRIES]
             /\ UNCHANGED <<net, image, pages>>
    <3>1. j'[w] = TRIES /\ \A v \in Writers : v # w => Keeps(v)
      BY <2>4, TypeFacts DEF Keeps
    <3>2. Shows(image[w], net[w])' /\ net[w] # None /\ TRIES # 65535
      <4>1. Shows(image[w], net[w]) /\ net[w] # None
        BY <2>1 DEF WriterInv
      <4>2. Shows(image[w], net[w])'
        BY <2>4, <4>1 DEF Shows
      <4>3. TRIES # 65535
        BY BoundsAssumption
      <4>4. QED
        BY <4>1, <4>2, <4>3
    <3>3. WriterInv(w)'
      BY <2>4, <3>1, <3>2 DEF WriterInv
    <3>4. QED
      BY <1>b, <2>2, <2>4, <3>1, <3>3
  <2>5. QED
    BY <1>13, <2>3, <2>4, PageDoneFacts
<1>14. CASE ChipDone
  <2>1. \A w \in Writers : Keeps(w) /\ pc'[w] = pc[w]
    BY <1>14 DEF ChipDone, Keeps
  <2>2. UNCHANGED <<pc, net>>
    BY <1>14 DEF ChipDone
  <2>3. QED
    BY <2>1, <2>2, OtherWriter DEF Writer
<1>15. CASE PowerLoss \/ ChipReset
  <2>1. \A w \in Writers : pc'[w] = "idle" /\ net'[w] = None /\ j'[w] = 0
    BY <1>15 DEF PowerLoss, ChipReset, Restart
  <2>2. QED
    BY <1>a, <2>1 DEF Writer, WriterInv
<1>16. CASE UNCHANGED vars
  <2>1. UNCHANGED <<pc, net, image, pages, page, j>>
    BY <1>16 DEF vars
  <2>2. QED
    BY <2>1 DEF Writer, WriterInv, Shows
<1>17. QED
  BY <1>1, <1>2, <1>3, <1>5, <1>6, <1>7, <1>8, <1>9, <1>10, <1>11, <1>12, <1>13, <1>14,
     <1>15, <1>16
  DEF Next, Step

-----------------------------------------------------------------------------
(* The chip. *)

(* When a writer that does not wait runs, the chip is ready, or busy with  *)
(* a command of the application that the reset button has interrupted.     *)
LEMMA ChipFree ==
  ASSUME Chip, NEW w \in Writers, Runs(w), pc[w] \notin {"ewait", "wait"}
  PROVE  \/ busy = Ready
         \/ /\ w = "reset" /\ Sent("app")
            /\ "blind" \in mishaps \/ pc["reset"] \notin Writing
<1>1. CASE w = "app"
  <2>1. pc["reset"] \in {"idle", "saved"}
    BY <1>1 DEF Runs
  <2>2. QED
    BY <1>1, <2>1 DEF Chip, Sent
<1>2. CASE w = "reset"
  BY <1>2 DEF Chip, Sent
<1>3. QED
  BY <1>1, <1>2 DEF Writers

(* The chip is only ever busy with the command of a writer that waits,     *)
(* and during a button's save that read no busy chip only with its own.    *)
LEMMA ChipStep ==
  ASSUME TypeOK, Writer, Chip, [Next]_vars
  PROVE  Chip'
<1>a. "app" \in Writers /\ "reset" \in Writers /\ "app" # "reset"
  BY DEF Writers
<1>e. faults > 0 => faults' > 0
  BY FaultsGrow
<1>b. ASSUME busy' = Ready PROVE Chip'
  BY <1>b DEF Chip
<1>c. ASSUME busy' = busy, NEW w \in Writers,
             \/ busy = Ready
             \/ /\ w = "reset" /\ Sent("app")
                /\ "blind" \in mishaps' \/ pc'["reset"] \notin Writing,
             \A v \in Writers : v # w =>
               pc'[v] = pc[v] /\ image'[v] = image[v] /\ page'[v] = page[v]
      PROVE  Chip'
  <2>1. CASE busy = Ready
    BY <1>b, <1>c, <2>1
  <2>2. CASE w = "reset" /\ Sent("app") /\ ("blind" \in mishaps' \/ pc'["reset"] \notin Writing)
    <3>1. pc'["app"] = pc["app"] /\ image'["app"] = image["app"] /\ page'["app"] = page["app"]
      BY <1>a, <1>c, <2>2
    <3>2. Sent("app")'
      <4>1. Truncated(image["app"], page["app"])' = Truncated(image["app"], page["app"])
        BY <3>1 DEF Truncated
      <4>2. QED
        BY <1>c, <1>e, <2>2, <3>1, <4>1 DEF Sent
    <3>3. QED
      BY <2>2, <3>2 DEF Chip
  <2>3. QED
    BY <1>c, <2>1, <2>2
<1>d. ASSUME NEW w \in Writers, Sent(w)', busy = Ready, pc'["reset"] = pc["reset"] \/ w = "reset",
             w = "app" => Runs("app")
      PROVE  Chip'
  <2>1. w = "app" => pc'["reset"] \notin Writing
    BY <1>a, <1>d DEF Runs, Writing, Programming
  <2>2. w = "app" \/ w = "reset"
    BY DEF Writers
  <2>3. QED
    BY <1>d, <2>1, <2>2 DEF Chip
<1>1. ASSUME NEW n \in Nets, AppSave(n) PROVE Chip'
  <2>1. busy = Ready /\ busy' = busy
    BY <1>1, <1>a, ChipFree DEF AppSave, At, chip
  <2>2. QED
    BY <1>b, <2>1
<1>2. CASE ResetSave
  <2>1. busy = Ready \/ Sent("app")
    BY <1>2, <1>a, ChipFree DEF ResetSave, At
  <2>2. pc'["reset"] = "read" /\ pc'["app"] = pc["app"]
    BY <1>2, <1>a, TypeFacts DEF ResetSave, Goes
  <2>3. busy' = busy /\ UNCHANGED <<image, page>>
    BY <1>2 DEF ResetSave, chip
  <2>4. pc'["reset"] \notin Writing
    BY <2>2 DEF Writing, Programming
  <2>5. \A v \in Writers : v # "reset" => pc'[v] = pc[v]
    BY <2>2 DEF Writers
  <2>6. QED
    BY <1>a, <1>c, <2>1, <2>3, <2>4, <2>5
<1>3. ASSUME NEW w \in Writers, ReadSector(w) PROVE Chip'
  <2>1. busy = Ready \/ (w = "reset" /\ Sent("app"))
    BY <1>3, ChipFree DEF ReadSector, At
  <2>2. net[w] \in Nets \cup {NoNet}
    BY <1>3, WriterFacts DEF ReadSector, At, Resting
  <2>3. /\ \A v \in Writers : v # w => image'[v] = image[v] /\ pc'[v] = pc[v]
        /\ page' = [page EXCEPT ![w] = 1]
        /\ mishaps' = (IF busy = Ready THEN mishaps ELSE mishaps \cup {"blind"})
        /\ UNCHANGED busy
    BY <1>3, <2>2, ReadSectorFacts
  <2>4. \A v \in Writers : v # w => page'[v] = page[v]
    BY <2>3, TypeFacts
  <2>5. busy = Ready \/ "blind" \in mishaps'
    BY <2>3
  <2>6. QED
    BY <1>c, <2>1, <2>3, <2>4, <2>5
<1>4. ASSUME NEW w \in Writers, EraseEnable(w) \/ TryPage(w) \/ ReadBack(w) \/ Compare(w)
      PROVE  Chip'
  <2>1. /\ Runs(w) /\ pc[w] \in {"ewren", "try", "readback", "compare"}
        /\ UNCHANGED <<busy, image, page, mishaps>>
    BY <1>4 DEF EraseEnable, TryPage, ReadBack, Compare, At, chip
  <2>2. PICK l \in Labels : Goes(w, l)
    BY <1>4 DEF EraseEnable, TryPage, ReadBack, Compare, Labels, Writing, Programming
  <2>3. \A v \in Writers : v # w => pc'[v] = pc[v]
    BY <2>2, Moves
  <2>4. pc[w] \in Writing /\ pc[w] \notin {"ewait", "wait"}
    BY <2>1 DEF Writing, Programming
  <2>5. busy = Ready \/ (w = "reset" /\ Sent("app") /\ "blind" \in mishaps')
    BY <2>1, <2>4, ChipFree
  <2>6. QED
    BY <1>c, <2>1, <2>3, <2>5
<1>5. ASSUME NEW w \in Writers, EraseWait(w) \/ ProgramWait(w) PROVE Chip'
  <2>1. busy = Ready /\ busy' = busy
    BY <1>5 DEF EraseWait, ProgramWait, chip
  <2>2. QED
    BY <1>b, <2>1
<1>6. ASSUME NEW w \in Writers, PageDone(w) PROVE Chip'
  <2>1. Runs(w) /\ pc[w] = "page"
    BY <1>6 DEF PageDone, At
  <2>2. busy = Ready \/ (w = "reset" /\ Sent("app") /\ "blind" \in mishaps)
    BY <2>1, ChipFree DEF Writing, Programming
  <2>3. /\ UNCHANGED busy /\ mishaps \subseteq mishaps'
        /\ \A v \in Writers : v # w => pc'[v] = pc[v]
    BY <1>6, PageDoneFacts
  <2>4. \/ image' = [image EXCEPT ![w] = NoImage] /\ page' = [page EXCEPT ![w] = 1]
        \/ page' = [page EXCEPT ![w] = 2] /\ UNCHANGED image
    BY <1>6, PageDoneFacts
  <2>5. \A v \in Writers : v # w => image'[v] = image[v] /\ page'[v] = page[v]
    BY <2>4, TypeFacts
  <2>6. QED
    BY <1>c, <2>2, <2>3, <2>5
<1>7. ASSUME NEW w \in Writers, EraseCommand(w) PROVE Chip'
  <2>1. Runs(w) /\ pc[w] = "erase" /\ UNCHANGED <<image, page>> /\ mishaps \subseteq mishaps'
    BY <1>7, CommandCounts DEF EraseCommand, At
  <2>2. pc'[w] = "ewait" /\ \A v \in Writers : v # w => pc'[v] = pc[v]
    BY <1>7, Moves DEF EraseCommand, Labels, Writing, Programming
  <2>3. CASE Accepts /\ busy' = [op |-> "erase"]
    <3>1. busy = Ready /\ busy' = [op |-> "erase"]
      BY <2>3 DEF Accepts
    <3>2. Sent(w)'
      BY <2>2, <3>1 DEF Sent
    <3>3. QED
      BY <1>a, <1>d, <2>1, <2>2, <3>1, <3>2
  <2>4. CASE busy' = busy
    <3>1. busy = Ready \/ (w = "reset" /\ Sent("app") /\ "blind" \in mishaps')
      BY <2>1, ChipFree DEF Writing, Programming
    <3>2. QED
      BY <1>c, <2>1, <2>2, <2>4, <3>1
  <2>5. QED
    BY <1>7, <2>3, <2>4 DEF EraseCommand, Cut
<1>8. ASSUME NEW w \in Writers, ProgramCommand(w) PROVE Chip'
  <2>1. Runs(w) /\ pc[w] = "command" /\ UNCHANGED <<image, page>> /\ mishaps \subseteq mishaps'
    BY <1>8, CommandCounts DEF ProgramCommand, At
  <2>2. pc'[w] = "wait" /\ \A v \in Writers : v # w => pc'[v] = pc[v]
    BY <1>8, Moves DEF ProgramCommand, Labels, Writing, Programming
  <2>3. \/ busy' = busy
        \/ /\ Accepts
           /\ \E d \in {image[w]} \cup Truncated(image[w], page[w]) :
                /\ busy' = [op |-> "program", page |-> page[w], data |-> d]
                /\ d # image[w] => faults' = faults + 1
    BY <1>8 DEF ProgramCommand, Cut
  <2>4. ASSUME Accepts, NEW d \in {image[w]} \cup Truncated(image[w], page[w]),
               busy' = [op |-> "program", page |-> page[w], data |-> d],
               d # image[w] => faults' = faults + 1
        PROVE  Chip'
    <3>1. busy = Ready
      BY <2>4 DEF Accepts
    <3>2. Sent(w)'
      <4>1. Truncated(image[w], page[w])' = Truncated(image[w], page[w])
        BY <2>1 DEF Truncated
      <4>2. faults \in Int /\ 0 <= faults
        BY FaultsNat
      <4>3. d # image[w] => faults' > 0
        <5>1. d # image[w] => faults' = faults + 1
          BY <2>4
        <5>2. QED
          BY <4>2, <5>1
      <4>4. QED
        BY <2>1, <2>2, <2>4, <4>1, <4>3 DEF Sent
    <3>3. QED
      BY <1>a, <1>d, <2>1, <2>2, <3>1, <3>2
  <2>5. ASSUME busy' = busy PROVE Chip'
    <3>1. busy = Ready \/ (w = "reset" /\ Sent("app") /\ "blind" \in mishaps')
      BY <2>1, ChipFree DEF Writing, Programming
    <3>2. QED
      BY <1>c, <2>1, <2>2, <2>5, <3>1
  <2>6. QED
    BY <2>3, <2>4, <2>5
<1>9. CASE ChipDone \/ PowerLoss \/ ChipReset
  BY <1>9, <1>b DEF ChipDone, PowerLoss, ChipReset, Restart
<1>10. CASE UNCHANGED vars
  <2>1. UNCHANGED <<busy, pc, image, page, faults, mishaps>>
    BY <1>10 DEF vars, chip
  <2>2. \A w : Truncated(image[w], page[w])' = Truncated(image[w], page[w])
    BY <2>1 DEF Truncated
  <2>3. QED
    BY <2>1, <2>2 DEF Chip, Sent
<1>11. QED
  BY <1>1, <1>2, <1>3, <1>4, <1>5, <1>6, <1>7, <1>8, <1>9, <1>10 DEF Next, Step

-----------------------------------------------------------------------------
(* The configuration in the sector. *)

(* Contents b and c have the same configuration part; c is b but for cells *)
(* that lost the bits every network has.                                   *)
Same(b, c) == \A x \in ConfigCells : c[x] = b[x]
Hit(b, c)  == \A x \in ConfigCells : c[x] = b[x] \/ "common" \notin c[x]

(* What a boot makes of contents that are dead, of a part of a             *)
(* configuration, and of contents that were hit.                           *)
LEMMA PartReads ==
  ASSUME NEW c, NEW b
  PROVE  /\ Dead(c) \/ c["flag"] = Erased => Reads(c) = NoNet
         /\ \A n \in Nets : PartOf(c, n) => Reads(c) \in {NoNet, n, "part"}
         /\ Same(b, c) => Reads(c) = Reads(b)
         /\ Hit(b, c) => Reads(c) \in {Reads(b), NoNet, "mixed"}
<1>a. {"flag", "ssid", "key"} = ConfigCells
  BY DEF ConfigCells
<1>1. Dead(c) \/ c["flag"] = Erased => Reads(c) = NoNet
  BY BitFacts DEF Dead, Reads, XPG_CFG_FLAG_CONNECTED
<1>2. ASSUME NEW n \in Nets, PartOf(c, n) PROVE Reads(c) \in {NoNet, n, "part"}
  <2>1. Of(n) \subseteq c["ssid"] /\ Of(n) \subseteq c["key"]
    BY <1>2, StoredFacts, CellFacts DEF PartOf
  <2>2. n # "common"
    BY NetsAssumption
  <2>3. \A m \in Nets : Of(n) \subseteq Of(m) => m = n
    BY <2>2 DEF Of
  <2>4. \A m \in Nets : c["ssid"] = Of(m) /\ c["key"] = Of(m) => m = n
    BY <2>1, <2>3
  <2>5. Of(n) \subseteq c["ssid"] \cap c["key"]
    BY <2>1
  <2>6. CASE \E m \in Nets : c["ssid"] = Of(m) /\ c["key"] = Of(m)
    <3>1. (CHOOSE m \in Nets : c["ssid"] = Of(m) /\ c["key"] = Of(m)) = n
      BY <2>4, <2>6
    <3>2. QED
      BY <2>6, <3>1 DEF Reads
  <2>7. CASE ~ \E m \in Nets : c["ssid"] = Of(m) /\ c["key"] = Of(m)
    <3>1. Reads(c) = IF c["flag"] # XPG_CFG_FLAG_CONNECTED THEN NoNet ELSE "part"
      BY <2>5, <2>7 DEF Reads
    <3>2. QED
      BY <3>1
  <2>8. QED
    BY <2>6, <2>7
<1>3. Same(b, c) => Reads(c) = Reads(b)
  BY <1>a DEF Same, Reads
<1>4. ASSUME Hit(b, c) PROVE Reads(c) \in {Reads(b), NoNet, "mixed"}
  <2>1. CASE Same(b, c)
    BY <1>3, <2>1
  <2>2. CASE c["flag"] # XPG_CFG_FLAG_CONNECTED
    BY <2>2 DEF Reads
  <2>3. CASE c["flag"] = XPG_CFG_FLAG_CONNECTED /\ ~ Same(b, c)
    <3>1. c["flag"] = b["flag"]
      BY <1>4, <2>3, CellFacts DEF Hit, XPG_CFG_FLAG_CONNECTED
    <3>2. "common" \notin c["ssid"] \cap c["key"]
      BY <1>4, <1>a, <2>3, <3>1 DEF Hit, Same
    <3>3. \A m \in Nets : "common" \in Of(m)
      BY DEF Of
    <3>4. /\ ~ \E m \in Nets : c["ssid"] = Of(m) /\ c["key"] = Of(m)
          /\ ~ \E m \in Nets : Of(m) \subseteq c["ssid"] \cap c["key"]
      BY <3>2, <3>3
    <3>5. QED
      BY <2>3, <3>4 DEF Reads
  <2>4. QED
    BY <2>1, <2>2, <2>3
<1>5. QED
  BY <1>1, <1>2, <1>3, <1>4

(* A blank sector may become a configuration of any network.               *)
LEMMA BlankPart ==
  ASSUME NEW c, IsBlank(c), NEW n \in Nets
  PROVE  PartOf(c, n)
BY StoredFacts DEF IsBlank, PartOf, Erased

(* The data of the application's command has the bits of its network, that *)
(* of the reset button's none, unless it does not reach the flag.          *)
LEMMA SentData ==
  ASSUME TypeOK, Writer, NEW w \in Writers, NEW d \in Contents,
         pc[w] = "wait",
         d = image[w] \/ d \in Truncated(image[w], page[w])
  PROVE  /\ w = "app" => net["app"] \in Nets /\ PartOf(d, net["app"])
         /\ w = "app" /\ d = image[w] => Shows(d, net["app"])
         /\ w = "reset" =>
              /\ \A x \in ConfigCells : d[x] \in {Zero, Half(Zero), Erased}
              /\ page["reset"] = 1 => IsBlank(d) \/ d["flag"] \in {Zero, Half(Zero)}
<1>1. WriterInv(w) /\ image[w] \in Contents /\ page[w] \in 1 .. 2
  BY TypeFacts DEF Writer
<1>2. Shows(image[w], net[w]) /\ net[w] # None
  BY <1>1 DEF WriterInv, Resting, Writing, Programming
<1>3. \A x \in Cells : d[x] \in {image[w][x], Half(image[w][x]), Erased} /\ image[w][x] \subseteq d[x]
  BY <1>1, TruncFacts
<1>4. page[w] = 1 => IsBlank(d) \/ d["flag"] \in {image[w]["flag"], Half(image[w]["flag"])}
  BY <1>1, TruncFacts
<1>5. CASE w = "app"
  <2>1. net["app"] \in Nets
    BY <1>2, <1>5 DEF Writer
  <2>2. \A x \in ConfigCells : Stored(net["app"])[x] \subseteq d[x]
    BY <1>2, <1>3, <1>5, CellFacts DEF Shows
  <2>3. QED
    BY <1>2, <1>5, <2>1, <2>2 DEF PartOf
<1>6. CASE w = "reset"
  <2>1. net["reset"] = NoNet
    BY <1>2, <1>6 DEF Writer
  <2>2. \A x \in ConfigCells : image["reset"][x] = Zero
    BY <1>2, <1>6, <2>1, StoredFacts DEF Shows
  <2>3. \A x \in ConfigCells : d[x] \in {Zero, Half(Zero), Erased}
    BY <1>3, <1>6, <2>2, CellFacts
  <2>4. page["reset"] = 1 => IsBlank(d) \/ d["flag"] \in {Zero, Half(Zero)}
    BY <1>4, <1>6, <2>2, CellFacts
  <2>5. QED
    BY <1>6, <2>3, <2>4
<1>7. QED
  BY <1>5, <1>6 DEF Writers

(* What the command in progress leaves. *)
LEMMA DoneConfig ==
  ASSUME TypeOK, Writer, Chip, Sector, "cut_erase" \notin mishaps,
         NEW c, c = Done(cells, busy)
  PROVE  \/ busy = [op |-> "erase"] /\ IsBlank(c)
         \/ busy # [op |-> "erase"] /\ (Same(cells, c) \/ Dead(c))
         \/ /\ pc["app"] = "wait" /\ net["app"] \in Nets /\ PartOf(c, net["app"])
            /\ Shows(c, net["app"]) \/ faults > 0
<1>a. /\ "app" \in Writers /\ "reset" \in Writers /\ cells \in Contents
      /\ page["app"] \in 1 .. 2 /\ page["reset"] \in 1 .. 2
  BY TypeFacts DEF Writers
<1>1. CASE busy = Ready
  <2>1. busy # [op |-> "erase"] /\ c = cells
    BY <1>1, <1>a, ReadyDone DEF Ready
  <2>2. QED
    BY <2>1 DEF Same
<1>2. CASE busy = [op |-> "erase"]
  BY <1>2, EraseDone
<1>3. ASSUME NEW w \in Writers, NEW d \in Contents, busy = Program(page[w], d)
      PROVE  /\ busy # [op |-> "erase"]
             /\ page[w] = 1 => \A x \in ConfigCells : c[x] = cells[x] \cap d[x]
             /\ page[w] = 2 => Same(cells, c)
             /\ page[w] = 1 \/ page[w] = 2
  <2>1. page[w] \in 1 .. 2
    BY <1>a DEF Writers
  <2>2. /\ page[w] = 1 => \A x \in ConfigCells : c[x] = cells[x] \cap d[x]
        /\ page[w] = 2 => \A x \in ConfigCells : c[x] = cells[x]
    BY <1>3, <1>a, <2>1, ProgramDone
  <2>3. busy # [op |-> "erase"]
    BY <1>3 DEF Program
  <2>4. QED
    BY <2>1, <2>2, <2>3 DEF Same
<1>4. CASE Sent("app")
  <2>1. SUFFICES ASSUME pc["app"] = "wait", NEW d \in Contents, busy = Program(page["app"], d),
                        d = image["app"] \/ (faults > 0 /\ d \in Truncated(image["app"], page["app"]))
                 PROVE  \/ busy # [op |-> "erase"] /\ (Same(cells, c) \/ Dead(c))
                        \/ /\ pc["app"] = "wait" /\ net["app"] \in Nets /\ PartOf(c, net["app"])
                           /\ Shows(c, net["app"]) \/ faults > 0
    BY <1>2, <1>4, <1>a, SentFacts
  <2>2. /\ busy # [op |-> "erase"]
        /\ page["app"] = 1 => \A x \in ConfigCells : c[x] = cells[x] \cap d[x]
        /\ page["app"] = 2 => Same(cells, c)
        /\ page["app"] = 1 \/ page["app"] = 2
    BY <1>3, <1>a, <2>1
  <2>3. /\ net["app"] \in Nets /\ PartOf(d, net["app"])
        /\ d = image["app"] => Shows(d, net["app"])
    BY <1>a, <2>1, SentData
  <2>4. Dead(cells) \/ PartOf(cells, net["app"])
    BY <2>1, <2>2, <2>3, BlankPart DEF Sector, Cleared, Programming
  <2>5. SUFFICES ASSUME page["app"] = 1
                 PROVE  Dead(c) \/ (PartOf(c, net["app"]) /\ (Shows(c, net["app"]) \/ faults > 0))
    BY <2>1, <2>2, <2>3
  <2>6. \A x \in ConfigCells : c[x] = cells[x] \cap d[x]
    BY <2>2, <2>5
  <2>7. CASE Dead(cells)
    BY <2>6, <2>7, CellFacts DEF Dead
  <2>8. CASE PartOf(cells, net["app"])
    <3>1. PartOf(c, net["app"])
      BY <2>3, <2>6, <2>8 DEF PartOf
    <3>2. d = image["app"] => Shows(c, net["app"])
      BY <2>3, <2>6, <2>8 DEF PartOf, Shows
    <3>3. QED
      BY <2>1, <3>1, <3>2
  <2>9. QED
    BY <2>4, <2>7, <2>8
<1>5. CASE Sent("reset")
  <2>1. SUFFICES ASSUME pc["reset"] = "wait", NEW d \in Contents, busy = Program(page["reset"], d),
                        d = image["reset"] \/ d \in Truncated(image["reset"], page["reset"])
                 PROVE  busy # [op |-> "erase"] /\ (Same(cells, c) \/ Dead(c))
    BY <1>2, <1>5, <1>a, SentFacts
  <2>2. /\ busy # [op |-> "erase"]
        /\ page["reset"] = 1 => \A x \in ConfigCells : c[x] = cells[x] \cap d[x]
        /\ page["reset"] = 2 => Same(cells, c)
        /\ page["reset"] = 1 \/ page["reset"] = 2
    BY <1>3, <1>a, <2>1
  <2>3. page["reset"] = 1 => IsBlank(d) \/ d["flag"] \in {Zero, Half(Zero)}
    BY <1>a, <2>1, SentData
  <2>4. SUFFICES ASSUME page["reset"] = 1 PROVE Same(cells, c) \/ Dead(c)
    BY <2>2
  <2>5. \A x \in ConfigCells : c[x] = cells[x] \cap d[x] /\ cells[x] \subseteq Erased
    BY <1>a, <2>2, <2>4, CellFacts DEF Contents, Erased
  <2>6. CASE IsBlank(d)
    BY <2>5, <2>6 DEF IsBlank, Same
  <2>7. CASE d["flag"] \in {Zero, Half(Zero)}
    BY <2>5, <2>7, CellFacts DEF Dead, Zero, Half
  <2>8. QED
    BY <2>3, <2>4, <2>6, <2>7
<1>6. QED
  BY <1>1, <1>4, <1>5 DEF Chip

(* What a command leaves that the loss of power interrupts. *)
LEMMA TornConfig ==
  ASSUME TypeOK, Writer, Chip, Sector, "cut_erase" \notin mishaps,
         NEW begun \in SUBSET Touched(busy), NEW ended \in SUBSET begun,
         busy.op = "erase" => begun = Cells \/ ended = {},
         NEW c, c = Torn(cells, busy, begun, ended)
  PROVE  \/ Hit(cells, c) \/ Dead(c) \/ c["flag"] = Erased
         \/ net["app"] \in Nets /\ PartOf(c, net["app"])
<1>a. /\ "app" \in Writers /\ "reset" \in Writers /\ cells \in Contents
      /\ page["app"] \in 1 .. 2 /\ page["reset"] \in 1 .. 2
      /\ \A x \in ConfigCells : x \in Cells
  BY TypeFacts, CellFacts DEF Writers
<1>b. \A x \in Cells : c[x] = IF x \notin begun THEN cells[x]
                              ELSE IF x \in ended THEN Done(cells, busy)[x]
                              ELSE IF busy.op = "erase" THEN Zero
                              ELSE cells[x] \cap Half(busy.data[x])
  BY DEF Torn
<1>1. CASE busy = Ready
  <2>1. begun = {}
    BY <1>1 DEF Touched, Ready
  <2>2. QED
    BY <1>a, <1>b, <2>1 DEF Hit
<1>2. CASE busy = [op |-> "erase"]
  <2>1. busy.op = "erase" /\ \A x \in Cells : Done(cells, busy)[x] = Erased
    BY <1>2 DEF Done
  <2>2. CASE begun = Cells
    <3>1. c["flag"] = Erased \/ c["flag"] = Zero
      BY <1>a, <1>b, <2>1, <2>2, CellFacts
    <3>2. QED
      BY <3>1 DEF Dead, Zero
  <2>3. CASE ended = {}
    <3>1. \A x \in ConfigCells : c[x] = cells[x] \/ c[x] = Zero
      BY <1>a, <1>b, <2>1, <2>3
    <3>2. QED
      BY <3>1 DEF Hit, Zero
  <2>4. QED
    BY <2>1, <2>2, <2>3
<1>3. ASSUME NEW w \in Writers, NEW d \in Contents, busy = Program(page[w], d)
      PROVE  \A x \in ConfigCells :
               \/ c[x] = cells[x]
               \/ /\ x \in begun /\ page[w] = 1
                  /\ c[x] = cells[x] \cap d[x] \/ c[x] = cells[x] \cap Half(d[x])
  <2>1. SUFFICES ASSUME NEW x \in ConfigCells, x \in begun
                 PROVE  page[w] = 1 /\ (c[x] = cells[x] \cap d[x] \/ c[x] = cells[x] \cap Half(d[x]))
    BY <1>a, <1>b
  <2>2. page[w] \in 1 .. 2 /\ busy.op = "program" /\ busy.page = page[w] /\ busy.data = d
    BY <1>3, <1>a DEF Writers, Program
  <2>3. x \in PageCells[page[w]]
    BY <2>1, <2>2 DEF Touched
  <2>4. page[w] = 1
    BY <2>1, <2>2, <2>3, CellFacts
  <2>5. Done(cells, busy)[x] = cells[x] \cap d[x]
    BY <1>a, <2>1, <2>2, <2>3 DEF Done
  <2>6. QED
    BY <1>a, <1>b, <2>1, <2>2, <2>4, <2>5
<1>4. CASE Sent("app")
  <2>1. SUFFICES ASSUME pc["app"] = "wait", NEW d \in Contents, busy = Program(page["app"], d),
                        d = image["app"] \/ d \in Truncated(image["app"], page["app"])
                 PROVE  Dead(c) \/ (net["app"] \in Nets /\ PartOf(c, net["app"]))
    BY <1>2, <1>4, <1>a, SentFacts
  <2>2. \A x \in ConfigCells : \/ c[x] = cells[x] \/ c[x] = cells[x] \cap d[x]
                               \/ c[x] = cells[x] \cap Half(d[x])
    BY <1>3, <1>a, <2>1
  <2>3. net["app"] \in Nets /\ PartOf(d, net["app"]) /\ busy # [op |-> "erase"]
    BY <1>a, <2>1, SentData DEF Program
  <2>4. Dead(cells) \/ PartOf(cells, net["app"])
    BY <2>1, <2>3, BlankPart DEF Sector, Cleared, Programming
  <2>5. CASE Dead(cells)
    BY <2>2, <2>5, CellFacts DEF Dead
  <2>6. CASE PartOf(cells, net["app"])
    BY <2>2, <2>3, <2>6 DEF PartOf, Half
  <2>7. QED
    BY <2>4, <2>5, <2>6
<1>5. CASE Sent("reset")
  <2>1. SUFFICES ASSUME pc["reset"] = "wait", NEW d \in Contents, busy = Program(page["reset"], d),
                        d = image["reset"] \/ d \in Truncated(image["reset"], page["reset"])
                 PROVE  Hit(cells, c)
    BY <1>2, <1>5, <1>a, SentFacts
  <2>2. \A x \in ConfigCells : \/ c[x] = cells[x] \/ c[x] = cells[x] \cap d[x]
                               \/ c[x] = cells[x] \cap Half(d[x])
    BY <1>3, <1>a, <2>1
  <2>3. \A x \in ConfigCells : d[x] \in {Zero, Half(Zero), Erased}
    BY <1>a, <2>1, SentData
  <2>4. \A x \in ConfigCells : cells[x] \cap Erased = cells[x] /\ cells[x] \cap Half(Erased) = cells[x]
    BY <1>a DEF Contents, Erased, Half
  <2>5. \A S : \A v \in {Zero, Half(Zero), Half(Half(Zero))} : "common" \notin S \cap v
    BY DEF Zero, Half
  <2>6. QED
    BY <2>2, <2>3, <2>4, <2>5 DEF Hit
<1>6. QED
  BY <1>1, <1>4, <1>5 DEF Chip

(* The chip begins idle, and the application at rest.                      *)
LEMMA InitSector == Init => Chip /\ Sector
BY DEF Init, Writers, Chip, Sector, Programming

(* Nothing that has gone wrong is forgotten before a restart.              *)
LEMMA MishapsGrow ==
  ASSUME TypeOK, [Next]_vars, ~ (PowerLoss \/ ChipReset)
  PROVE  mishaps \subseteq mishaps'
<1>1. ASSUME NEW w \in Writers, EraseCommand(w) \/ ProgramCommand(w) PROVE mishaps \subseteq mishaps'
  BY <1>1, CommandCounts
<1>2. ASSUME NEW w \in Writers, PageDone(w) PROVE mishaps \subseteq mishaps'
  BY <1>2, PageDoneFacts
<1>3. ASSUME NEW w \in Writers, ReadSector(w) PROVE mishaps \subseteq mishaps'
  BY <1>3 DEF ReadSector
<1>4. ASSUME ~ \E w \in Writers : EraseCommand(w) \/ ProgramCommand(w) \/ PageDone(w) \/ ReadSector(w)
      PROVE  mishaps' = mishaps
  BY <1>4 DEF Next, Step, AppSave, ResetSave, EraseEnable, EraseWait, TryPage,
     ProgramWait, ReadBack, Compare, ChipDone, vars
<1>5. QED
  BY <1>1, <1>2, <1>3, <1>4

(* Every step keeps what the sector may hold of a configuration.           *)
LEMMA SectorStep ==
  ASSUME TypeOK, Writer, Chip, Sector, [Next]_vars
  PROVE  Sector'
<1>a. "app" \in Writers /\ "reset" \in Writers /\ "app" # "reset"
  BY DEF Writers
<1>b. ASSUME pc'["app"] \notin Programming, pc'["app"] # "erase" PROVE Sector'
  BY <1>b DEF Sector
<1>r. CASE PowerLoss \/ ChipReset
  <2>1. pc'["app"] = "idle"
    BY <1>r, <1>a DEF PowerLoss, ChipReset, Restart
  <2>2. QED
    BY <1>b, <2>1 DEF Programming
<1>s. SUFFICES ASSUME ~ (PowerLoss \/ ChipReset), "cut_erase" \notin mishaps' PROVE Sector'
  BY <1>r DEF Sector
<1>t. "cut_erase" \notin mishaps
  BY <1>s, MishapsGrow
<1>p. pc["app"] \in Programming => Cleared \/ PartOf(cells, net["app"])
  BY <1>t DEF Sector
<1>q. pc["app"] = "erase" =>
        \/ Cleared
        \/ busy = Ready /\ wel /\ pc["reset"] \in {"idle", "saved", "read", "ewren", "erase"}
  BY <1>t DEF Sector
<1>c. ASSUME UNCHANGED <<cells, busy>>, pc'["app"] = pc["app"], net'["app"] = net["app"],
             pc["app"] = "erase" =>
               \/ Cleared
               \/ /\ busy = Ready /\ wel'
                  /\ pc'["reset"] \in {"idle", "saved", "read", "ewren", "erase"}
      PROVE  Sector'
  BY <1>c, <1>p DEF Sector, Cleared, IsBlank, Dead, PartOf
<1>d. ASSUME Cleared' PROVE Sector'
  BY <1>d DEF Sector
<1>e. ASSUME UNCHANGED <<cells, busy, net>>, Cleared \/ PartOf(cells, net["app"]),
             pc'["app"] # "erase"
      PROVE  Sector'
  BY <1>e DEF Sector, Cleared, IsBlank, Dead, PartOf
<1>1. ASSUME NEW n \in Nets, AppSave(n) PROVE Sector'
  <2>1. pc'["app"] = "read"
    BY <1>1, <1>a, TypeFacts DEF AppSave, Goes
  <2>2. QED
    BY <1>b, <2>1 DEF Programming
<1>2. CASE ResetSave
  <2>1. /\ pc'["reset"] = "read" /\ pc'["app"] = pc["app"] /\ net'["app"] = net["app"]
        /\ UNCHANGED <<cells, busy, wel>>
    BY <1>2, <1>a, TypeFacts DEF ResetSave, Goes, chip
  <2>2. QED
    BY <1>c, <1>q, <2>1
<1>3. ASSUME NEW w \in Writers, ReadSector(w) PROVE Sector'
  <2>1. net[w] \in Nets \cup {NoNet} /\ pc[w] = "read" /\ Runs(w)
    BY <1>3, WriterFacts DEF ReadSector, At, Resting
  <2>2. /\ \/ pc'[w] = "try" /\ (busy = Ready => IsBlank(cells))
           \/ pc'[w] = "ewren"
        /\ \A v \in Writers : v # w => pc'[v] = pc[v]
        /\ UNCHANGED <<cells, wel, busy, net>>
    BY <1>3, <2>1, ReadSectorFacts
  <2>3. CASE w = "app"
    <3>1. busy = Ready
      BY <2>1, <2>3, <1>a, ChipFree
    <3>2. CASE pc'["app"] = "try"
      <4>1. Cleared
        BY <2>2, <2>3, <3>1, <3>2 DEF Cleared
      <4>2. QED
        BY <1>e, <2>2, <3>2, <4>1
    <3>3. CASE pc'["app"] = "ewren"
      BY <1>b, <3>3 DEF Programming
    <3>4. QED
      BY <2>2, <2>3, <3>2, <3>3
  <2>4. CASE w = "reset"
    <3>1. pc'["app"] = pc["app"]
      BY <1>a, <2>2, <2>4
    <3>2. ASSUME pc["app"] = "erase"
          PROVE  \/ Cleared
                 \/ /\ busy = Ready /\ wel'
                    /\ pc'["reset"] \in {"idle", "saved", "read", "ewren", "erase"}
      BY <1>q, <2>2, <2>4, <3>2 DEF Cleared
    <3>3. QED
      BY <1>c, <2>2, <3>1, <3>2
  <2>5. QED
    BY <2>3, <2>4 DEF Writers
<1>4. ASSUME NEW w \in Writers, EraseEnable(w) PROVE Sector'
  <2>1. /\ pc[w] = "ewren" /\ Runs(w) /\ UNCHANGED <<cells, busy, net>>
        /\ (busy = Ready => wel') /\ (wel => wel')
    BY <1>4 DEF EraseEnable, At, WriteEnable
  <2>2. pc'[w] = "erase" /\ \A v \in Writers : v # w => pc'[v] = pc[v]
    BY <1>4, Moves DEF EraseEnable, Labels, Writing
  <2>3. CASE w = "app"
    <3>1. busy = Ready /\ pc'["reset"] \in {"idle", "saved"}
      BY <1>a, <2>1, <2>2, <2>3, ChipFree DEF Runs
    <3>2. QED
      BY <1>a, <2>1, <2>2, <2>3, <3>1 DEF Sector, Programming
  <2>4. CASE w = "reset"
    <3>1. pc'["app"] = pc["app"] /\ net'["app"] = net["app"]
      BY <1>a, <2>1, <2>2, <2>4
    <3>2. QED
      BY <1>c, <1>q, <2>1, <2>2, <2>4, <3>1
  <2>5. QED
    BY <2>3, <2>4 DEF Writers
<1>5. ASSUME NEW w \in Writers, EraseCommand(w) PROVE Sector'
  <2>1. /\ pc[w] = "erase" /\ Runs(w) /\ UNCHANGED <<cells, wel, net>>
        /\ busy' = IF Accepts THEN [op |-> "erase"] ELSE busy
    BY <1>5, <1>s DEF EraseCommand, At, Cut
  <2>2. pc'[w] = "ewait" /\ \A v \in Writers : v # w => pc'[v] = pc[v]
    BY <1>5, Moves DEF EraseCommand, Labels, Writing, Programming
  <2>3. CASE Accepts
    BY <1>d, <2>1, <2>3 DEF Cleared
  <2>4. CASE ~ Accepts
    <3>1. busy' = busy
      BY <2>1, <2>4
    <3>2. CASE w = "app"
      <4>1. Cleared
        BY <1>q, <2>1, <2>4, <3>2 DEF Accepts
      <4>2. QED
        BY <1>e, <2>1, <2>2, <3>1, <3>2, <4>1
    <3>3. CASE w = "reset"
      <4>1. pc'["app"] = pc["app"] /\ net'["app"] = net["app"]
        BY <1>a, <2>1, <2>2, <3>3
      <4>2. pc["app"] = "erase" => Cleared
        BY <1>q, <2>4 DEF Accepts
      <4>3. QED
        BY <1>c, <2>1, <3>1, <4>1, <4>2
    <3>4. QED
      BY <3>2, <3>3 DEF Writers
  <2>5. QED
    BY <2>3, <2>4
<1>6. ASSUME NEW w \in Writers, NEW l \in Programming, Goes(w, l), pc[w] \in Programming,
             UNCHANGED <<cells, busy, net>>
      PROVE  Sector'
  <2>1. pc'[w] = l /\ \A v \in Writers : v # w => pc'[v] = pc[v]
    BY <1>6, Moves DEF Labels, Writing
  <2>2. CASE w = "app"
    <3>1. pc'["app"] # "erase"
      BY <1>6, <2>1, <2>2 DEF Programming
    <3>2. QED
      BY <1>e, <1>p, <1>6, <2>2, <3>1
  <2>3. CASE w = "reset"
    <3>1. pc'["app"] = pc["app"] /\ net'["app"] = net["app"]
      BY <1>a, <1>6, <2>1, <2>3
    <3>2. pc["app"] = "erase" => Cleared
      BY <1>q, <1>6, <2>3 DEF Programming
    <3>3. QED
      BY <1>c, <1>6, <3>1, <3>2
  <2>4. QED
    BY <2>2, <2>3 DEF Writers
<1>7. ASSUME NEW w \in Writers,
             EraseWait(w) \/ TryPage(w) \/ ProgramWait(w) \/ ReadBack(w) \/ Compare(w)
      PROVE  Sector'
  <2>1. pc[w] \in Programming /\ UNCHANGED <<cells, busy, net>>
    BY <1>7 DEF EraseWait, TryPage, ProgramWait, ReadBack, Compare, At, chip, Programming
  <2>2. PICK l \in Programming : Goes(w, l)
    BY <1>7 DEF EraseWait, TryPage, ProgramWait, ReadBack, Compare, Programming
  <2>3. QED
    BY <1>6, <2>1, <2>2
<1>8. ASSUME NEW w \in Writers, ProgramCommand(w) PROVE Sector'
  <2>1. /\ pc[w] = "command" /\ Runs(w) /\ UNCHANGED <<cells, wel, net>>
        /\ busy' = busy \/ busy = Ready
    BY <1>8 DEF ProgramCommand, At, Accepts, Cut
  <2>2. pc'[w] = "wait" /\ \A v \in Writers : v # w => pc'[v] = pc[v]
    BY <1>8, Moves DEF ProgramCommand, Labels, Writing, Programming
  <2>3. Cleared => Cleared'
    BY <2>1 DEF Cleared, IsBlank, Dead, Ready
  <2>4. PartOf(cells, net["app"]) => PartOf(cells, net["app"])'
    BY <2>1 DEF PartOf
  <2>5. CASE w = "app"
    <3>1. Cleared \/ PartOf(cells, net["app"])
      BY <1>p, <2>1, <2>5 DEF Programming
    <3>2. QED
      BY <2>2, <2>3, <2>4, <2>5, <3>1 DEF Sector
  <2>6. CASE w = "reset"
    <3>1. pc'["app"] = pc["app"] /\ net'["app"] = net["app"]
      BY <1>a, <2>1, <2>2, <2>6
    <3>2. pc["app"] = "erase" => Cleared
      BY <1>q, <2>1, <2>6
    <3>3. QED
      BY <1>p, <2>3, <2>4, <3>1, <3>2 DEF Sector
  <2>7. QED
    BY <2>5, <2>6 DEF Writers
<1>9. ASSUME NEW w \in Writers, PageDone(w) PROVE Sector'
  <2>1. pc[w] = "page" /\ Runs(w)
    BY <1>9 DEF PageDone, At
  <2>2. \A v \in Writers : v # w => pc'[v] = pc[v]
    BY <1>9, PageDoneFacts
  <2>3. UNCHANGED <<cells, wel, busy>>
    BY <1>9, PageDoneFacts
  <2>4. \/ pc'[w] = (IF w = "reset" THEN "saved" ELSE "idle") /\ net' = [net EXCEPT ![w] = None]
        \/ pc'[w] = "try" /\ UNCHANGED net
    BY <1>9, PageDoneFacts
  <2>5. CASE w = "app"
    <3>1. CASE pc'["app"] = "idle"
      BY <1>b, <3>1 DEF Programming
    <3>2. CASE pc'["app"] = "try" /\ UNCHANGED net
      BY <1>e, <1>p, <2>1, <2>3, <2>5, <3>2 DEF Programming
    <3>3. QED
      BY <2>4, <2>5, <3>1, <3>2
  <2>6. CASE w = "reset"
    <3>1. pc'["app"] = pc["app"] /\ net'["app"] = net["app"]
      BY <1>a, <2>2, <2>4, <2>6, TypeFacts
    <3>2. pc["app"] = "erase" => Cleared
      BY <1>q, <2>1, <2>6
    <3>3. QED
      BY <1>c, <2>3, <3>1, <3>2
  <2>7. QED
    BY <2>5, <2>6 DEF Writers
<1>10. CASE ChipDone
  <2>1. cells' = Done(cells, busy) /\ busy # Ready /\ UNCHANGED <<pc, net>>
    BY <1>10 DEF ChipDone
  <2>2. \/ busy = [op |-> "erase"] /\ IsBlank(cells')
        \/ busy # [op |-> "erase"] /\ (Same(cells, cells') \/ Dead(cells'))
        \/ pc["app"] = "wait" /\ PartOf(cells', net["app"])
    BY <1>t, <2>1, DoneConfig
  <2>3. IsBlank(cells') \/ Dead(cells') => Sector'
    BY <1>d DEF Cleared, IsBlank, Dead
  <2>4. ASSUME pc["app"] = "wait", PartOf(cells', net["app"]) PROVE Sector'
    BY <2>1, <2>4 DEF Sector, PartOf
  <2>5. ASSUME busy # [op |-> "erase"], Same(cells, cells') PROVE Sector'
    <3>1. IsBlank(cells) => IsBlank(cells')
      BY <2>5 DEF Same, IsBlank
    <3>2. Dead(cells) => Dead(cells')
      BY <2>5, CellFacts DEF Same, Dead
    <3>3. PartOf(cells, net["app"]) => PartOf(cells, net["app"])'
      BY <2>1, <2>5 DEF Same, PartOf
    <3>4. Cleared => Cleared'
      BY <2>5, <3>1, <3>2 DEF Cleared, IsBlank, Dead
    <3>5. QED
      BY <1>p, <1>q, <2>1, <3>3, <3>4 DEF Sector
  <2>6. QED
    BY <2>2, <2>3, <2>4, <2>5
<1>11. CASE UNCHANGED vars
  <2>1. UNCHANGED <<cells, busy, wel, pc, net>>
    BY <1>11 DEF vars, chip
  <2>2. QED
    BY <2>1, <1>c, <1>q
<1>12. QED
  BY <1>s, <1>1, <1>2, <1>3, <1>4, <1>5, <1>7, <1>8, <1>9, <1>10, <1>11 DEF Next, Step

(* However two saves nest, the chip only ever carries out the command of a *)
(* writer that waits, and no older network is left in the sector when the  *)
(* application programs its own, unless an erase command was cut, although *)
(* programs and erases may be torn (nuagent_drv.c:84-101).                 *)
THEOREM FlashInv == Spec => []Inv
<1>1. Init => Inv
  BY InitType, InitWriter, InitSector DEF Inv
<1>2. Inv /\ [Next]_vars => Inv'
  BY TypeStep, WriterStep, ChipStep, SectorStep DEF Inv
<1>3. QED
  BY <1>1, <1>2, PTL DEF Spec

(* The chip holds bit patterns, every writer is at a step of WriteFlash    *)
(* and its attempts stay in the range of the 16 bit counter                *)
(* (nuagent_drv.c:57-101, BspDemo.c:799-809).                              *)
THEOREM FlashTypeOK == Spec => []TypeOK
<1>1. Inv => TypeOK
  BY DEF Inv
<1>2. QED
  BY <1>1, FlashInv, PTL

-----------------------------------------------------------------------------
(* The store. *)

(* When the chip finishes, a boot finds what it found before, no           *)
(* configuration, the one being saved or, of a truncated page, a part.     *)
LEMMA DoneReads ==
  ASSUME Inv, "cut_erase" \notin mishaps, NEW c, c = Done(cells, busy)
  PROVE  /\ busy = Ready => c = cells
         /\ \/ Reads(c) \in {Reads(cells), NoNet}
            \/ net["app"] \in Nets /\ Reads(c) = net["app"]
            \/ net["app"] \in Nets /\ Reads(c) = "part" /\ faults > 0
<1>1. \/ IsBlank(c) \/ Same(cells, c) \/ Dead(c)
      \/ /\ net["app"] \in Nets /\ PartOf(c, net["app"])
         /\ Shows(c, net["app"]) \/ faults > 0
  BY DoneConfig DEF Inv
<1>2. busy = Ready => c = cells
  BY ReadyDone, TypeFacts DEF Inv
<1>3. IsBlank(c) \/ Same(cells, c) \/ Dead(c) => Reads(c) \in {Reads(cells), NoNet}
  BY ReadsFacts, PartReads
<1>4. ASSUME net["app"] \in Nets, PartOf(c, net["app"]), Shows(c, net["app"]) \/ faults > 0
      PROVE  Reads(c) \in {NoNet, net["app"]} \/ (Reads(c) = "part" /\ faults > 0)
  <2>1. Reads(c) \in {NoNet, net["app"], "part"}
    BY <1>4, PartReads
  <2>2. Shows(c, net["app"]) => Reads(c) = net["app"]
    BY <1>4, ReadsFacts
  <2>3. QED
    BY <1>4, <2>1, <2>2
<1>5. QED
  BY <1>1, <1>2, <1>3, <1>4

(* A command in progress is that of a save in progress. *)
LEMMA BusySaves ==
  ASSUME Inv, busy # Ready
  PROVE  \E w \in Writers : net[w] # None
<1>1. PICK w \in Writers : Sent(w)
  BY DEF Inv, Chip, Writers
<1>2. pc[w] \in {"ewait", "wait"} /\ WriterInv(w)
  BY <1>1 DEF Sent, Inv, Writer
<1>3. QED
  BY <1>2 DEF WriterInv, Resting

StoreVars == <<Reads(cells), net>>

(* A step of the store, or one that tears a configuration. *)
StoreAction == \/ Store!StoreNext
               \/ faults > 0 /\ Store!Tear
               \/ busy # Ready /\ Store!TornCrash
               \/ "cut_erase" \in mishaps

(* Every step of flash and writers is one of the abstract store, tears the *)
(* configuration being saved, or changes nothing a boot can see.           *)
LEMMA StoreStep ==
  ASSUME Inv, [Next]_vars
  PROVE  [StoreAction]_StoreVars
<1>s. SUFFICES ASSUME "cut_erase" \notin mishaps PROVE [StoreAction]_StoreVars
  BY DEF StoreAction
<1> USE DEF Store!StoreNext, StoreAction, StoreVars
<1>a. TypeOK /\ Writer /\ Chip /\ Sector /\ "app" \in Writers /\ "reset" \in Writers
  BY DEF Inv, Writers
<1>b. ASSUME UNCHANGED <<cells, net>> PROVE UNCHANGED StoreVars
  BY <1>b
<1>1. ASSUME NEW n \in Nets, AppSave(n) PROVE Store!StoreNext
  <2>1. net["app"] = None /\ net' = [net EXCEPT !["app"] = n] /\ UNCHANGED cells
    BY <1>1, <1>a DEF AppSave, At, chip, Writer, WriterInv, Resting
  <2>2. Store!Begin("app", n)
    BY <2>1 DEF Store!Begin
  <2>3. QED
    BY <1>a, <2>2
<1>2. CASE ResetSave
  <2>1. net["reset"] = None /\ net' = [net EXCEPT !["reset"] = NoNet] /\ UNCHANGED cells
    BY <1>2, <1>a DEF ResetSave, At, chip, Writer, WriterInv, Resting
  <2>2. Store!Begin("reset", NoNet)
    BY <2>1 DEF Store!Begin
  <2>3. QED
    BY <1>a, <2>2
<1>3. ASSUME NEW w \in Writers,
             \/ EraseEnable(w) \/ EraseCommand(w) \/ EraseWait(w) \/ TryPage(w)
             \/ ProgramCommand(w) \/ ProgramWait(w) \/ ReadBack(w) \/ Compare(w) \/ ReadSector(w)
      PROVE  UNCHANGED StoreVars
  <2>1. UNCHANGED <<cells, net>>
    BY <1>3 DEF EraseEnable, EraseCommand, EraseWait, TryPage, ProgramCommand, ProgramWait,
                ReadBack, Compare, ReadSector, chip
  <2>2. QED
    BY <1>b, <2>1
<1>4. ASSUME NEW w \in Writers, PageDone(w) PROVE [StoreAction]_StoreVars
  <2>1. net[w] # None
    BY <1>4, <1>a DEF PageDone, At, Writer, WriterInv, Resting
  <2>2. UNCHANGED cells /\ (net' = [net EXCEPT ![w] = None] \/ UNCHANGED net)
    BY <1>4, <1>a, PageDoneFacts
  <2>3. CASE net' = [net EXCEPT ![w] = None]
    <3>1. Store!End(w)
      BY <2>1, <2>2, <2>3 DEF Store!End
    <3>2. QED
      BY <3>1
  <2>4. CASE UNCHANGED net
    BY <1>b, <2>2, <2>4
  <2>5. QED
    BY <2>2, <2>3, <2>4
<1>c. busy # Ready => Store!Pending # {}
  BY BusySaves DEF Store!Pending
<1>d. net["app"] \in Nets => net["app"] \in Store!Pending \cap Nets
  <2>1. net["app"] \in Nets => net["app"] # None
    BY NetsAssumption
  <2>2. net["app"] # None => net["app"] \in Store!Pending
    BY <1>a DEF Store!Pending
  <2>3. QED
    BY <2>1, <2>2
<1>5. CASE ChipDone
  <2>1. cells' = Done(cells, busy) /\ busy # Ready /\ UNCHANGED net
    BY <1>5 DEF ChipDone
  <2>2. \/ Reads(cells') \in {Reads(cells), NoNet}
        \/ net["app"] \in Nets /\ Reads(cells') = net["app"]
        \/ net["app"] \in Nets /\ Reads(cells') = "part" /\ faults > 0
    BY <1>s, <2>1, DoneReads
  <2>3. CASE Reads(cells') = Reads(cells)
    BY <2>1, <2>3
  <2>4. CASE Reads(cells') = NoNet
    <3>1. Store!Lose
      BY <1>c, <2>1, <2>4 DEF Store!Lose
    <3>2. QED
      BY <3>1
  <2>5. CASE net["app"] \in Nets /\ Reads(cells') = net["app"]
    <3>1. Store!Commit("app")
      BY <2>1, <2>5, NetsAssumption DEF Store!Commit
    <3>2. QED
      BY <1>a, <3>1
  <2>6. CASE net["app"] \in Nets /\ Reads(cells') = "part" /\ faults > 0
    <3>1. Store!Tear
      BY <1>d, <2>1, <2>6 DEF Store!Tear
    <3>2. QED
      BY <2>6, <3>1
  <2>7. QED
    BY <2>2, <2>3, <2>4, <2>5, <2>6
<1>6. ASSUME net' = [w \in Writers |-> None],
             \/ Reads(cells') = Reads(cells)
             \/ busy # Ready /\ Reads(cells') \in {NoNet, "part", "mixed"}
             \/ busy # Ready /\ net["app"] \in Nets /\ Reads(cells') = net["app"]
      PROVE  StoreAction
  <2>1. CASE \/ Reads(cells') = Reads(cells)
             \/ busy # Ready /\ Reads(cells') = NoNet
             \/ busy # Ready /\ net["app"] \in Nets /\ Reads(cells') = net["app"]
    <3>1. Store!Crash
      BY <1>6, <1>c, <1>d, <2>1 DEF Store!Crash
    <3>2. QED
      BY <3>1
  <2>2. CASE busy # Ready /\ Reads(cells') \in {"part", "mixed"}
    <3>1. Store!TornCrash
      BY <1>6, <1>c, <2>2 DEF Store!TornCrash
    <3>2. QED
      BY <2>2, <3>1
  <2>3. QED
    BY <1>6, <2>1, <2>2
<1>7. CASE ChipReset
  <2>1. net' = [w \in Writers |-> None] /\ cells' = Done(cells, busy)
    BY <1>7 DEF ChipReset, Restart
  <2>2. /\ busy = Ready => cells' = cells
        /\ \/ Reads(cells') \in {Reads(cells), NoNet}
           \/ net["app"] \in Nets /\ Reads(cells') = net["app"]
           \/ Reads(cells') = "part"
    BY <1>s, <2>1, DoneReads
  <2>3. busy = Ready => Reads(cells') = Reads(cells)
    BY <2>2
  <2>4. QED
    BY <1>6, <2>1, <2>2, <2>3
<1>8. CASE PowerLoss
  <2>1. net' = [w \in Writers |-> None]
    BY <1>8 DEF PowerLoss, Restart
  <2>0. PICK begun \in SUBSET Touched(busy) : \E ended \in SUBSET begun :
          /\ busy.op = "erase" => begun = Cells \/ ended = {}
          /\ cells' = Torn(cells, busy, begun, ended)
    BY <1>8 DEF PowerLoss
  <2>2. PICK ended \in SUBSET begun :
          /\ busy.op = "erase" => begun = Cells \/ ended = {}
          /\ cells' = Torn(cells, busy, begun, ended)
    BY <2>0
  <2>3. \/ Hit(cells, cells') \/ Dead(cells') \/ cells'["flag"] = Erased
        \/ net["app"] \in Nets /\ PartOf(cells', net["app"])
    BY <1>a, <1>s, <2>2, TornConfig
  <2>4. \/ Reads(cells') \in {Reads(cells), NoNet, "mixed", "part"}
        \/ net["app"] \in Nets /\ Reads(cells') = net["app"]
    BY <2>3, PartReads
  <2>5. busy = Ready => Reads(cells') = Reads(cells)
    BY <1>a, <1>8, ReadyTorn
  <2>6. QED
    BY <1>6, <2>1, <2>4, <2>5
<1>9. CASE UNCHANGED vars
  BY <1>9, <1>b DEF vars, chip
<1>10. QED
  BY <1>1, <1>2, <1>3, <1>4, <1>5, <1>7, <1>8, <1>9 DEF Next, Step

(* The first boot finds one configuration or none, and no save under way.  *)
LEMMA StoreStart == Init => Store!StoreInit
<1> SUFFICES ASSUME Init PROVE Store!StoreInit
  OBVIOUS
<1>1. PICK n \in Nets \cup {NoNet}, blank \in BOOLEAN :
        cells = [x \in Cells |-> IF x = "rest" THEN RestData
                                 ELSE IF blank THEN Erased ELSE Stored(n)[x]]
  BY DEF Init
<1>2. IsBlank(cells) \/ Shows(cells, n)
  BY <1>1, CellFacts DEF IsBlank, Shows
<1>3. Reads(cells) \in Nets \cup {NoNet}
  BY <1>2, ReadsFacts
<1>4. QED
  BY <1>3 DEF Init, Store!StoreInit

(* However the saves of the application and of the reset button nest, and  *)
(* whichever commands the chip drops, a boot finds the configuration of    *)
(* some save or none.  It finds a part of a network only when a transfer   *)
(* was cut short or power was lost within a command, and credentials of no *)
(* network only when power was lost within a command or an erase command   *)
(* was cut (nuagent_drv.c:84-101; no lock, no checksum).                   *)
THEOREM FlashImplementsStore == Spec => ImplementsStore
<1>1. Inv /\ [Next]_vars => [StoreAction]_StoreVars
  BY StoreStep
<1>2. QED
  BY <1>1, StoreStart, FlashInv, PTL DEF Spec, ImplementsStore, StoreAction, StoreVars

-----------------------------------------------------------------------------
(* What is verified. *)

(* While only one writer is at work the chip does nothing but its          *)
(* commands.                                                               *)
LEMMA AloneChip ==
  ASSUME Chip, NEW w \in Writers, Alone(w), pc[w] \in Writing
  PROVE  busy = Ready \/ Sent(w)
<1>1. CASE w = "app"
  BY <1>1 DEF Alone, Chip, Sent
<1>2. CASE w = "reset"
  BY <1>2 DEF Alone, Chip
<1>3. QED
  BY <1>1, <1>2 DEF Writers

(* A step of one writer leaves the other where it is. *)
LEMMA OtherStays ==
  ASSUME TypeOK, Writer, NEW v \in Writers, Step(v)
  PROVE  /\ Runs(v) /\ pc[v] \in Writing \cup {"read"}
         /\ v = "app" \/ pc'[v] # "idle"
         /\ \A w \in Writers : w # v => pc'[w] = pc[w]
<1>1. Runs(v) /\ pc[v] \in Writing \cup {"read"}
  BY DEF Step, ReadSector, EraseEnable, EraseCommand, EraseWait, TryPage, ProgramCommand,
         ProgramWait, ReadBack, Compare, PageDone, At, Writing, Programming
<1>2. net[v] \in Nets \cup {NoNet}
  BY <1>1, WriterFacts DEF Writing, Programming, Resting
<1>3. CASE ReadSector(v)
  BY <1>1, <1>2, <1>3, ReadSectorFacts
<1>4. CASE PageDone(v)
  BY <1>1, <1>4, PageDoneFacts DEF Writers
<1>5. CASE ~ ReadSector(v) /\ ~ PageDone(v)
  <2>1. PICK l \in Writing : Goes(v, l)
    BY <1>5 DEF Step, EraseEnable, EraseCommand, EraseWait, TryPage, ProgramCommand,
                ProgramWait, ReadBack, Compare, Writing, Programming
  <2>2. pc'[v] = l /\ \A w \in Writers : w # v => pc'[w] = pc[w]
    BY <2>1, Moves DEF Labels
  <2>3. QED
    BY <1>1, <2>2 DEF Writing, Programming
<1>6. QED
  BY <1>3, <1>4, <1>5

(* A writer's second page leaves the configuration alone. *)
LEMMA SecondPageDone ==
  ASSUME Inv, NEW w \in Writers, Sent(w), page[w] = 2, NEW c, c = Done(cells, busy),
         Shows(cells, net[w])
  PROVE  Shows(c, net[w])
<1>1. TypeOK /\ WriterInv(w) /\ cells \in Contents
  BY TypeFacts DEF Inv, Writer
<1>2. pc[w] = "wait"
  BY <1>1, SentFacts DEF WriterInv
<1>3. PICK d \in Contents : busy = Program(page[w], d)
  BY <1>1, <1>2, SentFacts
<1>4. page[w] \in 1 .. 2
  BY <1>1, TypeFacts
<1>5. \A x \in ConfigCells : c[x] = cells[x]
  BY <1>1, <1>3, <1>4, ProgramDone
<1>6. QED
  BY <1>5 DEF Shows

(* Every step keeps in the sector what an undisturbed writer has read      *)
(* back and compared.                                                      *)
LEMMA VerifiedStep ==
  ASSUME Inv, NEW w \in Writers, VerifiedInv(w), [Next]_vars
  PROVE  VerifiedInv(w)'
<1> DEFINE Good == /\ pc'[w] = "compare" => ReadBackIs(w)'
                   /\ (Failure(w) \notin mishaps' /\ pc'[w] \in Writing
                        /\ (page'[w] = 2 \/ Verified(w)')) => Shows(cells', net'[w])
<1> SUFFICES ASSUME Alone(w)' PROVE Good
  BY DEF VerifiedInv, Failure, Shows
<1>a. TypeOK /\ Writer /\ Chip /\ "app" \in Writers /\ "reset" \in Writers /\ "app" # "reset"
  BY DEF Inv, Writers
<1>b. ASSUME pc'[w] \notin Writing PROVE Good
  BY <1>b DEF Writing, Programming
<1>c. ASSUME Alone(w), UNCHANGED cells, net'[w] = net[w], page'[w] = page[w],
             mishaps \subseteq mishaps', pc[w] \in Writing, pc'[w] # "compare", ~ Verified(w)'
      PROVE  Good
  BY <1>c DEF VerifiedInv
<1>1. ASSUME NEW n \in Nets, AppSave(n) PROVE Good
  <2>1. pc'["app"] = "read" /\ pc'["reset"] = pc["reset"] /\ Runs("app")
    BY <1>1, <1>a, TypeFacts DEF AppSave, Goes, At
  <2>2. pc'[w] \notin Writing
    BY <1>a, <2>1 DEF Writers, Runs, Writing, Programming
  <2>3. QED
    BY <1>b, <2>2
<1>2. CASE ResetSave
  <2>1. pc'["reset"] = "read"
    BY <1>2, <1>a, TypeFacts DEF ResetSave, Goes
  <2>2. CASE w = "app"
    BY <2>1, <2>2 DEF Alone
  <2>3. CASE w = "reset"
    BY <1>b, <2>1, <2>3 DEF Writing, Programming
  <2>4. QED
    BY <2>2, <2>3 DEF Writers
<1>3. ASSUME NEW v \in Writers, v # w, Step(v) PROVE Good
  <2>1. /\ Runs(v) /\ pc[v] \in Writing \cup {"read"}
        /\ (v = "app" \/ pc'[v] # "idle") /\ pc'[w] = pc[w]
    BY <1>3, <1>a, OtherStays
  <2>2. CASE v = "app"
    <3>1. pc["reset"] \in {"idle", "saved"} /\ w = "reset"
      BY <1>3, <2>1, <2>2 DEF Runs, Writers
    <3>2. QED
      BY <1>b, <2>1, <3>1 DEF Writing, Programming
  <2>3. CASE v = "reset"
    BY <1>3, <2>1, <2>3 DEF Alone, Writers
  <2>4. QED
    BY <2>2, <2>3 DEF Writers
<1>4. CASE ReadSector(w)
  <2>1. net[w] \in Nets \cup {NoNet}
    BY <1>4, <1>a, WriterFacts DEF ReadSector, At, Resting
  <2>2. pc'[w] \in {"try", "ewren"} /\ page' = [page EXCEPT ![w] = 1]
    BY <1>4, <1>a, <2>1, ReadSectorFacts
  <2>3. page'[w] = 1
    BY <1>a, <2>2, TypeFacts
  <2>4. QED
    BY <2>2, <2>3 DEF Verified
<1>5. ASSUME NEW l \in Writing, Goes(w, l), pc[w] \in Writing, mishaps \subseteq mishaps'
      PROVE  Alone(w) /\ pc'[w] = l
  <2>1. pc'[w] = l /\ \A v \in Writers : v # w => pc'[v] = pc[v]
    BY <1>5, <1>a, Moves DEF Labels
  <2>2. Alone(w)
    BY <1>a, <1>5, <2>1 DEF Alone
  <2>3. QED
    BY <2>1, <2>2
<1>6. CASE EraseEnable(w) \/ EraseCommand(w) \/ EraseWait(w) \/ ProgramCommand(w) \/ ProgramWait(w)
  <2>1. pc[w] \in Writing /\ UNCHANGED <<cells, net, page>>
    BY <1>6 DEF EraseEnable, EraseCommand, EraseWait, ProgramCommand, ProgramWait, At, chip,
                Writing, Programming
  <2>0. mishaps \subseteq mishaps'
    BY <1>6, <1>a, CommandCounts DEF EraseEnable, EraseWait, ProgramWait
  <2>2. PICK l \in Writing : Goes(w, l) /\ l \notin {"compare", "page"}
    BY <1>6 DEF EraseEnable, EraseCommand, EraseWait, ProgramCommand, ProgramWait,
                Writing, Programming
  <2>3. Alone(w) /\ pc'[w] = l
    BY <1>5, <2>0, <2>1, <2>2
  <2>4. QED
    BY <1>c, <2>0, <2>1, <2>2, <2>3 DEF Verified
<1>7. CASE TryPage(w)
  <2>1. pc[w] = "try" /\ UNCHANGED <<cells, net, page, mishaps>>
    BY <1>7 DEF TryPage, At
  <2>2. PICK l \in {"page", "command"} : Goes(w, l) /\ (l = "page" => j[w] = 0)
    BY <1>7 DEF TryPage
  <2>3. Alone(w) /\ pc'[w] = l
    BY <1>5, <2>1, <2>2 DEF Writing, Programming
  <2>4. j' = [j EXCEPT ![w] = (j[w] + 65535) % 65536] /\ j[w] \in 0 .. TRIES
    BY <1>7, <1>a, <2>1, WriterFacts DEF TryPage
  <2>5. j'[w] = (j[w] + 65535) % 65536
    BY <1>a, <2>4, TypeFacts
  <2>6. l = "page" => j'[w] = 65535
    BY <2>2, <2>4, <2>5, Decrement
  <2>7. ~ Verified(w)'
    BY <2>2, <2>3, <2>6 DEF Verified
  <2>8. pc[w] \in Writing /\ pc'[w] # "compare"
    BY <2>1, <2>2, <2>3 DEF Writing, Programming
  <2>9. QED
    BY <1>c, <2>1, <2>3, <2>7, <2>8
<1>8. CASE ReadBack(w)
  <2>1. /\ pc[w] = "readback" /\ UNCHANGED <<cells, busy, net, page, mishaps>>
        /\ PageBuf' \in ReadOf(PageCells[page[w]])
    BY <1>8 DEF ReadBack, At, chip
  <2>2. Alone(w) /\ pc'[w] = "compare"
    BY <1>5, <1>8, <2>1 DEF ReadBack, Writing, Programming
  <2>3. busy = Ready
    BY <1>a, <2>1, <2>2, AloneChip DEF Sent, Writing, Programming
  <2>4. PageCells[page[w]] \subseteq Cells
    BY <1>a, TypeFacts, CellFacts
  <2>5. PageBuf' = [x \in PageCells[page[w]] |-> cells[x]]
    BY <1>a, <2>1, <2>3, <2>4, ReadFacts
  <2>6. ReadBackIs(w)'
    BY <2>1, <2>5 DEF ReadBackIs
  <2>7. (Failure(w) \notin mishaps' /\ page'[w] = 2) => Shows(cells', net'[w])
    BY <2>1, <2>2 DEF VerifiedInv, Writing, Programming
  <2>8. QED
    BY <2>2, <2>6, <2>7 DEF Verified
<1>9. CASE Compare(w)
  <2>1. pc[w] = "compare" /\ UNCHANGED <<cells, image, net, page, mishaps>>
    BY <1>9 DEF Compare, At, chip
  <2>2. PICK l \in {"page", "try"} :
          /\ Goes(w, l)
          /\ l = "page" => PageBuf = [x \in PageCells[page[w]] |-> image[w][x]]
    BY <1>9 DEF Compare
  <2>3. Alone(w) /\ pc'[w] = l
    BY <1>5, <2>1, <2>2 DEF Writing, Programming
  <2>4. pc[w] \in Writing
    BY <2>1 DEF Writing, Programming
  <2>5. ASSUME Failure(w) \notin mishaps', page'[w] = 2 PROVE Shows(cells', net'[w])
    BY <2>1, <2>3, <2>4, <2>5 DEF VerifiedInv
  <2>6. ASSUME l = "page", page[w] = 1 PROVE Shows(cells', net'[w])
    <3>1. PageBuf = [x \in ConfigCells |-> cells[x]]
      BY <2>1, <2>3, <2>6, CellFacts DEF VerifiedInv, ReadBackIs
    <3>2. PageBuf = [x \in ConfigCells |-> image[w][x]]
      BY <2>2, <2>6, CellFacts
    <3>3. \A x \in ConfigCells : cells[x] = image[w][x]
      BY <3>1, <3>2
    <3>4. Shows(image[w], net[w])
      BY <1>a, <2>4 DEF Writer, WriterInv
    <3>5. QED
      BY <2>1, <3>3, <3>4 DEF Shows
  <2>7. page[w] = 1 \/ page[w] = 2
    BY <1>a, TypeFacts
  <2>8. QED
    BY <2>1, <2>2, <2>3, <2>5, <2>6, <2>7 DEF Verified
<1>10. CASE PageDone(w)
  <2>1. pc[w] = "page" /\ pc[w] \in Writing
    BY <1>10 DEF PageDone, At, Writing, Programming
  <2>2. /\ \A v \in Writers : v # w => pc'[v] = pc[v]
        /\ mishaps \subseteq mishaps'
        /\ UNCHANGED cells
    BY <1>10, <1>a, PageDoneFacts
  <2>3. \/ pc'[w] \in {"saved", "idle"}
        \/ pc'[w] = "try" /\ page[w] = 1 /\ UNCHANGED net
    BY <1>10, <1>a, PageDoneFacts
  <2>4. CASE pc'[w] \in {"saved", "idle"}
    BY <1>b, <2>4 DEF Writing, Programming
  <2>5. CASE pc'[w] = "try" /\ page[w] = 1 /\ UNCHANGED net
    <3>1. Alone(w)
      BY <1>a, <2>2, <2>5 DEF Alone
    <3>2. j[w] = 65535 => (IF w = "app" THEN "no_config" ELSE "no_reset") \in mishaps'
      BY <1>10, <1>a, <2>5, PageDoneFacts
    <3>3. Failure(w) \notin mishaps' => Verified(w) /\ Failure(w) \notin mishaps
      BY <2>1, <2>2, <3>2 DEF Verified, Failure
    <3>4. QED
      BY <2>1, <2>2, <2>5, <3>1, <3>3 DEF VerifiedInv
  <2>6. QED
    BY <2>3, <2>4, <2>5
<1>11. CASE ChipDone
  <2>1. /\ cells' = Done(cells, busy) /\ busy # Ready
        /\ UNCHANGED <<PageBuf, pc, net, page, j, mishaps>>
    BY <1>11 DEF ChipDone
  <2>2. Alone(w)
    BY <2>1 DEF Alone
  <2>3. CASE pc[w] \notin Writing
    BY <1>b, <2>1, <2>3
  <2>4. CASE pc[w] \in Writing
    <3>1. Sent(w)
      BY <1>a, <2>1, <2>2, <2>4, AloneChip
    <3>2. pc[w] # "compare" /\ ~ Verified(w)
      BY <3>1 DEF Sent, Verified
    <3>3. ASSUME Failure(w) \notin mishaps, page[w] = 2 PROVE Shows(cells', net[w])
      <4>1. Shows(cells, net[w])
        BY <2>2, <2>4, <3>3 DEF VerifiedInv
      <4>2. QED
        BY <2>1, <3>1, <3>3, <4>1, SecondPageDone
    <3>4. QED
      BY <2>1, <3>2, <3>3 DEF Verified
  <2>5. QED
    BY <2>3, <2>4
<1>12. CASE PowerLoss \/ ChipReset
  <2>1. pc'[w] = "idle"
    BY <1>12 DEF PowerLoss, ChipReset, Restart
  <2>2. QED
    BY <1>b, <2>1 DEF Writing, Programming
<1>13. CASE UNCHANGED vars
  BY <1>13 DEF vars, chip, VerifiedInv, Alone, Verified, ReadBackIs
<1>14. QED
  BY <1>1, <1>2, <1>3, <1>4, <1>6, <1>7, <1>8, <1>9, <1>10, <1>11, <1>12, <1>13 DEF Next, Step

(* What an undisturbed writer has verified is in the sector.               *)
LEMMA FlashVerified == Spec => [](\A w \in Writers : VerifiedInv(w))
<1>1. Init => \A w \in Writers : VerifiedInv(w)
  BY DEF Init, VerifiedInv, Writing, Programming
<1>2. Inv /\ (\A w \in Writers : VerifiedInv(w)) /\ [Next]_vars => (\A w \in Writers : VerifiedInv(w))'
  BY VerifiedStep
<1>3. QED
  BY <1>1, <1>2, FlashInv, PTL DEF Spec

(* A save that the reset button does not interrupt is what the next boot   *)
(* finds, whatever transfers were cut in it and however the sector was     *)
(* torn before, unless its first page failed at every attempt              *)
(* (nuagent_drv.c:84-101, BspDemo.c:799-809).                              *)
THEOREM FlashSaveStores == Spec => SaveStores
<1> DEFINE P(n) == PageDone("app") /\ net["app"] = n /\ pc'["app"] = "idle"
                   /\ pc["reset"] = "idle" /\ "no_config" \notin mishaps'
           Stores == \A n \in Nets : P(n) => Reads(cells') = n
<1>1. ASSUME Inv, \A w \in Writers : VerifiedInv(w), [Next]_vars PROVE Stores
  <2>1. SUFFICES ASSUME NEW n \in Nets, P(n) PROVE Reads(cells') = n
    OBVIOUS
  <2>2. TypeOK /\ "app" \in Writers
    BY <1>1 DEF Inv, Writers
  <2>3. pc["app"] = "page"
    BY <2>1 DEF PageDone, At
  <2>4. /\ mishaps \subseteq mishaps' /\ UNCHANGED cells
        /\ j["app"] = 65535 /\ page["app"] = 1 => "no_config" \in mishaps'
    BY <2>1, <2>2, PageDoneFacts
  <2>5. page["app"] = 1 \/ page["app"] = 2
    BY <2>2, TypeFacts
  <2>6. /\ Alone("app") /\ Failure("app") \notin mishaps
        /\ page["app"] = 2 \/ Verified("app")
    BY <2>1, <2>3, <2>4, <2>5 DEF Alone, Verified, Failure
  <2>7. Shows(cells, n)
    BY <1>1, <2>1, <2>2, <2>3, <2>6 DEF VerifiedInv, Writing, Programming
  <2>8. QED
    BY <2>1, <2>4, <2>7, ReadsFacts
<1>2. QED
  BY <1>1, FlashInv, FlashVerified, PTL DEF Spec, SaveStores

-----------------------------------------------------------------------------
(* The reset button. *)

(* The reset thread's commands find the write enable they sent and use it  *)
(* up.                                                                     *)
LEMMA EnableStep ==
  ASSUME Inv, EnableInv, [Next]_vars
  PROVE  EnableInv'
<1>a. TypeOK /\ Writer /\ Chip /\ "app" \in Writers /\ "reset" \in Writers /\ "app" # "reset"
  BY DEF Inv, Writers
<1>b. ASSUME pc'["reset"] \notin Writing
      PROVE  EnableInv'
  BY <1>b DEF EnableInv, Writing, Programming
<1>c. ASSUME "blind" \notin mishaps, pc["reset"] \in Writing, pc["reset"] \notin {"ewait", "wait"}
      PROVE  busy = Ready
  BY <1>c DEF Inv, Chip, Sent
<1>1. ASSUME NEW n \in Nets, AppSave(n) PROVE EnableInv'
  <2>1. pc'["reset"] = pc["reset"] /\ pc["reset"] \in {"idle", "saved"}
    BY <1>1, <1>a, TypeFacts DEF AppSave, Goes, At, Runs
  <2>2. QED
    BY <1>b, <2>1 DEF Writing, Programming
<1>2. CASE ResetSave
  <2>1. pc'["reset"] = "read"
    BY <1>2, <1>a, TypeFacts DEF ResetSave, Goes
  <2>2. QED
    BY <1>b, <2>1 DEF Writing, Programming
<1>3. CASE Step("app")
  <2>1. pc["reset"] \in {"idle", "saved"} /\ pc'["reset"] = pc["reset"]
    BY <1>3, <1>a, OtherStays DEF Runs
  <2>2. QED
    BY <1>b, <2>1 DEF Writing, Programming
<1>4. CASE ReadSector("reset")
  <2>1. net["reset"] \in Nets \cup {NoNet}
    BY <1>4, <1>a, WriterFacts DEF ReadSector, At, Resting
  <2>2. pc'["reset"] \in {"try", "ewren"} /\ j' = [j EXCEPT !["reset"] = TRIES]
    BY <1>4, <1>a, <2>1, ReadSectorFacts
  <2>3. j'["reset"] = TRIES
    BY <1>a, <2>2, TypeFacts
  <2>4. QED
    BY <2>2, <2>3 DEF EnableInv
<1>d. ASSUME NEW l \in Labels, Goes("reset", l) PROVE pc'["reset"] = l
  BY <1>a, <1>d, Moves
<1> USE DEF Labels, Writing, Programming
<1>5. CASE EraseEnable("reset") \/ EraseCommand("reset")
  <2>1. PICK l \in {"erase", "ewait"} : Goes("reset", l)
    BY <1>5 DEF EraseEnable, EraseCommand
  <2>2. pc'["reset"] = l
    BY <1>d, <2>1
  <2>3. UNCHANGED j /\ mishaps \subseteq mishaps' /\ pc["reset"] \in {"ewren", "erase"}
    BY <1>5, <1>a, CommandCounts DEF EraseEnable, EraseCommand, At
  <2>4. QED
    BY <2>1, <2>2, <2>3 DEF EnableInv
<1>6. CASE EraseWait("reset")
  <2>1. pc'["reset"] = "try" /\ pc["reset"] = "ewait" /\ UNCHANGED <<j, mishaps>>
    BY <1>6, <1>d DEF EraseWait, At
  <2>2. QED
    BY <2>1 DEF EnableInv
<1>7. CASE TryPage("reset")
  <2>1. pc["reset"] = "try" /\ UNCHANGED <<busy, mishaps>>
    BY <1>7 DEF TryPage, At
  <2>2. CASE j["reset"] = 0
    <3>1. pc'["reset"] = "page" /\ UNCHANGED wel
      BY <1>7, <1>d, <2>2 DEF TryPage
    <3>2. TRIES # 0
      BY BoundsAssumption
    <3>3. QED
      BY <2>1, <2>2, <3>1, <3>2 DEF EnableInv
  <2>3. CASE j["reset"] # 0
    <3>1. pc'["reset"] = "command" /\ WriteEnable
      BY <1>7, <1>d, <2>3 DEF TryPage
    <3>2. "blind" \notin mishaps => wel'
      BY <1>c, <2>1, <3>1 DEF WriteEnable
    <3>3. QED
      BY <2>1, <3>1, <3>2 DEF EnableInv
  <2>4. QED
    BY <2>2, <2>3
<1>8. CASE ProgramCommand("reset")
  <2>1. pc["reset"] = "command" /\ pc'["reset"] = "wait" /\ mishaps \subseteq mishaps'
    BY <1>8, <1>a, <1>d, CommandCounts DEF ProgramCommand, At
  <2>2. ASSUME mishaps' \cap {"blind", "cut_program"} = {} PROVE busy' # Ready
    <3>0. mishaps \cap {"blind", "cut_program"} = {} /\ "blind" \notin mishaps
      BY <2>1, <2>2
    <3>1. Accepts
      BY <1>c, <2>1, <3>0 DEF EnableInv, Accepts
    <3>2. \E d : busy' = [op |-> "program", page |-> page["reset"], data |-> d]
      BY <1>8, <2>2, <3>1 DEF ProgramCommand, Cut
    <3>3. QED
      BY <3>2 DEF Ready
  <2>3. QED
    BY <2>1, <2>2 DEF EnableInv
<1>9. CASE ProgramWait("reset")
  <2>1. /\ pc["reset"] = "wait" /\ pc'["reset"] = "readback" /\ busy = Ready
        /\ UNCHANGED <<wel, mishaps>>
    BY <1>9, <1>d DEF ProgramWait, At, chip
  <2>2. QED
    BY <2>1 DEF EnableInv
<1>10. CASE ReadBack("reset") \/ Compare("reset")
  <2>1. pc["reset"] \in {"readback", "compare"} /\ UNCHANGED <<wel, mishaps>>
    BY <1>10 DEF ReadBack, Compare, At, chip
  <2>2. PICK l \in {"compare", "page", "try"} : Goes("reset", l)
    BY <1>10 DEF ReadBack, Compare
  <2>3. pc'["reset"] = l
    BY <1>d, <2>2
  <2>4. QED
    BY <2>1, <2>2, <2>3 DEF EnableInv
<1>11. CASE PageDone("reset")
  <2>1. pc["reset"] = "page"
    BY <1>11 DEF PageDone, At
  <2>2. pc'["reset"] \in {"saved", "try"} /\ mishaps \subseteq mishaps' /\ UNCHANGED wel
    BY <1>11, <1>a, PageDoneFacts
  <2>3. QED
    BY <2>1, <2>2 DEF EnableInv
<1>12. CASE ChipDone
  <2>1. busy # Ready /\ wel' = FALSE /\ UNCHANGED <<pc, j, mishaps>>
    BY <1>12 DEF ChipDone
  <2>2. "blind" \notin mishaps => pc["reset"] # "command"
    BY <1>c, <2>1
  <2>3. QED
    BY <2>1, <2>2 DEF EnableInv
<1>13. CASE PowerLoss \/ ChipReset
  <2>1. pc'["reset"] = "idle"
    BY <1>13, <1>a DEF PowerLoss, ChipReset, Restart
  <2>2. QED
    BY <1>b, <2>1
<1>14. CASE UNCHANGED vars
  BY <1>14 DEF vars, chip, EnableInv
<1>15. QED
  BY <1>1, <1>2, <1>3, <1>4, <1>5, <1>6, <1>7, <1>8, <1>9, <1>10, <1>11, <1>12, <1>13, <1>14
  DEF Next, Step, Writers

(* Zeros stay zeros under every command but an erase. *)
LEMMA NoneStays ==
  ASSUME Inv, Shows(cells, NoNet), busy # [op |-> "erase"], NEW c, c = Done(cells, busy)
  PROVE  Shows(c, NoNet)
<1>1. TypeOK /\ cells \in Contents
  BY TypeFacts DEF Inv
<1>2. CASE busy = Ready
  BY <1>1, <1>2, ReadyDone
<1>3. ASSUME NEW w \in Writers, Sent(w) PROVE Shows(c, NoNet)
  <2>1. PICK d \in Contents : busy = Program(page[w], d)
    BY <1>1, <1>3, SentFacts
  <2>2. page[w] \in 1 .. 2
    BY <1>1, TypeFacts
  <2>3. \A x \in ConfigCells : c[x] = cells[x] \/ c[x] = cells[x] \cap d[x]
    <3>1. /\ page[w] = 1 => \A x \in ConfigCells : c[x] = cells[x] \cap d[x]
          /\ page[w] = 2 => \A x \in ConfigCells : c[x] = cells[x]
      BY <1>1, <2>1, <2>2, ProgramDone
    <3>2. QED
      BY <2>2, <3>1
  <2>4. QED
    BY <2>3, StoredFacts DEF Shows, Zero
<1>4. QED
  BY <1>2, <1>3 DEF Inv, Chip, Writers

(* The empty configuration stays from the button's save to the reset.      *)
LEMMA SavedStep ==
  ASSUME Inv, VerifiedInv("reset"), EnableInv, ResetSaved, [Next]_vars
  PROVE  ResetSaved'
<1>a. TypeOK /\ Writer /\ Chip /\ "app" \in Writers /\ "reset" \in Writers /\ "app" # "reset"
  BY DEF Inv, Writers
<1> DEFINE Held == ~ undoable /\ mishaps \cap {"blind", "no_reset", "cut_program"} = {}
           Kept == /\ Shows(cells, NoNet) /\ busy # [op |-> "erase"]
                   /\ pc["app"] = "erase" => ~ wel
<1>b. ASSUME pc["reset"] = "saved", Held PROVE Kept /\ pc["app"] \notin {"read", "ewren"}
  BY <1>b DEF ResetSaved
<1>1. ASSUME NEW n \in Nets, AppSave(n) PROVE ResetSaved'
  <2>1. pc'["reset"] = pc["reset"] /\ pc["reset"] \in {"idle", "saved"}
    BY <1>1, <1>a, TypeFacts DEF AppSave, Goes, At, Runs
  <2>2. pc["reset"] = "saved" => undoable'
    BY <1>1 DEF AppSave
  <2>3. QED
    BY <2>1, <2>2 DEF ResetSaved
<1>2. CASE ResetSave
  <2>1. pc'["reset"] = "read" /\ pc'["app"] = pc["app"]
    BY <1>2, <1>a, TypeFacts DEF ResetSave, Goes
  <2>2. ~ undoable' => pc["app"] \notin {"read", "ewren"}
    BY <1>2 DEF ResetSave
  <2>3. QED
    BY <2>1, <2>2 DEF ResetSaved
<1>3. CASE Step("reset") /\ ~ PageDone("reset")
  <2>1. /\ pc["reset"] \in Writing \cup {"read"} /\ pc'["app"] = pc["app"]
    BY <1>3, <1>a, OtherStays
  <2>2. UNCHANGED undoable
    BY <1>3 DEF Step, ReadSector, EraseEnable, EraseCommand, EraseWait, TryPage, ProgramCommand,
                ProgramWait, ReadBack, Compare
  <2>3. pc'["reset"] # "saved"
    <3>1. CASE ReadSector("reset")
      <4>1. net["reset"] \in Nets \cup {NoNet}
        BY <1>a, <2>1, WriterFacts DEF Writing, Programming, Resting
      <4>2. QED
        BY <1>a, <3>1, <4>1, ReadSectorFacts
    <3>2. CASE ~ ReadSector("reset")
      <4>1. PICK l \in Writing : Goes("reset", l)
        BY <1>3, <3>2 DEF Step, EraseEnable, EraseCommand, EraseWait, TryPage, ProgramCommand,
                          ProgramWait, ReadBack, Compare, Writing, Programming
      <4>2. pc'["reset"] = l
        BY <1>a, <4>1, Moves DEF Labels
      <4>3. QED
        BY <4>2 DEF Writing, Programming
    <3>3. QED
      BY <3>1, <3>2
  <2>4. pc["reset"] # "idle"
    BY <2>1 DEF Writing, Programming
  <2>5. QED
    BY <2>1, <2>2, <2>3, <2>4 DEF ResetSaved
<1>4. CASE PageDone("reset")
  <2>1. pc["reset"] = "page"
    BY <1>4 DEF PageDone, At
  <2>2. /\ pc'["app"] = pc["app"] /\ mishaps \subseteq mishaps'
        /\ j["reset"] = 65535 /\ page["reset"] = 1 => "no_reset" \in mishaps'
        /\ UNCHANGED <<cells, wel, busy, undoable>>
    BY <1>4, <1>a, PageDoneFacts
  <2>3. ASSUME Held' PROVE Kept
    <3>1. /\ "blind" \notin mishaps /\ "no_reset" \notin mishaps /\ "no_reset" \notin mishaps'
          /\ mishaps \cap {"blind", "cut_program"} = {}
      BY <2>2, <2>3
    <3>2. busy = Ready /\ ~ wel
      BY <2>1, <3>1 DEF Inv, Chip, Sent, EnableInv, Writing, Programming
    <3>3. page["reset"] = 1 \/ page["reset"] = 2
      BY <1>a, TypeFacts
    <3>4. page["reset"] = 2 \/ Verified("reset")
      BY <2>1, <2>2, <3>1, <3>3 DEF Verified
    <3>5. Shows(cells, net["reset"])
      BY <2>1, <3>1, <3>4 DEF VerifiedInv, Alone, Failure, Writing, Programming
    <3>6. net["reset"] = NoNet
      BY <1>a, <2>1 DEF Writer, WriterInv, Resting
    <3>7. QED
      BY <3>2, <3>5, <3>6 DEF Ready
  <2>4. ~ undoable => pc["app"] \notin {"read", "ewren"}
    BY <2>1 DEF ResetSaved
  <2>5. QED
    BY <2>2, <2>3, <2>4 DEF ResetSaved, Shows
<1>c. ASSUME pc'["reset"] = pc["reset"], UNCHANGED undoable, mishaps \subseteq mishaps',
             pc'["app"] \in {"read", "ewren"} => pc["app"] \in {"read", "ewren"},
             pc["reset"] = "saved" /\ Held => Kept'
      PROVE  ResetSaved'
  BY <1>c DEF ResetSaved
<1>d. ASSUME Step("app")
      PROVE  /\ pc'["reset"] = pc["reset"] /\ UNCHANGED undoable /\ mishaps \subseteq mishaps'
             /\ UNCHANGED cells
  <2>1. pc'["reset"] = pc["reset"]
    BY <1>d, <1>a, OtherStays
  <2>2. UNCHANGED <<cells, undoable>>
    BY <1>d DEF Step, ReadSector, EraseEnable, EraseCommand, EraseWait, TryPage, ProgramCommand,
                ProgramWait, ReadBack, Compare, PageDone, chip
  <2>3. mishaps \subseteq mishaps'
    <3>1. CASE PageDone("app")
      BY <1>a, <3>1, PageDoneFacts
    <3>2. CASE EraseCommand("app") \/ ProgramCommand("app")
      BY <1>a, <3>2, CommandCounts
    <3>3. CASE ~ PageDone("app") /\ ~ EraseCommand("app") /\ ~ ProgramCommand("app")
      BY <1>d, <3>3 DEF Step, ReadSector, EraseEnable, EraseWait, TryPage,
                        ProgramWait, ReadBack, Compare
    <3>4. QED
      BY <3>1, <3>2, <3>3
  <2>4. QED
    BY <2>1, <2>2, <2>3
<1>5. CASE ReadSector("app") \/ EraseEnable("app")
  <2>1. pc["app"] \in {"read", "ewren"}
    BY <1>5 DEF ReadSector, EraseEnable, At
  <2>2. ~ (pc["reset"] = "saved" /\ Held)
    BY <1>b, <2>1
  <2>3. Step("app")
    BY <1>5 DEF Step
  <2>4. QED
    BY <1>c, <1>d, <2>1, <2>2, <2>3
<1>6. CASE EraseCommand("app")
  <2>1. /\ pc["app"] = "erase" /\ UNCHANGED wel
        /\ busy' = busy \/ (Accepts /\ busy' = [op |-> "erase"])
    BY <1>6 DEF EraseCommand, At, Cut
  <2>2. pc'["app"] = "ewait"
    BY <1>6, <1>a, Moves DEF EraseCommand, Labels, Writing, Programming
  <2>3. Step("app")
    BY <1>6 DEF Step
  <2>4. ASSUME pc["reset"] = "saved", Held PROVE Kept'
    <3>1. Kept
      BY <1>b, <2>4
    <3>2. ~ Accepts
      BY <2>1, <3>1 DEF Accepts
    <3>3. QED
      BY <1>d, <2>1, <2>2, <2>3, <3>1, <3>2 DEF Shows
  <2>5. QED
    BY <1>c, <1>d, <2>2, <2>3, <2>4
<1>7. CASE ProgramCommand("app")
  <2>1. \/ busy' = busy
        \/ \E d : busy' = [op |-> "program", page |-> page["app"], data |-> d]
    BY <1>7 DEF ProgramCommand, Cut
  <2>2. pc'["app"] = "wait"
    BY <1>7, <1>a, Moves DEF ProgramCommand, Labels, Writing, Programming
  <2>3. Step("app")
    BY <1>7 DEF Step
  <2>4. ASSUME pc["reset"] = "saved", Held PROVE Kept'
    <3>1. Kept
      BY <1>b, <2>4
    <3>2. busy' # [op |-> "erase"]
      BY <2>1, <3>1
    <3>3. QED
      BY <1>d, <2>2, <2>3, <3>1, <3>2 DEF Shows
  <2>5. QED
    BY <1>c, <1>d, <2>2, <2>3, <2>4
<1>8. CASE \/ EraseWait("app") \/ TryPage("app") \/ ProgramWait("app") \/ ReadBack("app")
           \/ Compare("app") \/ PageDone("app")
  <2>1. Step("app")
    BY <1>8 DEF Step
  <2>2. UNCHANGED busy
    BY <1>8 DEF EraseWait, TryPage, ProgramWait, ReadBack, Compare, PageDone, chip
  <2>3. pc'["app"] \notin {"read", "ewren", "erase"}
    <3>1. CASE PageDone("app")
      BY <1>a, <3>1, PageDoneFacts
    <3>2. CASE ~ PageDone("app")
      <4>1. PICK l \in Programming : Goes("app", l)
        BY <1>8, <3>2 DEF EraseWait, TryPage, ProgramWait, ReadBack, Compare, Programming
      <4>2. pc'["app"] = l
        BY <1>a, <4>1, Moves DEF Labels, Writing
      <4>3. QED
        BY <4>2 DEF Programming
    <3>3. QED
      BY <3>1, <3>2
  <2>4. ASSUME pc["reset"] = "saved", Held PROVE Kept'
    <3>1. Kept
      BY <1>b, <2>4
    <3>2. QED
      BY <1>d, <2>1, <2>2, <2>3, <3>1 DEF Shows
  <2>5. QED
    BY <1>c, <1>d, <2>1, <2>3, <2>4
<1>9. CASE ChipDone
  <2>1. cells' = Done(cells, busy) /\ busy' = Ready /\ UNCHANGED <<pc, mishaps, undoable>>
        /\ wel' = FALSE
    BY <1>9 DEF ChipDone
  <2>2. ASSUME pc["reset"] = "saved", Held PROVE Kept'
    <3>1. Kept
      BY <1>b, <2>2
    <3>2. Shows(cells', NoNet)
      BY <2>1, <3>1, NoneStays
    <3>3. QED
      BY <2>1, <3>2 DEF Ready, Shows
  <2>3. QED
    BY <1>c, <2>1, <2>2
<1>10. CASE PowerLoss \/ ChipReset
  <2>1. pc'["reset"] = "idle"
    BY <1>10, <1>a DEF PowerLoss, ChipReset, Restart
  <2>2. QED
    BY <2>1 DEF ResetSaved
<1>11. CASE UNCHANGED vars
  BY <1>11 DEF vars, chip, ResetSaved, Shows
<1>12. QED
  BY <1>1, <1>2, <1>3, <1>4, <1>5, <1>6, <1>7, <1>8, <1>9, <1>10, <1>11 DEF Next, Step, Writers

(* The reset button's empty configuration is undone only by a save that    *)
(* had not sent its erase command when the button's save began, or that    *)
(* begins after it (agent_core.c:148, nuagent_drv.c:86-95).                *)
THEOREM FlashResetHolds == Spec => []ResetHolds
<1>1. Init => EnableInv /\ ResetSaved
  BY DEF Init, EnableInv, ResetSaved, Writers
<1>2. ASSUME Inv, \A w \in Writers : VerifiedInv(w), EnableInv /\ ResetSaved, [Next]_vars
      PROVE  (EnableInv /\ ResetSaved)'
  <2>1. VerifiedInv("reset")
    BY <1>2 DEF Writers
  <2>2. QED
    BY <1>2, <2>1, EnableStep, SavedStep
<1>3. ResetSaved => ResetHolds
  BY ReadsFacts DEF ResetSaved, ResetHolds
<1>4. QED
  BY <1>1, <1>2, <1>3, FlashInv, FlashVerified, PTL DEF Spec

-----------------------------------------------------------------------------
(* The rest of the sector. *)

(* Programming the rest onto itself or onto a part of it gives the rest;   *)
(* programming a part leaves the rest or a part.                           *)
LEMMA RestBits ==
  /\ RestData \notin InPart /\ Erased \in InPart
  /\ \A a \in {RestData} \cup InPart : RestData \cap a = RestData /\ a \cap RestData = RestData
  /\ \A a \in InPart, b \in InPart : a \cap b \in InPart
  /\ \A a \in {RestData} \cup InPart : Half(a) \in InPart
<1>1. RestData \notin InPart /\ Erased \in InPart
  BY DEF RestData, InPart, Half, Erased, Bits
<1>2. \A a \in {RestData} \cup InPart : RestData \cap a = RestData /\ a \cap RestData = RestData
  BY DEF RestData, InPart, Half, Erased, Bits
<1>3. Half(RestData) \cap Erased = Half(RestData) /\ Erased \cap Half(RestData) = Half(RestData)
  BY DEF RestData, Half, Erased, Bits
<1>4. \A a \in InPart, b \in InPart : a \cap b \in InPart
  BY <1>3 DEF InPart
<1>5. Half(Half(RestData)) = Half(RestData) /\ Half(Erased) = Erased
  BY DEF Half, Erased, Bits
<1>6. \A a \in {RestData} \cup InPart : Half(a) \in InPart
  BY <1>5 DEF InPart
<1>7. QED
  BY <1>1, <1>2, <1>4, <1>6

(* What a step of the application has to leave. *)
LEMMA RestByApp ==
  ASSUME pc["reset"] \in Resting, pc'["reset"] = pc["reset"], RestGood, UNCHANGED cells,
         cells["rest"] = RestData \/ Owes("app")',
         pc'["app"] \in Writing => image'["app"]["rest"] = RestData,
         (pc'["app"] = "compare" /\ page'["app"] = 2 /\ PageBuf' = [x \in {"rest"} |-> RestData])
           => cells["rest"] = RestData
  PROVE  RestGood'
<1>1. pc'["reset"] \notin Writing
  BY DEF Resting, Writing, Programming
<1>2. QED
  BY <1>1 DEF RestGood, RestKept

(* The application's steps keep the rest, in the sector or in its copy.    *)
LEMMA RestAppStep ==
  ASSUME Inv, RestGood, Step("app"), mishaps' \subseteq Harmless
  PROVE  RestGood'
<1>a. TypeOK /\ Writer /\ Chip /\ "app" \in Writers /\ "reset" \in Writers /\ WriterInv("app")
  BY DEF Inv, Writer, Writers
<1>b. /\ Runs("app") /\ pc["reset"] \in Resting /\ pc'["reset"] = pc["reset"] /\ UNCHANGED cells
      /\ pc["app"] \in Writing \cup {"read"}
  <2>1. UNCHANGED cells
    BY DEF Step, ReadSector, EraseEnable, EraseCommand, EraseWait, TryPage,
           ProgramCommand, ProgramWait, ReadBack, Compare, PageDone, chip
  <2>2. QED
    BY <1>a, <2>1, OtherStays DEF Runs, Resting
<1>c. ~ Owes("reset")
  BY <1>b DEF Owes, Resting, Programming
<1>d. /\ cells["rest"] = RestData \/ Owes("app")
      /\ pc["app"] \in Writing => image["app"]["rest"] = RestData
      /\ (pc["app"] = "compare" /\ page["app"] = 2 /\ PageBuf = [x \in {"rest"} |-> RestData])
           => cells["rest"] = RestData
  BY <1>c DEF RestGood, RestKept
<1>1. CASE ReadSector("app")
  <2>1. pc["app"] = "read" /\ net["app"] \in Nets \cup {NoNet}
    BY <1>1, <1>a, WriterFacts DEF ReadSector, At, Resting
  <2>2. busy = Ready
    BY <1>a, <1>b, <2>1, ChipFree
  <2>3. image'["app"]["rest"] = cells["rest"] /\ pc'["app"] \in {"try", "ewren"}
    BY <1>1, <1>a, <2>1, <2>2, ReadSectorFacts
  <2>4. cells["rest"] = RestData
    BY <1>d, <2>1 DEF Owes, Programming
  <2>5. QED
    BY <1>b, <2>3, <2>4, RestByApp
<1>2. CASE EraseEnable("app")
  <2>1. pc["app"] = "ewren" /\ UNCHANGED image
    BY <1>2 DEF EraseEnable, At
  <2>2. pc'["app"] = "erase"
    BY <1>2, <1>a, Moves DEF EraseEnable, Labels, Writing
  <2>3. cells["rest"] = RestData
    BY <1>d, <2>1 DEF Owes, Programming
  <2>4. image'["app"]["rest"] = RestData
    BY <1>d, <2>1 DEF Writing
  <2>5. QED
    BY <1>b, <2>2, <2>3, <2>4, RestByApp
<1>3. CASE EraseCommand("app")
  <2>1. pc["app"] = "erase" /\ UNCHANGED <<image, pages>>
    BY <1>3 DEF EraseCommand, At
  <2>2. pc'["app"] = "ewait"
    BY <1>3, <1>a, Moves DEF EraseCommand, Labels, Writing, Programming
  <2>3. Owes("app")'
    BY <1>a, <2>1, <2>2 DEF WriterInv, Owes, Verified, Programming
  <2>4. image'["app"]["rest"] = RestData
    BY <1>d, <2>1 DEF Writing
  <2>5. QED
    BY <1>b, <2>2, <2>3, <2>4, RestByApp
<1>4. CASE \/ EraseWait("app") \/ TryPage("app") \/ ProgramCommand("app") \/ ProgramWait("app")
  <2>1. pc["app"] \in Programming /\ UNCHANGED <<image, pages>>
    BY <1>4 DEF EraseWait, TryPage, ProgramCommand, ProgramWait, At, Programming
  <2>2. PICK l \in Programming : Goes("app", l) /\ l # "compare" /\ (l = "page" => TryPage("app"))
    BY <1>4 DEF EraseWait, TryPage, ProgramCommand, ProgramWait, Programming
  <2>3. pc'["app"] = l
    BY <1>a, <2>2, Moves DEF Labels, Writing
  <2>4. ~ Verified("app")'
    <3>1. CASE l = "page"
      <4>1. TryPage("app") /\ pc["app"] = "try" /\ j["app"] = 0
        BY <2>2, <2>3, <3>1, <1>a, TypeFacts DEF TryPage, At, Goes
      <4>2. j' = [j EXCEPT !["app"] = (j["app"] + 65535) % 65536]
        BY <4>1 DEF TryPage
      <4>3. j'["app"] = (j["app"] + 65535) % 65536
        BY <1>a, <4>2, TypeFacts
      <4>4. j["app"] \in 0 .. TRIES
        BY <1>a, <4>1, WriterFacts
      <4>5. j'["app"] = 65535
        BY <4>1, <4>3, <4>4, Decrement
      <4>6. QED
        BY <4>5 DEF Verified
    <3>2. CASE l # "page"
      BY <2>3, <3>2 DEF Verified
    <3>3. QED
      BY <3>1, <3>2
  <2>5. Owes("app") => Owes("app")'
    BY <2>1, <2>2, <2>3, <2>4 DEF Owes
  <2>6. image'["app"]["rest"] = RestData
    BY <1>d, <2>1 DEF Writing
  <2>7. QED
    BY <1>b, <1>d, <2>2, <2>3, <2>5, <2>6, RestByApp
<1>5. CASE ReadBack("app")
  <2>1. /\ pc["app"] = "readback" /\ UNCHANGED <<image, pages, page>>
        /\ PageBuf' \in ReadOf(PageCells[page["app"]])
    BY <1>5 DEF ReadBack, At
  <2>2. pc'["app"] = "compare"
    BY <1>5, <1>a, Moves DEF ReadBack, Labels, Writing, Programming
  <2>3. busy = Ready
    BY <1>a, <1>b, <2>1, ChipFree
  <2>4. PageCells[page["app"]] \subseteq Cells
    BY <1>a, TypeFacts, CellFacts
  <2>5. PageBuf' = [x \in PageCells[page["app"]] |-> cells[x]]
    BY <1>a, <2>1, <2>3, <2>4, ReadFacts
  <2>6. ASSUME page["app"] = 2, PageBuf' = [x \in {"rest"} |-> RestData]
        PROVE  cells["rest"] = RestData
    <3>1. PageBuf' = [x \in {"rest"} |-> cells[x]]
      BY <2>5, <2>6, CellFacts
    <3>2. PageBuf'["rest"] = cells["rest"]
      BY <3>1
    <3>3. PageBuf'["rest"] = RestData
      BY <2>6
    <3>4. QED
      BY <3>2, <3>3
  <2>7. Owes("app") => Owes("app")'
    BY <2>1, <2>2 DEF Owes, Verified, Programming
  <2>8. image'["app"]["rest"] = RestData
    BY <1>d, <2>1 DEF Writing, Programming
  <2>9. QED
    BY <1>b, <1>d, <2>1, <2>6, <2>7, <2>8, RestByApp
<1>6. CASE Compare("app")
  <2>1. pc["app"] = "compare" /\ UNCHANGED <<image, pages, page>>
    BY <1>6 DEF Compare, At
  <2>2. PICK l \in {"page", "try"} :
          /\ Goes("app", l)
          /\ l = "page" => PageBuf = [x \in PageCells[page["app"]] |-> image["app"][x]]
    BY <1>6 DEF Compare
  <2>3. pc'["app"] = l
    BY <1>a, <2>2, Moves DEF Labels, Writing, Programming
  <2>4. image["app"]["rest"] = RestData
    BY <1>d, <2>1 DEF Writing, Programming
  <2>5. ASSUME l = "page", page["app"] = 2 PROVE cells["rest"] = RestData
    <3>1. PageBuf = [x \in {"rest"} |-> image["app"][x]]
      BY <2>2, <2>5, CellFacts
    <3>2. PageBuf = [x \in {"rest"} |-> RestData]
      BY <2>4, <3>1
    <3>3. QED
      BY <1>d, <2>1, <2>5, <3>2
  <2>6. Owes("app") => Owes("app")' \/ (l = "page" /\ page["app"] = 2)
    BY <2>1, <2>2, <2>3 DEF Owes, Verified, Programming
  <2>7. QED
    BY <1>b, <1>d, <2>1, <2>2, <2>3, <2>4, <2>5, <2>6, RestByApp
<1>7. CASE PageDone("app")
  <2>1. pc["app"] = "page"
    BY <1>7 DEF PageDone, At
  <2>2. /\ j["app"] = 0 => "last_try" \in mishaps'
        /\ j["app"] = 65535 /\ page["app"] = 2 => "no_rest" \in mishaps'
    BY <1>7, <1>a, PageDoneFacts
  <2>3. j["app"] # 0 /\ ~ (j["app"] = 65535 /\ page["app"] = 2)
    BY <2>2 DEF Harmless
  <2>4. \/ pc'["app"] = "idle" /\ page["app"] = pages["app"]
        \/ pc'["app"] = "try" /\ pages["app"] = 2 /\ UNCHANGED <<image, pages>>
    BY <1>7, <1>a, <2>3, PageDoneFacts
  <2>5. CASE pc'["app"] = "idle" /\ page["app"] = pages["app"]
    <3>1. ~ Owes("app")
      BY <2>1, <2>3, <2>5 DEF Owes, Verified
    <3>2. QED
      BY <1>b, <1>d, <2>5, <3>1, RestByApp DEF Writing, Programming
  <2>6. CASE pc'["app"] = "try" /\ pages["app"] = 2 /\ UNCHANGED <<image, pages>>
    <3>1. Owes("app")'
      BY <2>6 DEF Owes, Verified, Programming
    <3>2. image'["app"]["rest"] = RestData
      BY <1>d, <2>1, <2>6 DEF Writing, Programming
    <3>3. QED
      BY <1>b, <2>6, <3>1, <3>2, RestByApp
  <2>7. QED
    BY <2>4, <2>5, <2>6
<1>8. QED
  BY <1>1, <1>2, <1>3, <1>4, <1>5, <1>6, <1>7 DEF Step

(* What a step of the reset button has to leave. *)
LEMMA RestByReset ==
  ASSUME RestGood, UNCHANGED cells, pc'["app"] = pc["app"], Keeps("app"),
         RestKept => RestKept',
         pc'["reset"] \in Writing =>
           /\ \/ image'["reset"]["rest"] = RestData
              \/ image'["reset"]["rest"] \in InPart /\ Owes("app")
           /\ image'["reset"]["rest"] \in InPart => cells["rest"] \in InPart,
         PageBuf' # PageBuf /\ PageBuf' = [x \in {"rest"} |-> RestData] => RestKept'
  PROVE  RestGood'
<1>1. Owes("app")' <=> Owes("app")
  BY DEF Owes, Verified, Keeps
<1>2. RestKept' \/ Owes("app")'
  BY <1>1 DEF RestGood
<1>3. pc'["app"] = "compare" /\ page'["app"] = 2 /\ PageBuf' = [x \in {"rest"} |-> RestData]
        => RestKept'
  BY DEF RestGood, Keeps
<1>4. pc'["app"] \in Writing => image'["app"]["rest"] = RestData
  BY DEF RestGood, Keeps
<1>5. cells'["rest"] \in {RestData} \cup InPart
  BY DEF RestGood
<1>6. QED
  BY <1>1, <1>2, <1>3, <1>4, <1>5 DEF RestGood

(* So do the reset thread's, also in the middle of the application's       *)
(* save.                                                                   *)
LEMMA RestResetStep ==
  ASSUME Inv, VerifiedInv("reset"), RestGood, Step("reset"),
         "blind" \notin mishaps, mishaps' \subseteq Harmless
  PROVE  RestGood'
<1>a. TypeOK /\ Writer /\ Chip /\ "app" \in Writers /\ "reset" \in Writers /\ "app" # "reset"
      /\ WriterInv("reset")
  BY DEF Inv, Writer, Writers
<1>b. pc'["app"] = pc["app"] /\ pc["reset"] \in Writing \cup {"read"}
  BY <1>a, OtherStays
<1>c. ASSUME pc["reset"] \in Writing
      PROVE  /\ \/ image["reset"]["rest"] = RestData
                \/ image["reset"]["rest"] \in InPart /\ Owes("app")
             /\ image["reset"]["rest"] \in InPart => cells["rest"] \in InPart
  BY <1>c DEF RestGood
<1>d. ASSUME pc["reset"] \in Writing, UNCHANGED <<cells, net, image, pages, page>>,
             j'["app"] = j["app"],
             RestKept => RestKept',
             PageBuf' # PageBuf /\ PageBuf' = [x \in {"rest"} |-> RestData] => RestKept'
      PROVE  RestGood'
  <2>1. Keeps("app")
    BY <1>d DEF Keeps
  <2>2. QED
    BY <1>b, <1>c, <1>d, <2>1, RestByReset
<1>e. ASSUME UNCHANGED <<cells, image>>, Owes("reset") => Owes("reset")' PROVE RestKept => RestKept'
  BY <1>e DEF RestKept
<1>1. CASE ReadSector("reset")
  <2>1. pc["reset"] = "read" /\ net["reset"] \in Nets \cup {NoNet}
    BY <1>1, <1>a, WriterFacts DEF ReadSector, At, Resting
  <2>2. busy = Ready
    BY <1>1 DEF ReadSector, Harmless
  <2>3. /\ image'["reset"]["rest"] = cells["rest"]
        /\ image'["app"] = image["app"] /\ pages'["app"] = pages["app"]
        /\ page' = [page EXCEPT !["reset"] = 1] /\ j' = [j EXCEPT !["reset"] = TRIES]
        /\ UNCHANGED <<cells, PageBuf, net>>
    BY <1>1, <1>a, <2>1, <2>2, ReadSectorFacts
  <2>4. Keeps("app")
    BY <1>a, <2>3, TypeFacts DEF Keeps
  <2>5. ~ Owes("reset")
    BY <2>1 DEF Owes, Programming
  <2>6. RestKept => RestKept'
    BY <2>3, <2>5 DEF RestKept
  <2>7. cells["rest"] = RestData \/ (cells["rest"] \in InPart /\ Owes("app"))
    BY <2>5 DEF RestGood, RestKept
  <2>8. QED
    BY <1>b, <2>3, <2>4, <2>6, <2>7, RestByReset
<1>2. CASE EraseEnable("reset") \/ EraseCommand("reset")
  <2>1. /\ pc["reset"] \in {"ewren", "erase"}
        /\ UNCHANGED <<cells, net, image, pages, page, j, PageBuf>>
    BY <1>2 DEF EraseEnable, EraseCommand, At
  <2>2. ~ Owes("reset")
    BY <2>1 DEF Owes, Programming
  <2>3. pc["reset"] \in Writing
    BY <2>1 DEF Writing
  <2>4. RestKept => RestKept'
    BY <1>e, <2>1, <2>2
  <2>5. QED
    BY <1>d, <2>1, <2>3, <2>4
<1>3. CASE EraseWait("reset") \/ TryPage("reset") \/ ProgramCommand("reset") \/ ProgramWait("reset")
  <2>1. pc["reset"] \in Programming /\ UNCHANGED <<cells, net, image, pages, page, PageBuf>>
    BY <1>3 DEF EraseWait, TryPage, ProgramCommand, ProgramWait, At, Programming, chip
  <2>2. PICK l \in Programming : Goes("reset", l) /\ (l = "page" => TryPage("reset"))
    BY <1>3 DEF EraseWait, TryPage, ProgramCommand, ProgramWait, Programming
  <2>3. pc'["reset"] = l
    BY <1>a, <2>2, Moves DEF Labels, Writing
  <2>4. j' = [j EXCEPT !["reset"] = (j["reset"] + 65535) % 65536] \/ UNCHANGED j
    BY <1>3 DEF EraseWait, TryPage, ProgramCommand, ProgramWait
  <2>5. j'["app"] = j["app"]
    BY <1>a, <2>4, TypeFacts
  <2>6. ~ Verified("reset")'
    <3>1. CASE l = "page"
      <4>1. TryPage("reset") /\ pc["reset"] = "try" /\ j["reset"] = 0
        BY <2>2, <2>3, <3>1, <1>a, TypeFacts DEF TryPage, At, Goes
      <4>2. j' = [j EXCEPT !["reset"] = (j["reset"] + 65535) % 65536]
        BY <4>1 DEF TryPage
      <4>3. j'["reset"] = (j["reset"] + 65535) % 65536
        BY <1>a, <4>2, TypeFacts
      <4>4. j["reset"] \in 0 .. TRIES
        BY <1>a, <4>1, WriterFacts
      <4>5. j'["reset"] = 65535
        BY <4>1, <4>3, <4>4, Decrement
      <4>6. QED
        BY <4>5 DEF Verified
    <3>2. CASE l # "page"
      BY <2>3, <3>2 DEF Verified
    <3>3. QED
      BY <3>1, <3>2
  <2>7. Owes("reset") => Owes("reset")'
    BY <2>1, <2>2, <2>3, <2>6 DEF Owes
  <2>8. RestKept => RestKept'
    BY <1>e, <2>1, <2>7
  <2>9. pc["reset"] \in Writing
    BY <2>1 DEF Writing
  <2>10. QED
    BY <1>d, <2>1, <2>5, <2>8, <2>9
<1>4. CASE ReadBack("reset")
  <2>1. /\ pc["reset"] = "readback" /\ UNCHANGED <<cells, net, image, pages, page, j>>
        /\ PageBuf' \in ReadOf(PageCells[page["reset"]])
    BY <1>4 DEF ReadBack, At, chip
  <2>2. pc'["reset"] = "compare"
    BY <1>4, <1>a, Moves DEF ReadBack, Labels, Writing, Programming
  <2>3. busy = Ready /\ pc["reset"] \in Writing
    BY <1>a, <2>1 DEF Chip, Sent, Writing, Programming
  <2>4. PageCells[page["reset"]] \subseteq Cells /\ (page["reset"] = 1 \/ page["reset"] = 2)
    BY <1>a, TypeFacts, CellFacts
  <2>5. PageBuf' = [x \in PageCells[page["reset"]] |-> cells[x]]
    BY <1>a, <2>1, <2>3, <2>4, ReadFacts
  <2>6. ASSUME PageBuf' = [x \in {"rest"} |-> RestData] PROVE cells["rest"] = RestData
    <3>1. PageCells[page["reset"]] = {"rest"}
      BY <2>5, <2>6
    <3>2. PageBuf' = [x \in {"rest"} |-> cells[x]]
      BY <2>5, <3>1
    <3>3. PageBuf'["rest"] = cells["rest"]
      BY <3>2
    <3>4. PageBuf'["rest"] = RestData
      BY <2>6
    <3>5. QED
      BY <3>3, <3>4
  <2>7. Owes("reset") => Owes("reset")'
    BY <2>1, <2>2 DEF Owes, Verified, Programming
  <2>8. RestKept => RestKept'
    BY <1>e, <2>1, <2>7
  <2>9. PageBuf' = [x \in {"rest"} |-> RestData] => RestKept'
    BY <2>1, <2>6 DEF RestKept
  <2>10. QED
    BY <1>d, <2>1, <2>3, <2>8, <2>9
<1>5. CASE Compare("reset")
  <2>1. /\ pc["reset"] = "compare" /\ pc["reset"] \in Writing
        /\ UNCHANGED <<cells, net, image, pages, page, j, PageBuf>>
    BY <1>5 DEF Compare, At, chip, Writing, Programming
  <2>2. PICK l \in {"page", "try"} :
          /\ Goes("reset", l)
          /\ l = "page" => PageBuf = [x \in PageCells[page["reset"]] |-> image["reset"][x]]
    BY <1>5 DEF Compare
  <2>3. pc'["reset"] = l
    BY <1>a, <2>2, Moves DEF Labels, Writing, Programming
  <2>4. ASSUME l = "page", page["reset"] = 2 PROVE image["reset"]["rest"] = cells["rest"]
    <3>1. PageBuf = [x \in {"rest"} |-> image["reset"][x]]
      BY <2>2, <2>4, CellFacts
    <3>2. PageBuf = [x \in {"rest"} |-> cells[x]]
      BY <1>a, <2>1, <2>4, CellFacts DEF VerifiedInv, Alone, ReadBackIs
    <3>3. PageBuf["rest"] = image["reset"]["rest"]
      BY <3>1
    <3>4. PageBuf["rest"] = cells["rest"]
      BY <3>2
    <3>5. QED
      BY <3>3, <3>4
  <2>5. Owes("reset") => Owes("reset")' \/ (l = "page" /\ page["reset"] = 2)
    BY <2>1, <2>2, <2>3 DEF Owes, Verified, Programming
  <2>6. RestKept => RestKept'
    BY <2>1, <2>4, <2>5 DEF RestKept
  <2>7. QED
    BY <1>d, <2>1, <2>6
<1>6. CASE PageDone("reset")
  <2>1. pc["reset"] = "page" /\ pc["reset"] \in Writing
    BY <1>6 DEF PageDone, At, Writing, Programming
  <2>2. /\ j["reset"] = 0 => "last_try" \in mishaps'
        /\ j["reset"] = 65535 /\ page["reset"] = 2 => "no_rest" \in mishaps'
        /\ UNCHANGED <<cells, PageBuf>>
    BY <1>6, <1>a, PageDoneFacts
  <2>3. j["reset"] # 0 /\ ~ (j["reset"] = 65535 /\ page["reset"] = 2)
    BY <2>2 DEF Harmless
  <2>4. \/ /\ pc'["reset"] = "saved" /\ page["reset"] = pages["reset"]
           /\ net' = [net EXCEPT !["reset"] = None]
           /\ image' = [image EXCEPT !["reset"] = NoImage]
           /\ pages' = [pages EXCEPT !["reset"] = 1]
           /\ page' = [page EXCEPT !["reset"] = 1] /\ j' = [j EXCEPT !["reset"] = 0]
        \/ /\ pc'["reset"] = "try" /\ pages["reset"] = 2
           /\ page' = [page EXCEPT !["reset"] = 2] /\ j' = [j EXCEPT !["reset"] = TRIES]
           /\ UNCHANGED <<net, image, pages>>
    BY <1>6, <1>a, <2>3, PageDoneFacts
  <2>5. Keeps("app")
    BY <1>a, <2>4, TypeFacts DEF Keeps
  <2>6. CASE pc'["reset"] = "saved" /\ page["reset"] = pages["reset"]
    <3>1. ~ Owes("reset")
      BY <2>1, <2>3, <2>6 DEF Owes, Verified
    <3>2. RestKept => RestKept'
      BY <2>2, <3>1 DEF RestKept
    <3>3. pc'["reset"] \notin Writing
      BY <2>6 DEF Writing, Programming
    <3>4. QED
      BY <1>b, <2>2, <2>5, <3>2, <3>3, RestByReset
  <2>7. CASE pc'["reset"] = "try" /\ pages["reset"] = 2 /\ UNCHANGED <<image, pages>>
    <3>1. Owes("reset")'
      BY <2>7 DEF Owes, Verified, Programming
    <3>2. RestKept => RestKept'
      BY <1>e, <2>2, <2>7, <3>1
    <3>3. QED
      BY <1>b, <1>c, <2>1, <2>2, <2>5, <2>7, <3>2, RestByReset
  <2>8. QED
    BY <2>4, <2>6, <2>7
<1>7. QED
  BY <1>1, <1>2, <1>3, <1>4, <1>5, <1>6 DEF Step

(* The chip finishes a command. *)
LEMMA RestChipStep ==
  ASSUME Inv, RestGood, ChipDone, "blind" \notin mishaps
  PROVE  RestGood'
<1>a. TypeOK /\ Writer /\ Chip /\ "app" \in Writers /\ "reset" \in Writers
      /\ cells \in Contents /\ WriterInv("app") /\ WriterInv("reset")
  BY TypeFacts DEF Inv, Writer, Writers
<1>b. /\ cells' = Done(cells, busy) /\ busy # Ready
      /\ UNCHANGED <<PageBuf, pc, image, pages, page, j>>
  BY DEF ChipDone
<1>c. \A w \in Writers : Owes(w)' <=> Owes(w)
  BY <1>b DEF Owes, Verified
<1>d. ASSUME cells'["rest"] = cells["rest"] \/ (cells["rest"] \in InPart /\ cells'["rest"] \in InPart)
      PROVE  RestGood'
  <2>1. cells'["rest"] = RestData <=> cells["rest"] = RestData
    BY <1>d, RestBits
  <2>2. RestKept' <=> RestKept
    BY <1>a, <1>b, <1>c, <2>1 DEF RestKept
  <2>3. QED
    BY <1>a, <1>b, <1>c, <1>d, <2>2 DEF RestGood
<1>e. ASSUME cells'["rest"] = RestData,
             pc["reset"] \in Writing => image["reset"]["rest"] \notin InPart
      PROVE  RestGood'
  <2>1. RestKept'
    BY <1>e DEF RestKept
  <2>2. QED
    BY <1>a, <1>b, <1>c, <1>e, <2>1 DEF RestGood
(* A program command leaves the rest as it is, restores it, or leaves a    *)
(* part of what was one.                                                   *)
<1>f. ASSUME NEW w \in Writers, NEW d \in Contents, busy = Program(page[w], d),
             d["rest"] \in {RestData} \cup InPart
      PROVE  \/ cells'["rest"] = cells["rest"]
             \/ cells["rest"] \in InPart /\ cells'["rest"] \in InPart
             \/ cells'["rest"] = RestData /\ d["rest"] = RestData
  <2>1. page[w] \in 1 .. 2 /\ cells["rest"] \in {RestData} \cup InPart
    BY <1>a, TypeFacts DEF RestGood
  <2>2. /\ page[w] = 1 => cells'["rest"] = cells["rest"]
        /\ page[w] = 2 => cells'["rest"] = cells["rest"] \cap d["rest"]
    BY <1>a, <1>b, <1>f, <2>1, ProgramDone
  <2>3. CASE page[w] = 1
    BY <2>2, <2>3
  <2>4. CASE page[w] = 2
    <3>1. cells'["rest"] = cells["rest"] \cap d["rest"]
      BY <2>2, <2>4
    <3>2. CASE cells["rest"] = RestData
      <4>1. RestData \cap d["rest"] = RestData
        BY <1>f, RestBits
      <4>2. QED
        BY <3>1, <3>2, <4>1
    <3>3. CASE d["rest"] = RestData
      <4>1. cells["rest"] \cap RestData = RestData
        BY <2>1, RestBits
      <4>2. QED
        BY <3>1, <3>3, <4>1
    <3>4. CASE cells["rest"] \in InPart /\ d["rest"] \in InPart
      <4>1. cells["rest"] \cap d["rest"] \in InPart
        BY <3>4, RestBits
      <4>2. QED
        BY <3>1, <3>4, <4>1
    <3>5. QED
      BY <1>f, <2>1, <3>2, <3>3, <3>4
  <2>5. QED
    BY <2>1, <2>3, <2>4
(* What of an image's rest reaches the chip. *)
<1>g. ASSUME NEW w \in Writers, NEW d \in Contents,
             d = image[w] \/ d \in Truncated(image[w], page[w]),
             image[w]["rest"] \in {RestData} \cup InPart
      PROVE  /\ d["rest"] \in {RestData} \cup InPart
             /\ d["rest"] = RestData => image[w]["rest"] \notin InPart
  <2>1. image[w] \in Contents /\ page[w] \in 1 .. 2
    BY <1>a, TypeFacts
  <2>2. d["rest"] \in {image[w]["rest"], Half(image[w]["rest"]), Erased}
    BY <1>g, <2>1, TruncFacts, CellFacts
  <2>3. QED
    BY <1>g, <2>2, RestBits
<1>1. CASE pc["reset"] \in Writing
  <2>1. Sent("reset")
    BY <1>1, <1>b DEF Inv, Chip
  <2>2. /\ \/ image["reset"]["rest"] = RestData
           \/ image["reset"]["rest"] \in InPart /\ Owes("app")
        /\ image["reset"]["rest"] \in InPart => cells["rest"] \in InPart
    BY <1>1 DEF RestGood
  <2>3. CASE busy = [op |-> "erase"] /\ pc["reset"] = "ewait"
    <3>1. cells'["rest"] \in InPart
      BY <1>b, <2>3, EraseDone, RestBits
    <3>2. Owes("reset")'
      BY <1>a, <1>b, <2>3 DEF WriterInv, Owes, Verified, Programming
    <3>3. RestKept => RestKept'
      BY <1>b, <2>2, <3>2, RestBits DEF RestKept
    <3>4. QED
      BY <1>a, <1>b, <1>c, <2>2, <3>1, <3>3 DEF RestGood
  <2>4. ASSUME NEW d \in Contents, busy = Program(page["reset"], d),
               d = image["reset"] \/ d \in Truncated(image["reset"], page["reset"])
        PROVE  RestGood'
    <3>1. /\ d["rest"] \in {RestData} \cup InPart
          /\ d["rest"] = RestData => image["reset"]["rest"] \notin InPart
      BY <1>a, <1>g, <2>2, <2>4
    <3>2. \/ cells'["rest"] = cells["rest"]
          \/ cells["rest"] \in InPart /\ cells'["rest"] \in InPart
          \/ cells'["rest"] = RestData /\ d["rest"] = RestData
      BY <1>a, <1>f, <2>4, <3>1
    <3>3. QED
      BY <1>d, <1>e, <3>1, <3>2
  <2>5. QED
    BY <1>a, <2>1, <2>3, <2>4, SentFacts
<1>2. CASE pc["reset"] \notin Writing
  <2>1. Sent("app")
    BY <1>2, <1>b DEF Inv, Chip, Sent, Writing, Programming
  <2>2. pc["app"] \in Writing
    BY <2>1 DEF Sent, Writing, Programming
  <2>3. image["app"]["rest"] = RestData
    BY <2>2 DEF RestGood
  <2>4. CASE busy = [op |-> "erase"] /\ pc["app"] = "ewait"
    <3>1. cells'["rest"] \in InPart
      BY <1>b, <2>4, EraseDone, RestBits
    <3>2. Owes("app")'
      BY <1>a, <1>b, <2>4 DEF WriterInv, Owes, Verified, Programming
    <3>3. QED
      BY <1>2, <1>b, <2>3, <2>4, <3>1, <3>2 DEF RestGood
  <2>5. ASSUME NEW d \in Contents, busy = Program(page["app"], d),
               d = image["app"] \/ d \in Truncated(image["app"], page["app"])
        PROVE  RestGood'
    <3>1. d["rest"] \in {RestData} \cup InPart
      BY <1>a, <1>g, <2>3, <2>5
    <3>2. \/ cells'["rest"] = cells["rest"]
          \/ cells["rest"] \in InPart /\ cells'["rest"] \in InPart
          \/ cells'["rest"] = RestData
      BY <1>a, <1>f, <2>5, <3>1
    <3>3. QED
      BY <1>2, <1>d, <1>e, <3>2
  <2>6. QED
    BY <1>a, <2>1, <2>4, <2>5, SentFacts
<1>3. QED
  BY <1>1, <1>2

(* Every step keeps the rest in the sector or owed by a writer.            *)
LEMMA RestStep ==
  ASSUME Inv, \A w \in Writers : VerifiedInv(w), RestInv, [Next]_vars
  PROVE  RestInv'
<1> SUFFICES ASSUME mishaps' \subseteq Harmless PROVE RestGood'
  BY DEF RestInv
<1>a. TypeOK /\ Writer /\ "app" \in Writers /\ "reset" \in Writers
  BY DEF Inv, Writers
<1>r. CASE PowerLoss \/ ChipReset
  <2>1. Restart
    BY <1>r DEF PowerLoss, ChipReset
  <2>2. (\A w \in Writers : net[w] = None) /\ mishaps \subseteq Harmless
    BY <2>1 DEF Restart, Harmless
  <2>3. \A w \in Writers : pc[w] \in Resting
    BY <1>a, <2>2 DEF Writer, WriterInv
  <2>4. \A w \in Writers : ~ Owes(w)
    BY <2>3 DEF Owes, Resting, Programming
  <2>5. cells["rest"] = RestData
    BY <1>a, <2>2, <2>4 DEF RestInv, RestGood, RestKept
  <2>6. busy = Ready
    BY <2>2, BusySaves
  <2>7. cells' = cells
    <3>1. CASE PowerLoss
      BY <1>a, <2>6, <3>1, ReadyTorn
    <3>2. CASE ChipReset
      BY <1>a, <2>6, <3>2, ReadyDone, TypeFacts DEF ChipReset
    <3>3. QED
      BY <1>r, <3>1, <3>2
  <2>8. pc'["app"] = "idle" /\ pc'["reset"] = "idle"
    BY <1>a, <2>1 DEF Restart
  <2>9. QED
    BY <2>5, <2>7, <2>8 DEF RestGood, RestKept, Writing, Programming
<1>s. SUFFICES ASSUME ~ (PowerLoss \/ ChipReset) PROVE RestGood'
  BY <1>r
<1>b. RestGood /\ "blind" \notin mishaps
  <2>1. mishaps \subseteq mishaps'
    BY <1>a, <1>s, MishapsGrow
  <2>2. QED
    BY <2>1 DEF RestInv, Harmless
<1>1. ASSUME NEW n \in Nets, AppSave(n) PROVE RestGood'
  <2>1. /\ pc["app"] = "idle" /\ pc'["app"] = "read" /\ pc'["reset"] = pc["reset"]
        /\ pc["reset"] \in Resting /\ UNCHANGED cells
    BY <1>1, <1>a, TypeFacts DEF AppSave, Goes, At, Runs, Resting, chip
  <2>2. ~ Owes("app") /\ ~ Owes("reset")
    BY <2>1 DEF Owes, Resting, Programming
  <2>3. cells["rest"] = RestData
    BY <1>b, <2>2 DEF RestGood, RestKept
  <2>4. QED
    BY <1>b, <2>1, <2>3, RestByApp DEF Writing, Programming
<1>2. CASE ResetSave
  <2>1. /\ pc["reset"] = "idle" /\ pc'["reset"] = "read" /\ pc'["app"] = pc["app"]
        /\ UNCHANGED <<cells, PageBuf, image, pages, page, j>>
        /\ net'["app"] = net["app"]
    BY <1>2, <1>a, TypeFacts DEF ResetSave, Goes, At, chip
  <2>2. Keeps("app")
    BY <2>1 DEF Keeps
  <2>3. ~ Owes("reset")
    BY <2>1 DEF Owes, Programming
  <2>4. RestKept => RestKept'
    BY <2>1, <2>3 DEF RestKept
  <2>5. pc'["reset"] \notin Writing
    BY <2>1 DEF Writing, Programming
  <2>6. QED
    BY <1>b, <2>1, <2>2, <2>4, <2>5, RestByReset
<1>3. CASE Step("app")
  BY <1>3, <1>b, RestAppStep
<1>4. CASE Step("reset")
  BY <1>4, <1>a, <1>b, RestResetStep
<1>5. CASE ChipDone
  BY <1>5, <1>b, RestChipStep
<1>6. CASE UNCHANGED vars
  BY <1>6, <1>b DEF vars, chip, RestGood, RestKept, Owes, Verified
<1>7. QED
  BY <1>s, <1>1, <1>2, <1>3, <1>4, <1>5, <1>6 DEF Next, Writers

(* What else is in the sector survives every nesting of two saves, unless  *)
(* power was lost during one, the chip was read while busy, a page needed  *)
(* the last of its attempts or the second page failed at all of them       *)
(* (nuagent_drv.c:79-95).                                                  *)
THEOREM FlashRestPreserved == Spec => []RestPreserved
<1>1. Init => RestInv
  <2> SUFFICES ASSUME Init PROVE RestGood
    BY DEF RestInv
  <2>1. cells["rest"] = RestData /\ pc["app"] = "idle" /\ pc["reset"] = "idle"
    BY CellFacts DEF Init, Writers
  <2>2. QED
    BY <2>1 DEF RestGood, RestKept, Writing, Programming
<1>2. Inv /\ (\A w \in Writers : VerifiedInv(w)) /\ RestInv /\ [Next]_vars => RestInv'
  BY RestStep
<1>3. Inv /\ RestInv => RestPreserved
  <2> SUFFICES ASSUME Inv, RestInv, \A w \in Writers : net[w] = None,
                      mishaps \subseteq Harmless
               PROVE  cells["rest"] = RestData
    BY DEF RestPreserved
  <2>1. \A w \in Writers : pc[w] \in Resting
    BY DEF Inv, Writer, WriterInv
  <2>2. ~ Owes("app") /\ ~ Owes("reset")
    BY <2>1 DEF Owes, Resting, Programming, Writers
  <2>3. QED
    BY <2>2 DEF RestInv, RestGood, RestKept
<1>4. QED
  BY <1>1, <1>2, <1>3, FlashInv, FlashVerified, PTL DEF Spec
=============================================================================
