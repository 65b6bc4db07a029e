---------------------------- MODULE FlashConfig ----------------------------
(***************************************************************************)
(* Saving the configuration in the NOR flash: WriteFlash over the QSPI     *)
(* layer (QSpiFlashRead, QSpiFlashEraseSector, QSpiWriteAny), one step per *)
(* command sent to the chip.                                               *)
(*                                                                         *)
(* Two threads save: the application thread (Agent_SaveSSIDAndKey) and     *)
(* SysResetThread, which has the higher priority and never sleeps inside a *)
(* save (its delays are busy loops): its save nests in the other's at any  *)
(* point.  No lock is held.  The chip (external) ignores commands while it *)
(* is busy and write commands without a preceding write enable; a read     *)
(* while it is busy returns an undriven line.  Programming clears bits: a  *)
(* value is the set of its 1 bits.                                         *)
(*                                                                         *)
(* Only the commands that read are sent in a critical section              *)
(* (BspDemo.c:593-603).  A preempted transfer leaves the controller        *)
(* without data, and the chip takes the command as ended there: cut in the *)
(* data it programs a truncated page, cut in the address it is ignored.    *)
(* What is sent later of a cut transfer begins as a command of its own,    *)
(* which the chip, busy or no longer write enabled, ignores.  Power may be *)
(* lost within a command, which leaves each of its cells done, untouched   *)
(* or half done.                                                           *)
(*                                                                         *)
(* The sector has two pages here: the one with the configuration, and one  *)
(* that stands for the rest of the 4 KB.  OSMMalloc succeeds.              *)
(***************************************************************************)
EXTENDS Integers

CONSTANTS Nets,        \* networks whose credentials are saved
          NoNet,
          TRIES,       \* attempts per page (10 in QSpiWriteAny)
          MAX_FAULTS,  \* bound on transfers that are cut and programs that fail
          None         \* nothing is being saved

ASSUME NetsAssumption == /\ NoNet \notin Nets /\ None \notin Nets \cup {NoNet}
                         /\ Nets \cap {"common", "unused"} = {}  \* names of bits
ASSUME BoundsAssumption == TRIES \in 1 .. 65534 /\ MAX_FAULTS \in Nat

Writers == {"app", "reset"}
ConfigCells == {"flag", "ssid", "key"}       \* of Agent_config_t
Cells == ConfigCells \cup {"rest"}
PageCells == <<ConfigCells, {"rest"}>>

(* Bit patterns.  Those of two networks differ and overlap. *)
Bits == Nets \cup {"common", "unused"}
Erased == Bits
Zero == {}
Half(v) == v \cup {"unused"}       \* programmed in part from Erased
Of(n) == {n, "common"}
XPG_CFG_FLAG_CONNECTED == {"common"}
RestData == {"common"}
NoImage == [x \in Cells |-> Zero]

VARIABLES
  cells,    \* the sector
  wel,      \* the chip's write enable latch
  busy,     \* the command the chip is carrying out
  PageBuf,  \* the buffer of QSpiWriteAny, shared by all its callers
  pc, net,  \* per writer: where it is, what it saves
  image,    \* per writer: what it programs (flash_buf or pData)
  pages,    \* per writer: last page it programs
  page, j,  \* per writer: page and attempts left
  faults,   \* transfers cut and programs failed
  mishaps,  \* what has gone wrong since the last restart: see Mishaps
  undoable  \* may a save of the application come after the reset's?

chip == <<cells, wel, busy>>
vars == <<chip, PageBuf, pc, net, image, pages, page, j, faults, mishaps, undoable>>

Mishaps == {"before",      \* the last restart came during a save or after damage
            "blind",       \* the sector was read while the chip was busy
            "cut_erase",   \* an erase command was cut, and ignored,
            "cut_program", \* or a program command
            "last_try",    \* a page was verified at the last attempt only
            "no_config",   \* no attempt verified the application's first page,
            "no_reset",    \* that of SysResetThread,
            "no_rest"}     \* or a second page

(* Those that leave what is in the sector beside the configuration alone. *)
Harmless == {"cut_erase", "cut_program", "no_config", "no_reset"}

Ready == [op |-> "none"]

(* The configuration as stored: pConfigData of SysResetThread when n is    *)
(* NoNet, else Agent_config_data after Agent_SaveSSIDAndKey.               *)
Stored(n) == [x \in ConfigCells |->
                IF n = NoNet THEN Zero
                ELSE IF x = "flag" THEN XPG_CFG_FLAG_CONNECTED ELSE Of(n)]

(* What Agent_network_init makes of the sector: NoNet, a network, a part   *)
(* of the credentials of one network, or credentials of no network.        *)
Reads(c) == IF c["flag"] # XPG_CFG_FLAG_CONNECTED THEN NoNet
            ELSE IF \E n \in Nets : c["ssid"] = Of(n) /\ c["key"] = Of(n)
            THEN CHOOSE n \in Nets : c["ssid"] = Of(n) /\ c["key"] = Of(n)
            ELSE IF \E n \in Nets : Of(n) \subseteq c["ssid"] \cap c["key"]
            THEN "part" ELSE "mixed"

Init ==
  /\ \E n \in Nets \cup {NoNet}, blank \in BOOLEAN :
       cells = [x \in Cells |-> IF x = "rest" THEN RestData
                                ELSE IF blank THEN Erased ELSE Stored(n)[x]]
  /\ wel = FALSE /\ busy = Ready /\ PageBuf = [x \in {} |-> Zero]
  /\ pc = [w \in Writers |-> "idle"]
  /\ net = [w \in Writers |-> None]
  /\ image = [w \in Writers |-> NoImage]
  /\ pages = [w \in Writers |-> 1]
  /\ page = [w \in Writers |-> 1] /\ j = [w \in Writers |-> 0]
  /\ faults = 0 /\ mishaps = {} /\ undoable = FALSE

-----------------------------------------------------------------------------
(* The chip. *)

(* The sector once command o is done. *)
Done(c, o) ==
  [x \in Cells |->
     IF o.op = "erase" THEN Erased
     ELSE IF o.op = "program" /\ x \in PageCells[o.page] THEN c[x] \cap o.data[x]
     ELSE c[x]]

ChipDone ==
  /\ busy # Ready
  /\ cells' = Done(cells, busy) /\ busy' = Ready /\ wel' = FALSE
  /\ UNCHANGED <<PageBuf, pc, net, image, pages, page, j, faults, mishaps, undoable>>

(* A read returns c's cells, or all ones or all zeros from a busy chip. *)
ReadOf(S) ==
  IF busy = Ready THEN {[x \in S |-> cells[x]]}
  ELSE {[x \in S |-> v] : v \in {Erased, Zero}}

WriteEnable == wel' = (wel \/ busy = Ready)

Accepts == wel /\ busy = Ready

-----------------------------------------------------------------------------
(* SysResetThread keeps the processor until its save is done. *)
Runs(w) == w = "reset" \/ pc["reset"] \in {"idle", "saved"}

At(w, label) == Runs(w) /\ pc[w] = label

Goes(w, label) == pc' = [pc EXCEPT ![w] = label]

(* Agent_SaveSSIDAndKey is called with the credentials of n. *)
AppSave(n) ==
  /\ At("app", "idle") /\ Goes("app", "read")
  /\ net' = [net EXCEPT !["app"] = n]
  /\ undoable' = (undoable \/ pc["reset"] = "saved")
  /\ UNCHANGED <<chip, PageBuf, image, pages, page, j, faults, mishaps>>

(* The button has been held long enough. *)
ResetSave ==
  /\ At("reset", "idle") /\ Goes("reset", "read")
  /\ net' = [net EXCEPT !["reset"] = NoNet]
  /\ undoable' = (pc["app"] \in {"read", "ewren"})
  /\ UNCHANGED <<chip, PageBuf, image, pages, page, j, faults, mishaps>>

(* A variant that writes only the configuration after the erase. *)
ReadSectorDropsRest(w) ==
  /\ At(w, "read")
  /\ \E b \in ReadOf(Cells) :
       LET blank == \A x \in ConfigCells : b[x] = Erased
       IN /\ image' = [image EXCEPT ![w] =
                         [x \in Cells |-> IF x = "rest" THEN b[x] ELSE Stored(net[w])[x]]]
          /\ pages' = [pages EXCEPT ![w] = 1]
          /\ Goes(w, IF blank THEN "try" ELSE "ewren")
  /\ page' = [page EXCEPT ![w] = 1] /\ j' = [j EXCEPT ![w] = TRIES]
  /\ mishaps' = IF busy = Ready THEN mishaps ELSE mishaps \cup {"blind"}
  /\ UNCHANGED <<chip, PageBuf, net, faults, undoable>>

(* Read the sector and look for anything but 0xFF where the configuration  *)
(* goes: then the sector is erased and written back whole with the new     *)
(* configuration in it, otherwise the configuration alone is written.      *)
ReadSector(w) ==
  /\ At(w, "read")
  /\ \E b \in ReadOf(Cells) :
       LET blank == \A x \in ConfigCells : b[x] = Erased
       IN /\ image' = [image EXCEPT ![w] =
                         [x \in Cells |-> IF x = "rest" THEN b[x] ELSE Stored(net[w])[x]]]
          /\ pages' = [pages EXCEPT ![w] = IF blank THEN 1 ELSE 2]
          /\ Goes(w, IF blank THEN "try" ELSE "ewren")
  /\ page' = [page EXCEPT ![w] = 1] /\ j' = [j EXCEPT ![w] = TRIES]
  /\ mishaps' = IF busy = Ready THEN mishaps ELSE mishaps \cup {"blind"}
  /\ UNCHANGED <<chip, PageBuf, net, faults, undoable>>

(* The transfer is cut before the address is complete. *)
Cut(mishap) == /\ faults < MAX_FAULTS /\ faults' = faults + 1
               /\ mishaps' = mishaps \cup {mishap}
               /\ UNCHANGED busy

(* QSpiFlashEraseSector: write enable, the command, and the wait. *)
EraseEnable(w) ==
  /\ At(w, "ewren") /\ Goes(w, "erase") /\ WriteEnable
  /\ UNCHANGED <<cells, busy, PageBuf, net, image, pages, page, j, faults, mishaps, undoable>>

(* Variants: one that sends the write enable again when it is preempted,   *)
(* and one that never erases.                                              *)
EraseCommandRepeats(w) ==
  /\ At(w, "erase") /\ Goes(w, "ewait")
  /\ busy' = IF busy = Ready THEN [op |-> "erase"] ELSE busy
  /\ UNCHANGED <<cells, wel, PageBuf, net, image, pages, page, j, faults, mishaps, undoable>>

EraseCommandSkipped(w) ==
  /\ At(w, "erase") /\ Goes(w, "ewait")
  /\ UNCHANGED <<chip, PageBuf, net, image, pages, page, j, faults, mishaps, undoable>>

EraseCommand(w) ==
  /\ At(w, "erase") /\ Goes(w, "ewait")
  /\ \/ /\ busy' = IF Accepts THEN [op |-> "erase"] ELSE busy
        /\ UNCHANGED <<faults, mishaps>>
     \/ Cut("cut_erase")
  /\ UNCHANGED <<cells, wel, PageBuf, net, image, pages, page, j, undoable>>

EraseWait(w) ==
  /\ At(w, "ewait") /\ busy = Ready /\ Goes(w, "try")
  /\ UNCHANGED <<chip, PageBuf, net, image, pages, page, j, faults, mishaps, undoable>>

(* Variants: a signed counter; trying until the page is right. *)
TryPageSigned(w) ==
  /\ At(w, "try")
  /\ j' = [j EXCEPT ![w] = @ - 1]
  /\ IF j[w] = 0 THEN Goes(w, "page") /\ UNCHANGED wel
                 ELSE Goes(w, "command") /\ WriteEnable
  /\ UNCHANGED <<cells, busy, PageBuf, net, image, pages, page, faults, mishaps, undoable>>
TryPageForEver(w) ==
  /\ At(w, "try") /\ Goes(w, "command") /\ WriteEnable
  /\ UNCHANGED <<cells, busy, PageBuf, net, image, pages, page, j, faults, mishaps, undoable>>

(* The head of the retry loop of QSpiWriteAny: while (j--), with j a       *)
(* UINT16, and the write enable of QSpiFlashWriteOnePage.                  *)
TryPage(w) ==
  /\ At(w, "try")
  /\ j' = [j EXCEPT ![w] = (@ + 65535) % 65536]
  /\ IF j[w] = 0 THEN Goes(w, "page") /\ UNCHANGED wel
                 ELSE Goes(w, "command") /\ WriteEnable
  /\ UNCHANGED <<cells, busy, PageBuf, net, image, pages, page, faults, mishaps, undoable>>

(* The cells of its page before a cell, in the order of Agent_config_t. *)
Before == [flag |-> {}, ssid |-> {"flag"}, key |-> {"flag", "ssid"}, rest |-> {}]

(* What reaches the chip of page p of image d when the transfer is cut in  *)
(* cell y, in its middle or at its beginning; nothing when y is the first. *)
Truncated(d, p) ==
  {[x \in Cells |-> IF x \in Before[y] THEN d[x]
                    ELSE IF x = y /\ middle THEN Half(d[x]) ELSE Erased] :
     y \in PageCells[p], middle \in BOOLEAN}

(* The program command with its data, sent whole or cut; a program that    *)
(* fails is one that nothing reaches.                                      *)
ProgramCommand(w) ==
  /\ At(w, "command") /\ Goes(w, "wait")
  /\ \/ /\ busy' = IF Accepts THEN [op |-> "program", page |-> page[w], data |-> image[w]] ELSE busy
        /\ UNCHANGED <<faults, mishaps>>
     \/ /\ Accepts /\ faults < MAX_FAULTS /\ faults' = faults + 1
        /\ \E d \in Truncated(image[w], page[w]) :
             busy' = [op |-> "program", page |-> page[w], data |-> d]
        /\ UNCHANGED mishaps
     \/ Cut("cut_program")
  /\ UNCHANGED <<cells, wel, PageBuf, net, image, pages, page, j, undoable>>

ProgramWait(w) ==
  /\ At(w, "wait") /\ busy = Ready /\ Goes(w, "readback")
  /\ UNCHANGED <<chip, PageBuf, net, image, pages, page, j, faults, mishaps, undoable>>

ReadBack(w) ==
  /\ At(w, "readback") /\ Goes(w, "compare")
  /\ PageBuf' \in ReadOf(PageCells[page[w]])
  /\ UNCHANGED <<chip, net, image, pages, page, j, faults, mishaps, undoable>>

(* A variant that takes the first attempt as good. *)
CompareNever(w) ==
  /\ At(w, "compare") /\ Goes(w, "page")
  /\ UNCHANGED <<chip, PageBuf, net, image, pages, page, j, faults, mishaps, undoable>>

(* memcmp with PageBuf, whoever has filled it. *)
Compare(w) ==
  /\ At(w, "compare")
  /\ Goes(w, IF PageBuf = [x \in PageCells[page[w]] |-> image[w][x]] THEN "page" ELSE "try")
  /\ UNCHANGED <<chip, PageBuf, net, image, pages, page, j, faults, mishaps, undoable>>

(* After the retry loop: -1 when no attempt is left, which ends WriteFlash *)
(* as well; j is 65535, not 0, when every attempt has failed.  Both        *)
(* callers of WriteFlash go on as if it had succeeded.                     *)
PageDone(w) ==
  /\ At(w, "page")
  /\ IF j[w] = 0 \/ page[w] = pages[w]
     THEN /\ Goes(w, IF w = "reset" THEN "saved" ELSE "idle")
          /\ net' = [net EXCEPT ![w] = None]
          /\ image' = [image EXCEPT ![w] = NoImage] /\ pages' = [pages EXCEPT ![w] = 1]
          /\ page' = [page EXCEPT ![w] = 1] /\ j' = [j EXCEPT ![w] = 0]
     ELSE /\ page' = [page EXCEPT ![w] = 2] /\ j' = [j EXCEPT ![w] = TRIES]
          /\ Goes(w, "try") /\ UNCHANGED <<net, image, pages>>
  /\ mishaps' = mishaps \cup
       (CASE j[w] = 0     -> {"last_try"}
          [] j[w] = 65535 -> {IF page[w] = 2 THEN "no_rest"
                             ELSE IF w = "app" THEN "no_config" ELSE "no_reset"}
          [] OTHER        -> {})
  /\ UNCHANGED <<chip, PageBuf, faults, undoable>>

-----------------------------------------------------------------------------
(* Both ways to start again forget everything but the sector. *)
Restart ==
  /\ wel' = FALSE /\ busy' = Ready /\ PageBuf' = [x \in {} |-> Zero]
  /\ pc' = [w \in Writers |-> "idle"]
  /\ net' = [w \in Writers |-> None]
  /\ image' = [w \in Writers |-> NoImage]
  /\ pages' = [w \in Writers |-> 1]
  /\ page' = [w \in Writers |-> 1] /\ j' = [w \in Writers |-> 0]
  /\ undoable' = FALSE
  /\ mishaps' = IF (\A w \in Writers : net[w] = None) /\ mishaps \subseteq Harmless
                 THEN {} ELSE {"before"}
  /\ UNCHANGED faults

(* The cells command o changes. *)
Touched(o) == IF o.op = "erase" THEN Cells ELSE IF o.op = "program" THEN PageCells[o.page] ELSE {}

(* The sector when command o is interrupted: a cell of it is done, not     *)
(* begun, or half done, which for an erase is at zero.                     *)
Torn(c, o, begun, ended) ==
  [x \in Cells |-> IF x \notin begun THEN c[x]
                   ELSE IF x \in ended THEN Done(c, o)[x]
                   ELSE IF o.op = "erase" THEN Zero
                   ELSE c[x] \cap Half(o.data[x])]

(* Power is lost, perhaps within a command.  An erase takes all cells to   *)
(* zero before it raises the first.                                        *)
PowerLoss ==
  /\ \E begun \in SUBSET Touched(busy) : \E ended \in SUBSET begun :
       /\ busy.op = "erase" => begun = Cells \/ ended = {}
       /\ cells' = Torn(cells, busy, begun, ended)
  /\ Restart

(* nl6621_Reset by SysResetThread, or after the broadcast of the success:  *)
(* the chip finishes its command.                                          *)
ChipReset == /\ pc["reset"] = "saved" \/ At("app", "idle")
             /\ cells' = Done(cells, busy) /\ Restart

Step(w) == \/ ReadSector(w)
           \/ EraseEnable(w) \/ EraseCommand(w) \/ EraseWait(w)
           \/ TryPage(w) \/ ProgramCommand(w) \/ ProgramWait(w)
           \/ ReadBack(w) \/ Compare(w) \/ PageDone(w)

Next == \/ \E n \in Nets : AppSave(n)
        \/ ResetSave
        \/ \E w \in Writers : Step(w)
        \/ ChipDone \/ PowerLoss \/ ChipReset

Spec == Init /\ [][Next]_vars

(* Ready tasks run, and the chip finishes what it has begun. *)
FairSpec == Spec /\ (\A w \in Writers : WF_vars(Step(w))) /\ WF_vars(ChipDone)

-----------------------------------------------------------------------------
TypeOK ==
  /\ cells \in [Cells -> SUBSET Bits] /\ wel \in BOOLEAN
  /\ busy.op \in {"none", "erase", "program"}
  /\ DOMAIN PageBuf \in {{}} \cup {PageCells[p] : p \in 1 .. 2}
  /\ pc \in [Writers -> {"idle", "saved", "read", "ewren", "erase", "ewait", "try", "command",
                         "wait", "readback", "compare", "page"}]
  /\ net \in [Writers -> Nets \cup {NoNet, None}]
  /\ image \in [Writers -> [Cells -> SUBSET Bits]]
  /\ pages \in [Writers -> 1 .. 2] /\ page \in [Writers -> 1 .. 2]
  /\ \A w \in Writers : page[w] <= pages[w]
  /\ j \in [Writers -> 0 .. TRIES \cup {65535}]
  /\ faults \in 0 .. MAX_FAULTS /\ mishaps \subseteq Mishaps /\ undoable \in BOOLEAN

Store == INSTANCE ConfigStore WITH cfg <- Reads(cells), saving <- net,
                                   Part <- "part", Mixed <- "mixed"

(* However the saves nest, and whichever commands the chip drops, a boot   *)
(* finds the configuration of some save or none.  Only after a transfer    *)
(* was cut short may it find a part of a configuration that is being       *)
(* saved, only after power was lost within a command a part or credentials *)
(* of no network, and only an erase command that was cut lets a save       *)
(* program a new network onto an old one (nuagent_drv.c:84-101; no lock,   *)
(* no checksum).                                                           *)
ImplementsStore ==
  /\ Store!StoreInit
  /\ [][\/ Store!StoreNext
        \/ faults > 0 /\ Store!Tear
        \/ busy # Ready /\ Store!TornCrash
        \/ "cut_erase" \in mishaps]_<<Reads(cells), net>>

(* A save that the button does not interrupt leaves what it was given,     *)
(* whatever transfers were cut in it and however the sector was torn       *)
(* before, unless a first page has failed at every attempt since the last  *)
(* restart (nuagent_drv.c:176-178 logs success in any case).               *)
SaveStores ==
  [][ \A n \in Nets :
        (PageDone("app") /\ net["app"] = n /\ pc'["app"] = "idle"
           /\ pc["reset"] = "idle" /\ "no_config" \notin mishaps')
        => Reads(cells') = n ]_vars

(* The reset button's empty configuration is undone only by a save that    *)
(* had not sent its erase command when the button's save began, or that    *)
(* begins after it: any later point of an interrupted save programs its    *)
(* bits onto zeros (agent_core.c:148, nuagent_drv.c:86-95).                *)
ResetHolds ==
  pc["reset"] = "saved" /\ ~ undoable /\ mishaps \cap {"blind", "no_reset", "cut_program"} = {}
    => Reads(cells) = NoNet

(* What else is in the sector survives every nesting of two saves, unless  *)
(* power was lost during one, the chip was read while busy, a page needed  *)
(* the last of its attempts or the second page failed at all of them       *)
(* (nuagent_drv.c:79-95).                                                  *)
RestPreserved ==
  (\A w \in Writers : net[w] = None)
  /\ mishaps \subseteq Harmless
    => cells["rest"] = RestData

(* A save comes to its end: the retries are bounded even when interrupted  *)
(* attempts fail (BspDemo.c:799-809).                                      *)
SaveEnds == \A w \in Writers : net[w] # None ~> net[w] = None
=============================================================================
