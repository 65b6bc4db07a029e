# A verification project for NL6621-NuAgent

NuAgent is the firmware of a Wi-Fi module (NL6621, Cortex-M3, uC/OS-II, lwIP).
The module joins a home network with credentials a phone sends it, or opens a
network of its own (SoftAP) to receive them, and then relays between a serial
line and the network. This directory holds TLA+ models of its core, the TLC
runs that check them on small instances, and TLAPS proofs for all instances.

Paths below are relative to `src/NL6621-Dev/Source/`.

## The system

| Part | State | Operations | What is hard |
|---|---|---|---|
| Memory pool, `Ports/Cortex-M3/os_dmem.c` | headers linked through the pool, roving search pointer, bytes available | create, get, free | links after splits and merges, a search pointer into a merged block, ending the search |
| DHCP server, `App/DhcpServer/dhcp_server.c` | a table of 8 entries: state, address, client, offer timeout, lease | start, stop, receive, tick, client delete | clients that mix message types, timeouts, stations that leave and return, replies lost for want of memory, a pool that wraps |
| Ring buffer, `App/NuAgent/Lib/ring_buffer.c` | head, tail, buffer | write, read, write_char, clear, counts | wrap-around, the one unused position |
| UART receive, `App/NuAgent/System/nuagent_uart.c` | the ring, a semaphore, a timer | interrupt, timer, task | three actors without a lock; lost wake-ups |
| Onboarding, `App/NuAgent/Wifi/wifi_conn.c`, `User/lan.c`, `System/agent_core.c` | system status, result flag, saved configuration | boot, direct configuration, station mode, SoftAP, credentials over UDP, reset button | events without a name, events before the poll begins, blocking loops |
| System management and interface, `Sys/sys_mgmt.c`, `LwIP/port/lwIP.c` | message queue, interface address, servers | link up, link down, join failed, DHCP timeout | mode read when the message is handled, a DHCP loop that holds the task |
| Saved configuration, `App/NuAgent/System/nuagent_drv.c` over the flash commands of `BSP/BspDemo.c` | one flash sector, a page buffer shared by all callers | read, erase, program, verify, retry | power loss between erase and write or within a command, two writers without a lock, commands the chip drops or that preemption cuts |
| Disk for FatFs, `Fatfs/diskio.c` over `BSP/BspDemo.c` | disk sectors, eight to a flash sector | read, write | offsets computed three ways, a rewrite that endangers its neighbours |
| TCP and UDP servers, `App/NuAgent/System/network_adapter.c` | client table, counter, sockets | accept, receive | counter never incremented, blocking receive, sockets never closed, empty slots that are tested |
| lwIP's timeouts, `LwIP/src/core/timers.c` over `LwIP/port/sys_arch.c` | a list of time differences, a mailbox | set, remove, wait for a message or a timeout | elapsed-time arithmetic, a list changed by two tasks |
| Sniffer, NTP client, DNS server, simulated UART | small | | not used by this firmware, or stateless |
| Firmware update sender (Android, Java) | packet position, retry count | send, acknowledge, time out | late acknowledgements |

How they interact: the Wi-Fi driver (a binary library) posts messages to the
system management task; that task brings the interface up or down, starts or
stops the DHCP and DNS servers, and calls `AppEvtCallBack`, which sets a flag
that the onboarding code polls. lwIP's thread runs the DHCP server's receive
callback and tick; the system management task sets and removes that tick in
lwIP's own list of timeouts. The UART interrupt, a software timer and `UartTaskThread`
share the ring. Onboarding and the reset button save the configuration from
two threads. All of them allocate from the memory pool.

`PROJECT.json` lists every component, the hazards at their source lines, the
lines each definition stands for, and the mutants.

## Modules

| Module | Models |
|---|---|
| `Heap` | what a pool promises: disjoint, aligned regions that never move |
| `DynMem` | `os_dmem.c`; implements `Heap` |
| `DynMemProofs` | proofs about `DynMem` |
| `DhcpServer` | `dhcp_server.c`, the clients' side reduced to what they send and may use |
| `DhcpServerProofs` | proofs about `DhcpServer` |
| `BoundedFifo` | what a ring buffer promises |
| `RingBuffer` | the index arithmetic of `ring_buffer.c`, as operators |
| `Ring` | the fields of one ring, which the next two use |
| `RingBufferCalls` | its calls one after the other; implements `BoundedFifo` |
| `UartRx` | interrupt, timer and task over one ring; implements `BoundedFifo`, but for an overrun |
| `RingBufferProofs` | proofs about `RingBuffer`, `RingBufferCalls` and `UartRx` |
| `Onboarding` | `wifi_conn.c`, `lan.c`, the reset button, `sys_mgmt.c`, link up and down of `lwIP.c` |
| `OnboardingProofs` | proofs about `Onboarding` |
| `ConfigStore` | what saving promises: a boot finds some saved configuration or none; and what a torn one may be |
| `FlashConfig` | `WriteFlash` and `QSpiWriteAny`, two savers, the chip, power loss; implements `ConfigStore`, with torn configurations where it names them |
| `FlashConfigProofs` | proofs about `FlashConfig` |
| `FlashDisk` | `disk_read`, `disk_write` and `QSpiWriteOneSector` |
| `FlashDiskProofs` | proofs about `FlashDisk` |
| `TcpServer` | the TCP server's thread, its table and lwIP's sockets |
| `TcpServerProofs` | proofs about `TcpServer` |
| `TimerQueue` | what a list of timeouts promises: a timer is put behind those due no later, and none moves another |
| `LwipTimers` | `timers.c` and the mailbox fetch, with the DHCP server started and stopped by another task; implements `TimerQueue` |
| `LwipTimersProofs` | proofs about `LwipTimers` |
| `MC*` | instances for TLC |

Definitions whose comment calls them a variant are deliberate errors
(a guard dropped, a bound off by one, a reset forgotten). Nothing uses them in
the specifications; each property is checked to fail when the definition that
the variant is of is replaced by it (`PROJECT.json`, "mutants").

**DynMem.** Addresses are offsets in the pool. `live` is the set of headers in
the list, with `nextMem`, `prevMem` and `free` as the fields of each. All of
`OS_GetMem` and `OS_FreeMem` that touches the pool runs with interrupts off, so
one call is in progress at a time. A release is one action. An allocation is
`GetMemEnter`, a `SearchStep` per block passed over, and `GetMemTake` or
`GetMemFail`. Sizes are rounded in unsigned arithmetic of width
`UNSIGNED_MAX + 1`.

**DhcpServer.** One action per message type, tick, deletion, start and stop;
each is the whole handler, the history clean-up at its end included. `granted`
is not in the code: it is the address a client believes it may use, from the
ACKs and NAKs that reached it and from what it gave up. That is what "two
clients with one address" is stated about. A reply may be lost for want of a
pbuf (`ok = FALSE`) after the table has changed.

**UartRx.** The interrupt is one step, the others one step per access to shared
state. `head` is not volatile and is updated by two statements, so the compiler
may store the intermediate value; both behaviours are in the model. Nothing
bounds the bytes that come between the two stores: the task runs at one of the
lowest priorities without a critical section and may stay preempted there,
while the simulated UART brings one byte per interrupt and the real one, which
feeds the same ring, up to fourteen. `BURST` bounds them for TLC only; the
theorems hold for any number. `unread` counts bytes accepted and not yet read,
independently of the indices; it is `size` when an overrun has filled the ring,
which then looks empty and has lost them. `Crowded` is the window with a byte in
it, the only place where an overrun can happen.

**Onboarding.** The application thread's position is `pc`: delays and polling
loops are where others run. Task priorities (`Include/app_cfg.h`) are in the
guards: the application runs only when the system management task sleeps
(`AppRuns`). The driver, the other network and the user are external. A save is
two steps, `SaveErase` and `SaveWrite`, between which power may go and the
reset button may save (`Blank` is an erased configuration). The key is cut to
32 bytes when saved: networks in `LongNets` are stored as `Cut`, which joins
nothing.

**FlashConfig.** One step per command to the chip. `cells` is the sector: the
three fields of the configuration and the rest; a value is the set of its 1
bits, programming intersects. The chip drops commands while busy or without a
write enable. Commands other than reads are sent outside a critical section, so
that preemption may cut them (`faults` counts, `MAX_FAULTS` bounds): a cut erase
command, or a program command cut in its address, is ignored (`Cut`), and a page
cut in its data is programmed in part (`Truncated`). Power may go within a
command (`Torn`): each cell it changes is then done, untouched or half done, an
erase being half done at zeros. The application thread and the reset thread each
have their own copy of the sector (`image`) and share `PageBuf`; the reset
thread has the higher priority and runs its whole save inside the other's.
`Reads` is what a boot makes of the sector: a network, none, a part of the
credentials of one network (`"part"`), or credentials of no network
(`"mixed"`).

`mishaps` records what has gone wrong since the last restart: a page on its last
attempt, all attempts failed, a read of a busy chip, a command cut; and
`"before"`, that the last restart itself came during a save or after one of
those that are not `Harmless`. `undoable` says whether the application's save
had not sent its erase command when the button's began. The properties name the
mishaps they except. `ImplementsStore` is the refinement of `ConfigStore` with
its exceptions spelled out: a step may leave a part of a network that is being
saved (`Tear`) only once a transfer was cut, and a part or a mixture
(`TornCrash`) only when power goes within a command; nothing is promised after
an erase command was cut, because a save then programs onto an old network.

**FlashDisk.** `buff` and `tempbuf` are the buffers of `disk_write`, `before`
the disk when the call began. `disk_read` is an operator, wrong offsets
included. Only FatFs calls these functions, one call at a time.

**TcpServer.** `pc` is where the server thread waits or is interrupted:
`create`, `select`, `scan` (one step per slot), `recv`. Peers act between any
two steps. Sockets are never closed, so connections are numbered in order and
their number is bounded by lwIP's; `over` is the descriptor stored behind the
table when it is full.

**LwipTimers.** The thread takes one step per access to the list that another
task could tell apart. `DHCPS_Start` and `DHCPS_Stop` belong to a task of higher
priority and are one step each, between any two of the thread's. `races` counts
those that fall into one of the thread's operations: with none the list
implements `TimerQueue`; with one, timers are lost. Two timers stand for those
that always run, one for TCP's, one is the DHCP server's tick.

## Runs

| Run | Instance | Shows |
|---|---|---|
| `dynmem` | pool of 162 bytes (up to four blocks), minimum 14, requests 1, 17, 36; 33 831 states | type and link invariants, merging, exact count, refusal only when full, termination of the search, refinement of `Heap` |
| `dhcp_server` | 2 addresses, 3 clients, offer 1 tick, lease 2 ticks; 56 032 states | one entry per client, grants remembered, no shared address, refusal only by a full pool, offers reclaimed, remembered addresses respected |
| `ring_buffer` | 4 positions, 2 byte values, all chunks up to 4; 88 832 states | bounded queue, maximal transfers |
| `uart_rx` | 4 positions, semaphore limit 2, up to 5 bytes between the stores of `head`; 56 576 states | no byte lost or read twice but by the overrun, copies untouched, bytes get read |
| `uart_overrun` (violation) | as above, two bytes between the stores | the free position is filled |
| `onboarding` | 2 networks, one with a long key, 2 lost links between boots; 17 599 states | only what worked is saved, no DHCP server in station mode, attempts end |
| `onboarding_dhcp_silent` (violation) | as above, DHCP may never answer | the attempt never ends |
| `flash_config` | 2 networks, 3 attempts per page, 1 cut transfer; 325 664 states | a boot finds a saved configuration, none, or the damage of a cut or torn command, the rest of the sector survives, an undisturbed save stores, a factory reset holds, saves end |
| `flash_disk` | 3 flash sectors of 2 disk sectors, 2 contents, 1 page that fails; 3 964 303 states | writes read back, one flash sector at risk at a time |
| `tcp_server` | 2 slots, 3 clients, as in the firmware one more than slots; 16 789 states | clients keep their slots, pending data is read |
| `lwip_timers` | 4 timers of 2 to 5 ms, ticks of 2 ms, 5 nodes; 132 810 states | the list is a queue of timers, timers keep running under any traffic |
| `lwip_timers_race` (violation) | as above, one call inside a list operation | a periodic timer is lost |

Why the bounds are enough. Four blocks give every combination of free and held
neighbours on both sides, splits with and without remainder, and searches that
wrap; the pool size and the minimum are not multiples of a word, so that
rounding matters. With more clients than addresses every entry is contended;
three clients suffice for two that compete and one that is remembered. A ring
of four positions wraps after each few bytes and can be full, half full and
empty at every offset; two byte values tell an old byte from a new one. Five
bytes between the two stores of `head` are one more than the ring has positions:
enough to overrun it, and to go on past that. A semaphore limit of 2 is reached.
Two networks distinguish right from wrong credentials; two lost links allow a loss during an attempt and one after it.
Three attempts and one cut transfer, together with attempts the other save
interrupts, let a page fail once, succeed at its last attempt, or fail for good
(onto an old network, after a cut erase command); only the button's first page
never fails at all its attempts, which would take three cuts. The safety
properties were also checked with two. Three flash sectors
have a first, a whole and a last one in one write; with two disk sectors each,
a write starts and ends inside or at the edge of one. Three clients and two
slots allow a slot that is emptied and filled again, a full table, and an empty
slot before the last descriptor's. Intervals that are and are not multiples of a
tick, two of them equal, give insertions at the front, in the middle and at the
end, and timeouts of zero; the width of 64 keeps the wrapped elapsed time larger
than every interval, as 2^32 does.

Fairness. `DynMem`: the search runs with interrupts off. `DhcpServer`: lwIP's
thread runs due timeouts, so the tick is not starved; nothing is assumed of
clients. `UartRx`: the task runs when
ready and the timer fires; no byte ever has to come. `Onboarding`: tasks run
when ready and the driver ends every join attempt (it is given five tries);
that the network's DHCP server answers is a separate assumption (`AnsweredSpec`)
and `onboarding_dhcp_silent` shows what happens without it. `FlashConfig`: a
thread in a save runs when it may, and the chip ends what it has begun.
`TcpServer`: the server's thread runs when a call can return; peers may do
nothing, so a `recv` may last for ever. `LwipTimers`: lwIP's thread runs and the
clock ticks; messages may be absent or never stop.

Deadlock is checked in every run.

## Findings

Shown by a run:

1. `ring_buffer.c:218`: between the two stores of `head` the ring is never
   full; two bytes there fill it and it looks empty. The real UART brings up to
   fourteen in one interrupt, the simulated one several in as many interrupts
   while the task is preempted. All that is lost are the bytes then unread, and
   only a second byte in that window can do it (`uart_rx`, `UartOneFreeChar`).
2. `wifi_conn.c:91` and `lwIP.c:131`: no limit on DHCP tries, so the fallback
   to SoftAP is not reached when an access point has no DHCP server.
3. `dhcp_server.c:860` and `:887`: the system management task changes lwIP's
   list of timeouts, to which lwIP's thread "has exclusive access"
   (`tcpip.c:64`). A stop that frees the node behind which the thread links a
   timer loses that timer for ever. (A stop and a start inside the tick's
   handler set the tick twice; a stop while the thread waits for the tick makes
   the next timer run early.)

Met while modelling; the models contain them, and where a property would fail
it names the case it excepts:

4. `dhcp_server.c:838`: with the server at host 248 to 253 of a /24, the pool
   wraps past 0 to 1, and two entries get host 1. With the default address the
   pool is distinct (theorem `PoolFits`).
5. `dhcp_server.c:425` and `:711`: "Dropped the other frames" are answered with
   a NAK.
6. `network_adapter.c:311`: the client counter is never incremented, so a client
   too many is stored behind the table (`over`).
7. `network_adapter.c:280`: `FD_ISSET(-1)` and `FD_CLR(-1)` act on the bit of
   descriptor 7, whose client starves behind an empty slot (`Shadowed`).
8. `network_adapter.c:288`: sockets of clients that leave are not closed; after
   six clients nobody is accepted.
9. `nuagent_drv.c:173`: keys of up to 64 bytes are accepted and 32 are saved.
10. `BspDemo.c:808`: the test of the retry counter takes success at the last
    attempt for failure, and failure for success.
11. `diskio.c:72`: reads of more than two sectors return the wrong ones.
12. `diskio.c:127`: writes over three or more flash sectors end with the wrong
    part of the buffer.
13. `sys_arch.c:202`: a fetch that ends in the tick it began in counts as hours,
    and the next timer runs at once.
14. `nuagent_drv.c:86`: the flag that says a configuration is there is
    programmed with it and nothing checks the rest. Power lost within the
    program leaves, for instance, flag and SSID with a part of the key.
15. `BspDemo.c:740`: erase and program commands can be cut by preemption. After
    a cut erase command the save programs the new network onto the old one.

## Proofs

`DynMemProofs` proves, for every pool size, minimum allocation and set of
requests, under `PoolAssumption` (the pool holds two headers and one minimum
block) and `RequestAssumption` (no request within a word of the type's limit):

- `PoolInvariant`: `Spec => []IInv`. Tiling alone is not inductive: a merge is
  right only because free blocks are exactly those nobody holds
  (`FreeUnlessHeld`) and because no two of them are neighbours (`Coalesced`),
  so that one merge on each side is enough. `SearchedSoFar` says that no block
  from the search pointer to the cursor could have served the request.
- `PoolTypeOK`, `PoolWellLinked`, `PoolCoalesced`, `PoolGrantCoversRequest`.
- `PoolAvailableExact`: the count of free bytes is the sum of the free blocks
  (`FreeBytes`). A sum over a set cannot be reasoned about by induction here, so
  `Total` adds up a row of numbers, one per address of the pool, with a
  recursive function. What its sums do when a block changes hands is shown by
  looking at the least place where a lemma could fail.
- `PoolFullMeansFull`: from `SearchedSoFar`, at the point where the search
  comes around.
- `PoolImplementsHeap`: a grant maps to a grant because blocks tile the pool, a
  release to a release, everything else to a stutter.

`DhcpServerProofs` proves, for every number of entries, timers and clients:

- `ServerTable`: types, one entry and one history per client, for any pool,
  also one that wraps.
- `ServerInvariant` and `ServerNoSharedAddress`, assuming `PoolDistinct`: every
  address a client may use is bound to it, so two clients cannot share one.
- `PoolFits`: `PoolDistinct` holds when the server's host number plus the size
  of the pool stays below the host mask.

- `ServerGrantRemembered`, the half of `ServerInvariant` the runs check: a reply
  that is lost leaves the client with less than the table has, never more.
- `ServerRefusedOnlyWhenFull` and `ServerHistoryRespected`, for any pool. Both
  rest on `FirstExists`: a non-empty set of entries has a first one, so the
  lookup finds an entry whenever there is one of the kind it looks for, and
  goes on to the next kind only when there is none.

`TcpServerProofs` proves, for every number of slots and sockets:

- `ServerInv` and `TcpTypeOK`. `Phase` is needed for the types: a descriptor in
  the table is of a socket that exists, and a set listening bit stands for a
  connection that waits, so `accept` finds one.
- `TcpLiveKept`, assuming `OneSpare` (`MaxConns <= SLOTS + 1`). lwIP has eight
  netconns, of which the UDP socket and the listening one take two
  (`lwip/opt.h:331`), so six clients can ever be accepted for five slots, and the
  assumption holds with nothing to spare. The argument: a descriptor goes behind
  the table only when all slots hold distinct descriptors (`FullTable`), hence
  with the last socket; nobody is accepted after that (`Behind`), so what was
  written there never costs a client its slot. With two more sockets than slots
  it would.

`FlashDiskProofs` proves, for every geometry, content and bound on faults:

- `DiskInv` and `DiskTypeOK`. `Place` relates the number of disk sectors left to
  the flash sector in work; `Progress` says what the disk holds behind, in and
  ahead of it while there was no fault.
- `DiskOneBlockAtRisk` and `DiskWriteReadsBack`, from `Progress`. The latter is
  limited to writes over two flash sectors, like the property: the lemma about
  the last flash sector needs exactly that (finding 12).

`RingBufferProofs` proves, for every size and set of bytes, that one subtraction
is the remainder and what a ring holds after a store at its tail or a move of
its head. From that, of the calls:

- `CallsInv` and `CallsTypeOK`: while a call runs, what it has moved and the
  smaller of what is left to move and what the ring allows add up to what it
  should move (`OnCourse`). Without that nothing relates the two or three chunks
  of a call.
- `CallsMoveAll` and `CallsImplementFifo`.

And of interrupt, timer and task:

- `UartInv`, `UartTypeOK` and `UartCopySafe`, for interrupts that bring any
  number of bytes. `HeadInv` says that `head` is past the end only between its
  two stores; `CopyInv` that the chunk copied is the part of the ring from
  `head` on, to its end or to `tail` at most.
- `UartCount`, `UartOneFreeChar` and `UartImplementsFifo`, with no bound on the
  bytes between the two stores of `head`. The invariant `CountInv` relates
  `unread` to the indices: it is their distance, by the reduced `head` between
  the stores, or the ring is overrun and they are equal. The first byte in the
  window always fits, because the task has just made room; a further one may
  fill the ring (`Crowded`), which empties the queue in one step. Everything
  else is a step of the bounded queue.

`FlashConfigProofs` proves, for every set of networks, number of attempts and
bound on faults (`NetsAssumption`: the names are distinct; `BoundsAssumption`:
the attempts fit the 16 bit counter), with two saves that nest, transfers cut
and power lost at any point:

- `FlashInv` and `FlashTypeOK`. `Writer` says what a writer holds where it is,
  `Chip` that the chip only carries out the command of a writer that waits,
  whole or, once there was a fault, truncated. `Sector` says that, once the
  application has sent its erase command, either no older network is left in the
  sector (`Cleared`) or it has at least the bits of the network being saved
  (`PartOf`), so that programming gives that network or a part of it, unless an
  erase command was cut. That is the hard part: the button's save may have used
  up the write enable of an erase it interrupted, which then has no effect; but
  then the flag has lost the bits of a configuration's (`Dead`), and no program
  command brings them back.
- `FlashImplementsStore`: every step maps to one of `ConfigStore`, to a stutter,
  or to one of the exceptions the property names where it names them.
- `FlashSaveStores`, from `VerifiedInv`: what a writer that nobody disturbs has
  read back and compared is what is in the sector, whatever was torn before.
- `FlashResetHolds`, from `VerifiedInv`, `EnableInv` (each program command of
  the button's save uses up the write enable it sent) and `ResetSaved` (so an
  interrupted erase is dropped).
- `FlashRestPreserved`, from `RestInv`: from its erase command until it has
  verified the second page a writer owes the rest of the sector, and it is then
  in the writer's copy (`Owes`, `RestKept`). A program that was cut leaves the
  rest in part (`InPart`), onto which the next attempt can still program it.

`OnboardingProofs` proves, for every set of networks and bound on lost links,
with power loss, the reset button and the driver at any step:

- `OnboardingInv`. That no DHCP server runs in station mode is not inductive: a
  link message is handled in the mode that holds then, not the one it was sent
  in. `Driver` says where the driver is off, and that a failed join is its last
  word until it is started again; `Starting` what of an old link can be left in
  the queue where the application starts the driver: before station mode the
  SoftAP's LINK_DOWN, without which its server no longer runs, before SoftAP
  mode nothing; `Attempt` that during an attempt the driver's network is the
  caller's and that a success reported was for it.
- `OnboardingTypeOK`, `OnboardingNoRogueDhcp`, and from `Attempt`
  `OnboardingSavedNetWasLinked`: what a save writes is the network that was
  linked last.

`LwipTimersProofs` proves, for all intervals below the clock's width, every tick
rate and every pool with more nodes than timers:

- `TimersTypeOK`, wherever the other task's calls fall (any `RACES`): no node
  outside the pool is ever linked and no time leaves the width.
- `TimersImplementQueue`: every step maps to one of `TimerQueue` or a stutter
  until a call of the other task has fallen into an operation on the list. The
  invariant is `Shape`: the links from `next_timeout` form a list without a
  cycle (`IsList`), each timer is in it at most once and due within its interval
  (`IsQueue`), which timers are not in it (`Outside`), how far the thread has
  come in placing a node (`Place`) and what holds where it is about to change
  the first one (`AtFirst`). The times in the list are differences and the
  subtractions are in 32 bits; they are exact because the sum up to any node
  stays within an interval and so below the width. `ListIsUnique` says that the
  links decide the list, so what a step has linked is `Path` after it. The
  operations are then lemmas about any list: putting a node in, taking one out,
  letting time pass.
- `TimersNeverLost`: until such a race, timers that run all the time stay set or
  in hand, the pool is never empty when a timer is set, and the thread never
  takes the first timeout of an empty list. It needs `Kept`, a part of `Shape`:
  each node is free, in the list or in hand, and so is each such timer. That the
  pool is not empty is a count: the list is shorter than the pool because its
  nodes are of different timers. `lwip_timers_race` shows that one race is
  enough to refute the same claim.

The auxiliary invariants were checked with TLC on the runs' instances before
they were proved.

Only model-checked:

- liveness (`SearchEnds`, `OfferReclaimed`, `BytesGetRead`, `AttemptEnds`,
  `SaveEnds`, `Served`, `TimersRun`), which is beyond this prover;
- what the runs that expect a violation show.

Every other property of a run is a theorem as well.

## Not modelled, and why

Frame layout and option parsing of DHCP, text and logging are data the
properties do not distinguish. `OS_DelMemPool`, `ring_buf_free`, the name lookup
`GAgent_GetHostByName`, the sniffer and the cloud client have no callers;
`start_ntp` is called only while a variable is positive that starts at 0
(`agent_core.c:298`). The broadcast after a success ends after a bounded number of
rounds and is one step. Failing allocations are modelled for DHCP replies only:
what a write through the NULL that `WriteFlash` would then use does depends on
the memory map. `DHCPS_Start` and `DHCPS_Stop` are atomic with respect to the
client table; their race with lwIP's list of UDP control blocks is of the same
kind as the one in `LwipTimers`. After a race a freed node of `LwipTimers` is
blank, while in the code it belongs to the pool's list. The calls of that pool
are one step, although nothing protects them (`SYS_LIGHTWEIGHT_PROT` is 0): a
start or stop of the DHCP server inside `memp_malloc` or `memp_free`
(`memp.c:404-407`, `459-460`) could hand out one node twice or lose one, and
`races` does not count it. `ring_buf_cnt` and `ring_buf_cnt_to_end` name `tail`
twice and read it once here. A read of the chip's status that preemption cuts,
and so may end a wait early or late, is left out; the two writers' waits end
with the chip's command. FatFs is not part of this configuration
(`app_cfg.h:46`), so `FlashDisk` models code that is kept but not built in; were
it, the disk (0x34000 to 0x7CFFF, `diskio.c:16-17`) would cover the sector of the
saved configuration (0x64000, `nuagent_drv.c:124`). The post to a mailbox
with its retries, semaphores and threads of the lwIP port keep no state beyond
the kernel's. The firmware update sender is a Java program on another machine.
The kernel, the rest of lwIP, FatFs, AES, cJSON, the Wi-Fi driver and the Java
libraries are third-party or binary; they are most of the lines in the
repository.

An outcome of a connection attempt that arrives in the 100 ms between starting
the driver and setting the flag (`wifi_conn.c:108-111`) is overwritten and the
attempt hangs. `AttemptEnds` excuses exactly these attempts (`missed`).

## What could be added

1. The client table of the DHCP server under start and stop, step by step.
2. The firmware update sender: retries and late acknowledgements.
