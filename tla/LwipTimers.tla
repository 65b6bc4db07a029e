----------------------------- MODULE LwipTimers -----------------------------
(***************************************************************************)
(* lwIP's timeouts (core/timers.c) over the port's mailbox (sys_arch.c):   *)
(* one list of timeouts, each holding the time after the one before it.    *)
(* lwIP's thread waits for messages and calls handlers that set their      *)
(* timeout again.  The DHCP server is started and stopped by the system    *)
(* management task, whose priority is higher: its calls run between any    *)
(* two steps of the thread, as one step, and change the same list.         *)
(*                                                                         *)
(* A step of the thread is what it does between two accesses to the list   *)
(* that the other task can tell apart; next_timeout is read once where the *)
(* code names it several times in a row.  "ip" stands for the timers that  *)
(* run all the time.  What messages and handlers do otherwise is left out. *)
(*                                                                         *)
(* A call of the pool is one step.  In the code it is not protected        *)
(* (SYS_LIGHTWEIGHT_PROT is 0, lwipopts.h:35): a start or stop between its *)
(* reading and storing memp_tab (memp.c:404-407, 459-460) could hand out   *)
(* one node twice or lose one.  That window is left out, and races does    *)
(* not count it.                                                           *)
(***************************************************************************)
EXTENDS Naturals, Sequences, FiniteSets

CONSTANTS Interval,          \* milliseconds of each timer
          SEC,               \* milliseconds per second (1000)
          OS_TICKS_PER_SEC,  \* 100
          WIDTH,             \* 2^32
          NODES,             \* MEMP_NUM_SYS_TIMEOUT (8)
          MBOX,              \* bound on messages waiting
          RACES              \* bound on calls inside list operations

Periodic == {"ip", "arp"}
Timers == Periodic \cup {"tcp", "tick"}
None == "none"
Nodes == 1 .. NODES
NULL == 0

ASSUME TimersAssumption ==
  /\ Interval \in [Timers -> Nat \ {0}] /\ SEC \in Nat \ {0} /\ OS_TICKS_PER_SEC \in Nat \ {0}
  /\ WIDTH \in Nat /\ NODES \in Nat /\ NODES > Cardinality(Timers) /\ MBOX \in Nat \ {0} /\ RACES \in Nat
  /\ \A h \in Timers : Interval[h] < WIDTH

VARIABLES next_timeout, node,  \* the list; a node has next, time and h
          memp,                \* the free nodes of the pool
          pc, boot,            \* boot: what sys_timeouts_init has still to set
          h, timeout, t,       \* handler, its new node, position in the list
          limit, spent,        \* of the wait in progress, in ticks; no limit is 0
          time_needed, mbox,
          Enable, tcpip_tcp_timer_active,
          races                \* calls of the other task inside a list operation

list == <<next_timeout, node, memp>>
wait == <<limit, spent, time_needed>>
flags == <<Enable, tcpip_tcp_timer_active>>
vars == <<list, pc, boot, h, timeout, t, wait, mbox, flags, races>>

Minus(a, b) == (a + WIDTH - b) % WIDTH

(* The pool.  Which free node is given is of no consequence; a free one is *)
(* blank here (its links belong to the pool).                              *)
Free == [next |-> NULL, time |-> 0, h |-> None]
memp_malloc == IF memp = {} THEN NULL ELSE CHOOSE n \in memp : \A m \in memp : n <= m

-----------------------------------------------------------------------------
(* The port.  Waiting is in ticks, and the time waited is converted back,  *)
(* in 32 bits and plus 1; when the wait ends in the tick it began in, the  *)
(* branch for a clock that has wrapped is taken.  (Waits are cut at 65535  *)
(* ticks, which no timer here reaches.)                                    *)
Ticks(ms) == IF (ms * OS_TICKS_PER_SEC) \div SEC < 1 THEN 1
             ELSE (ms * OS_TICKS_PER_SEC) \div SEC

(* A variant that rounds down and compares with >=. *)
ElapsedDown(d) == ((d * SEC) % WIDTH) \div OS_TICKS_PER_SEC

Elapsed(d) ==
  (((IF d > 0 THEN d ELSE WIDTH - 1) * SEC) % WIDTH) \div OS_TICKS_PER_SEC + 1

-----------------------------------------------------------------------------
Init ==
  /\ next_timeout = NULL /\ memp = Nodes /\ node = [n \in Nodes |-> Free]
  /\ pc = "boot" /\ boot = <<"ip", "arp", None>>
  /\ h = None /\ timeout = NULL /\ t = NULL
  /\ limit = 0 /\ spent = 0 /\ time_needed = 0 /\ mbox = 0
  /\ Enable = FALSE /\ tcpip_tcp_timer_active = FALSE /\ races = 0

Goes(label) == pc' = label

Return == Goes(IF boot = <<>> THEN "fetch" ELSE "boot") /\ h' = None

(* sys_timeouts_init sets one timer after the other; then lwIP runs. *)
Boot ==
  /\ pc = "boot" /\ h' = Head(boot) /\ boot' = Tail(boot)
  /\ Goes(IF Head(boot) = None THEN "fetch" ELSE "alloc")
  /\ UNCHANGED <<list, timeout, t, wait, mbox, flags, races>>

(* sys_timeouts_mbox_fetch: wait for the first timeout or for a message. *)
Fetch ==
  /\ pc = "fetch"
  /\ IF next_timeout = NULL THEN Goes("pend") /\ limit' = 0
     ELSE IF node[next_timeout].time > 0
     THEN Goes("pend") /\ limit' = Ticks(node[next_timeout].time)
     ELSE Goes("expired") /\ UNCHANGED limit
  /\ spent' = 0
  /\ UNCHANGED <<list, boot, h, timeout, t, time_needed, mbox, flags, races>>

(* No message has come in time. *)
PendTimeout ==
  /\ pc = "pend" /\ limit > 0 /\ spent >= limit /\ Goes("expired")
  /\ limit' = 0 /\ spent' = 0
  /\ UNCHANGED <<list, boot, h, timeout, t, time_needed, mbox, flags, races>>

(* A message; the time waited is compared with the first timeout.  If the  *)
(* list is empty by now, what follows is undefined, here and in Expired.   *)
GetMessage ==
  /\ pc = "pend" /\ mbox > 0 /\ mbox' = mbox - 1
  /\ time_needed' = Elapsed(spent) /\ limit' = 0 /\ spent' = 0
  /\ IF limit = 0 THEN Goes("message")
     ELSE IF next_timeout = NULL THEN Goes("undefined")
     ELSE Goes(IF time_needed' < node[next_timeout].time THEN "subtract" ELSE "zero")
  /\ UNCHANGED <<list, boot, h, timeout, t, flags, races>>

(* A variant that subtracts whatever the comparison says. *)
CountSigned ==
  /\ pc \in {"subtract", "zero"} /\ Goes("message")
  /\ node' = [node EXCEPT ![next_timeout].time = @ - time_needed]
  /\ UNCHANGED <<next_timeout, memp, boot, h, timeout, t, wait, mbox, flags, races>>

Count ==
  /\ pc \in {"subtract", "zero"} /\ Goes("message")
  /\ node' = [node EXCEPT ![next_timeout].time =
                IF pc = "zero" THEN 0 ELSE Minus(@, time_needed)]
  /\ UNCHANGED <<next_timeout, memp, boot, h, timeout, t, wait, mbox, flags, races>>

(* The message is processed; a connection may need the TCP timer. *)
Message ==
  /\ pc = "message" /\ time_needed' = 0
  /\ \/ Goes("fetch") /\ UNCHANGED <<h, tcpip_tcp_timer_active>>
     \/ /\ ~ tcpip_tcp_timer_active /\ tcpip_tcp_timer_active' = TRUE
        /\ h' = "tcp" /\ Goes("alloc")
  /\ UNCHANGED <<list, boot, timeout, t, limit, spent, mbox, Enable, races>>

(* The first timeout is taken from the list, freed, and its handler called. *)
Expired ==
  /\ pc = "expired"
  /\ Goes(IF next_timeout = NULL THEN "undefined" ELSE "pop")
  /\ t' = next_timeout
  /\ UNCHANGED <<list, boot, h, timeout, wait, mbox, flags, races>>

Pop ==
  /\ pc = "pop" /\ Goes("handler") /\ h' = node[t].h
  /\ next_timeout' = node[t].next
  /\ node' = [node EXCEPT ![t] = Free] /\ memp' = memp \cup {t} /\ t' = NULL
  /\ UNCHANGED <<boot, timeout, wait, mbox, flags, races>>

(* The handlers: each sets its timer again, TCP's only while it is needed, *)
(* the DHCP server's only while the server is enabled, which it looks at   *)
(* when it begins and when it ends.                                        *)
Handler ==
  /\ pc = "handler"
  /\ \/ h \in Timers \ {"tick"} /\ Goes("alloc") /\ UNCHANGED <<h, flags>>
     \/ h = "tcp" /\ Return /\ tcpip_tcp_timer_active' = FALSE /\ UNCHANGED Enable
     \/ h = "tick" /\ Enable /\ Goes("tick_end") /\ UNCHANGED <<h, flags>>
     \/ h = "tick" /\ ~ Enable /\ Return /\ UNCHANGED flags
  /\ UNCHANGED <<list, boot, timeout, t, wait, mbox, races>>

TickEnd ==
  /\ pc = "tick_end"
  /\ IF Enable THEN Goes("alloc") /\ UNCHANGED h ELSE Return
  /\ UNCHANGED <<list, boot, timeout, t, wait, mbox, flags, races>>

(* sys_timeout(Interval[h], h): a node from the pool, *)
Alloc ==
  /\ pc = "alloc" /\ timeout' = memp_malloc
  /\ IF timeout' = NULL THEN Return /\ UNCHANGED <<node, memp>>
     ELSE /\ node' = [node EXCEPT ![timeout'] = [next |-> NULL, time |-> Interval[h], h |-> h]]
          /\ memp' = memp \ {timeout'} /\ Goes("first") /\ UNCHANGED h
  /\ UNCHANGED <<next_timeout, boot, t, wait, mbox, flags, races>>

(* its place, before the first timeout or further on, *)
First ==
  /\ pc = "first"
  /\ IF next_timeout = NULL THEN next_timeout' = timeout /\ timeout' = NULL /\ Return
     ELSE /\ Goes(IF node[next_timeout].time > Interval[h] THEN "front" ELSE "walk")
          /\ UNCHANGED <<next_timeout, timeout, h>>
  /\ t' = next_timeout
  /\ UNCHANGED <<node, memp, boot, wait, mbox, flags, races>>

Walk ==
  LET left == Minus(node[timeout].time, node[t].time)
      n    == node[t].next
  IN /\ pc = "walk"
     /\ node' = [node EXCEPT ![timeout].time = left]
     /\ IF n = NULL THEN Goes("link") /\ UNCHANGED t
        ELSE IF node[n].time > left THEN Goes("link") /\ UNCHANGED t
        ELSE t' = n /\ UNCHANGED pc
     /\ UNCHANGED <<next_timeout, memp, boot, h, timeout, wait, mbox, flags, races>>

(* and its links; the one behind it is counted from it. *)
Less(nd, n, ms) == IF n = NULL THEN nd ELSE [nd EXCEPT ![n].time = Minus(@, ms)]

(* A variant in which it keeps its time. *)
LinkKeepsTime ==
  /\ pc = "link" /\ Return
  /\ node' = [node EXCEPT ![timeout].next = node[t].next, ![t].next = timeout]
  /\ t' = NULL /\ timeout' = NULL
  /\ UNCHANGED <<next_timeout, memp, boot, wait, mbox, flags, races>>

LinkFront ==
  /\ pc = "front" /\ Return
  /\ node' = [Less(node, t, Interval[h]) EXCEPT ![timeout].next = t]
  /\ next_timeout' = timeout /\ t' = NULL /\ timeout' = NULL
  /\ UNCHANGED <<memp, boot, wait, mbox, flags, races>>

Link ==
  /\ pc = "link" /\ Return
  /\ node' = [Less(node, node[t].next, node[timeout].time)
                EXCEPT ![timeout].next = node[t].next, ![t].next = timeout]
  /\ t' = NULL /\ timeout' = NULL
  /\ UNCHANGED <<next_timeout, memp, boot, wait, mbox, flags, races>>

Thread == \/ Boot \/ Fetch \/ PendTimeout \/ GetMessage \/ Count \/ Message
          \/ Expired \/ Pop \/ Handler \/ TickEnd
          \/ Alloc \/ First \/ Walk \/ LinkFront \/ Link

-----------------------------------------------------------------------------
(* The list as it is linked, and the time left to each timer in it. *)
Succ == [n \in Nodes \cup {NULL} |-> IF n = NULL THEN NULL ELSE node[n].next]
Nth == LET w[k \in Nodes] == IF k = 1 THEN next_timeout ELSE Succ[w[k - 1]] IN w
Path == SubSeq(Nth, 1, Cardinality({k \in Nodes : Nth[k] # NULL}))

Time(n) == IF n = NULL THEN 0 ELSE node[n].time
Sum == LET s[k \in 0 .. NODES] == IF k = 0 THEN 0 ELSE s[k - 1] + Time(Nth[k]) IN s

Queue == [k \in DOMAIN Path |-> [timer |-> node[Nth[k]].h, due |-> Sum[k]]]

(* Where a call of the other task disturbs the thread: inside an operation *)
(* on the list, or while it handles the DHCP server's tick and is bound to *)
(* set it again, or will if the server is enabled.                         *)
InList == pc \in {"subtract", "zero", "pop", "front", "walk", "link"}
TickWillBeSet == h = "tick" /\ pc \in {"alloc", "first"}
TickMayBeSet == h = "tick" /\ pc \in {"handler", "tick_end"}

Races(hit) == races' = races + (IF hit THEN 1 ELSE 0) /\ races' <= RACES

(* DHCPS_Start: sys_timeout, all of it, and Enable. *)
DHCPS_Start ==
  LET ms   == Interval["tick"]
      p    == Path
      k    == Cardinality({i \in DOMAIN p : Sum[i] <= ms})
      left == ms - Sum[k]
      succ == IF k = Len(p) THEN NULL ELSE p[k + 1]
      n    == memp_malloc
      rest == [Less(node, succ, left) EXCEPT ![n] = [next |-> succ, time |-> left, h |-> "tick"]]
  IN /\ boot = <<>> /\ ~ Enable /\ Enable' = TRUE
     /\ n # NULL /\ memp' = memp \ {n}
     /\ IF k = 0 THEN next_timeout' = n /\ node' = rest
        ELSE node' = [rest EXCEPT ![p[k]].next = n] /\ UNCHANGED next_timeout
     /\ Races(InList \/ TickWillBeSet \/ TickMayBeSet)
     /\ UNCHANGED <<pc, boot, h, timeout, t, wait, mbox, tcpip_tcp_timer_active>>

(* Removing position k; the one behind it gets its time. *)
Unlink(k) ==
  LET n    == Path[k]
      succ == node[n].next
      more == IF succ = NULL THEN node ELSE [node EXCEPT ![succ].time = (@ + node[n].time) % WIDTH]
      rest == [more EXCEPT ![n] = Free]
  IN /\ IF k = 1 THEN next_timeout' = succ /\ node' = rest
        ELSE node' = [rest EXCEPT ![Path[k - 1]].next = succ] /\ UNCHANGED next_timeout
     /\ memp' = memp \cup {n}

(* DHCPS_Stop: Enable, and sys_untimeout of the first tick there is. *)
DHCPS_Stop ==
  LET ticks == {k \in DOMAIN Path : node[Path[k]].h = "tick"}
  IN /\ boot = <<>> /\ Enable' = FALSE
     /\ IF ticks = {} THEN UNCHANGED list
        ELSE \E k \in ticks : (\A i \in ticks : k <= i) /\ Unlink(k)
     /\ Races(InList \/ TickWillBeSet)
     /\ UNCHANGED <<pc, boot, h, timeout, t, wait, mbox, tcpip_tcp_timer_active>>

-----------------------------------------------------------------------------
(* Messages come whenever there is room; the clock ticks, which matters    *)
(* only to a wait.  A message that has come may be looked at a tick late.  *)
Arrive == /\ mbox < MBOX /\ mbox' = mbox + 1
          /\ UNCHANGED <<list, pc, boot, h, timeout, t, wait, flags, races>>

OSTick == /\ pc = "pend" /\ (spent < limit \/ (mbox > 0 /\ spent = limit /\ limit > 0))
          /\ spent' = spent + 1
          /\ UNCHANGED <<list, pc, boot, h, timeout, t, limit, time_needed, mbox, flags, races>>

Next == Thread \/ DHCPS_Start \/ DHCPS_Stop \/ Arrive \/ OSTick

Spec == Init /\ [][Next]_vars

(* lwIP's thread runs when it is ready, and time goes on.  Nothing is      *)
(* assumed of messages: none need come, and they may never stop coming.    *)
FairSpec == Spec /\ WF_vars(Thread) /\ WF_vars(OSTick)

-----------------------------------------------------------------------------
TypeOK ==
  /\ next_timeout \in Nodes \cup {NULL} /\ memp \subseteq Nodes
  /\ node \in [Nodes -> [next : Nodes \cup {NULL}, time : 0 .. WIDTH - 1, h : Timers \cup {None}]]
  /\ pc \in {"boot", "fetch", "pend", "subtract", "zero", "message", "expired", "pop", "handler",
             "tick_end", "alloc", "first", "front", "walk", "link", "undefined"}
  /\ pc \in {"first", "front", "walk", "link"} => timeout # NULL
  /\ pc \in {"pop", "front", "walk", "link"} => t # NULL
  /\ h \in Timers \cup {None} /\ timeout \in Nodes \cup {NULL} /\ t \in Nodes \cup {NULL}
  /\ limit \in Nat /\ spent \in 0 .. limit + 1 /\ time_needed \in Nat /\ mbox \in 0 .. MBOX
  /\ Enable \in BOOLEAN /\ tcpip_tcp_timer_active \in BOOLEAN /\ races \in 0 .. RACES

T == INSTANCE TimerQueue WITH queue <- Queue

(* As long as the other task's calls do not fall into an operation of the  *)
(* thread on the list, the list is a queue of timers: setting or removing  *)
(* one, also while the thread waits for another, moves no other one, and   *)
(* none is in it twice (timers.c:276-340, 440-475).                        *)
ImplementsQueue == T!QueueInit /\ [][T!QueueNext \/ races' > 0]_Queue

(* However many messages come, every timer runs again and again: a message *)
(* counts for some time even if it is there at once (sys_arch.c:203-205,   *)
(* timers.c:471-475), and each handler sets its timer again.               *)
Runs(g) == []<>(pc = "handler" /\ h = g)
TimersRun ==
  [](races = 0) => (\A g \in Periodic : Runs(g)) /\ (<>[]Enable => Runs("tick"))

(* A timer that runs all the time is waiting or being handled: "This       *)
(* thread has exclusive access to lwIP core functions" (tcpip.c:65).       *)
TimersKept ==
  boot = <<>> =>
    \A g \in Periodic :
      \/ \E k \in DOMAIN Path : node[Path[k]].h = g
      \/ h = g /\ pc \in {"handler", "alloc", "first", "front", "walk", "link"}
=============================================================================
