------------------------------- MODULE UartRx -------------------------------
(***************************************************************************)
(* The UART receive path (App/NuAgent/System/nuagent_uart.c over           *)
(* Lib/ring_buffer.c).  Three actors share the ring without a lock: the    *)
(* receive interrupt writes it, a periodic software timer looks at it, and *)
(* UartTaskThread empties it.  The interrupt runs to completion and can    *)
(* come between any two memory accesses of the others; the timer's check   *)
(* and its post, and the task's count, copy and index update, are          *)
(* therefore steps of their own.  recv_lock has a single user and no       *)
(* effect.                                                                 *)
(*                                                                         *)
(* ring_buf_read stores head + c and then, past the end, subtracts size    *)
(* (ring_buffer.c:218-220).  head is not volatile: the compiler may store  *)
(* both values or the last one only, and both are behaviours here.  Any    *)
(* number of bytes may come between the two stores: the task runs at one   *)
(* of the lowest priorities (AgentEntrance.c:80) with no critical section, *)
(* so it may be preempted there while the simulated UART interrupts byte   *)
(* after byte (simu_uart.c:165), and the real one, which feeds the same    *)
(* ring, brings up to fourteen at once (BspDemo.c:366).  BURST only bounds *)
(* that number for TLC.  A copy (memcpy) is one step, because the          *)
(* interrupt never writes the part being copied (CopySafe).                *)
(* ring_buf_cnt and ring_buf_cnt_to_end name tail twice; the two uses are  *)
(* one load here.                                                          *)
(***************************************************************************)
EXTENDS Ring             \* uartrxbuf

CONSTANTS HALF,     \* UART_RECV_BUF_SIZE / 2
          SEM_MAX,  \* largest count of a semaphore (65535 in uC/OS-II)
          BURST     \* bound on the bytes that come between two stores of head

ASSUME UartAssumption == /\ HALF \in 1 .. size /\ SEM_MAX \in Nat \ {0}
                         /\ BURST \in Nat

VARIABLES sem,        \* count of recv_sem
          timer,      \* "wait", or "post" between the timer's check and its post
          pc,         \* where UartTaskThread is
          recv_size,  \* bytes it has counted
          left,       \* bytes ring_buf_read has still to copy
          chunk,      \* bytes of the copy in progress
          recv_data,  \* what it has copied since it woke up
          unread,     \* bytes accepted and not yet read; size when they fill
                      \* the ring, which then looks empty and has lost them
          burst       \* bytes that came since the first store of head

task == <<pc, recv_size, left, chunk, recv_data>>
vars == <<head, tail, buffer, sem, timer, task, unread, burst>>

Init ==
  /\ head = 0 /\ tail = 0 /\ buffer \in [Index -> Bytes]
  /\ sem = 0 /\ timer = "wait"
  /\ pc = "pend" /\ recv_size = 0 /\ left = 0 /\ chunk = 0 /\ recv_data = <<>>
  /\ unread = 0 /\ burst = 0

(* OSSemPost; a count at its limit stays there (OS_ERR_SEM_OVF). *)
Posted(s) == IF s < SEM_MAX THEN s + 1 ELSE s

(* The interrupt: uart_data_recv on one byte.  A byte that finds the ring  *)
(* full is refused, and the semaphore is posted from half full on.         *)
Receive(b) ==
  /\ pc = "reduce" => burst < BURST
  /\ burst' = IF pc = "reduce" THEN burst + 1 ELSE 0
  /\ IF ring_buf_full(head, tail)
     THEN UNCHANGED <<buffer, tail, unread>>
     ELSE /\ buffer' = [buffer EXCEPT ![tail] = b]
          /\ tail' = Reduced(tail + 1)
          /\ unread' = 1 + (IF unread = size THEN 0 ELSE unread)
  /\ sem' = IF ring_buf_cnt(head, tail') >= HALF THEN Posted(sem) ELSE sem
  /\ UNCHANGED <<head, timer, task>>

(* A variant that leaves a ring less than half full alone. *)
TimerCheckHalf ==
  /\ timer = "wait" /\ ring_buf_cnt(head, tail) >= HALF
  /\ timer' = "post"
  /\ UNCHANGED <<head, tail, buffer, sem, task, unread, burst>>

(* uart_recv_timer_handle, every UART_RECV_TIMER_NUM: the check ... *)
TimerCheck ==
  /\ timer = "wait"
  /\ ring_buf_cnt(head, tail) > 0
  /\ timer' = "post"
  /\ UNCHANGED <<head, tail, buffer, sem, task, unread, burst>>

(* ... and the post. *)
TimerPost ==
  /\ timer = "post" /\ timer' = "wait"
  /\ sem' = Posted(sem)
  /\ UNCHANGED <<head, tail, buffer, task, unread, burst>>

(* OSSemPend returns. *)
Pend ==
  /\ pc = "pend" /\ sem > 0
  /\ sem' = sem - 1
  /\ pc' = "count"
  /\ UNCHANGED <<head, tail, buffer, timer, recv_size, left, chunk, recv_data, unread, burst>>

(* recv_size = ring_buf_cnt: go and read that many, or wait again. *)
Count ==
  LET n == ring_buf_cnt(head, tail)
  IN /\ pc = "count"
     /\ recv_size' = n /\ left' = n
     /\ IF n > 0 THEN pc' = "read" /\ recv_data' = <<>>
                 ELSE pc' = "pend" /\ UNCHANGED recv_data
     /\ UNCHANGED <<head, tail, buffer, sem, timer, chunk, unread, burst>>

(* An iteration of ring_buf_read up to its copy ... *)
Copy ==
  LET c == Smaller(left, ring_buf_cnt_to_end(head, tail))
  IN /\ pc = "read" /\ ~ Breaks(c)
     /\ recv_data' = recv_data \o CopyOut(buffer, head, c)
     /\ chunk' = c
     /\ pc' = "advance"
     /\ UNCHANGED <<head, tail, buffer, sem, timer, recv_size, left, unread, burst>>

(* A variant that moves head by what was asked for, not by what was copied. *)
AdvanceByLeft ==
  /\ pc = "advance"
  /\ head' = Reduced(head + left) /\ pc' = "read"
  /\ left' = left - chunk /\ unread' = unread - chunk
  /\ UNCHANGED <<tail, buffer, sem, timer, recv_size, chunk, recv_data, burst>>

(* ... its update of head, complete in one store or not ... *)
Advance ==
  /\ pc = "advance"
  /\ \/ head' = Reduced(head + chunk) /\ pc' = "read"
     \/ head' = head + chunk /\ head + chunk >= size /\ pc' = "reduce"
  /\ left' = left - chunk
  /\ unread' = unread - chunk
  /\ UNCHANGED <<tail, buffer, sem, timer, recv_size, chunk, recv_data, burst>>

(* ... and the second store. *)
Reduce ==
  /\ pc = "reduce" /\ pc' = "read"
  /\ head' = Reduced(head)
  /\ burst' = 0
  /\ UNCHANGED <<tail, buffer, sem, timer, recv_size, left, chunk, recv_data, unread>>

(* ring_buf_read returns, the bytes are used, and the task pends again. *)
Done ==
  /\ pc = "read" /\ Breaks(Smaller(left, ring_buf_cnt_to_end(head, tail)))
  /\ pc' = "pend"
  /\ UNCHANGED <<head, tail, buffer, sem, timer, recv_size, left, chunk, recv_data, unread, burst>>

UartTaskThread == Pend \/ Count \/ Copy \/ Advance \/ Reduce \/ Done

Next == \/ \E b \in Bytes : Receive(b)
        \/ TimerCheck
        \/ TimerPost
        \/ UartTaskThread

Spec == Init /\ [][Next]_vars

(* The kernel runs the task when it is ready and the timer when it is due. *)
(* Bytes may stop coming at any time.                                      *)
FairSpec == /\ Spec
            /\ WF_vars(UartTaskThread) /\ WF_vars(TimerCheck) /\ WF_vars(TimerPost)

-----------------------------------------------------------------------------
TypeOK ==
  /\ head \in 0 .. size /\ tail \in Index /\ buffer \in [Index -> Bytes]
  /\ sem \in 0 .. SEM_MAX /\ timer \in {"wait", "post"}
  /\ pc \in {"pend", "count", "read", "advance", "reduce"}
  /\ recv_size \in 0 .. size /\ left \in 0 .. size /\ chunk \in 0 .. size
  /\ recv_data \in Seq(Bytes) /\ unread \in Int /\ burst \in 0 .. BURST

(* "We always leave one free char as a completely full buffer has tail ==  *)
(* read, which is the same as empty" (ring_buffer.c:86-87): the interrupt  *)
(* never fills the last position, so the ring never looks empty with bytes *)
(* in it.                                                                  *)
OneFreeChar == unread < size

(* The bytes being copied to recv_data are bytes that were counted: the    *)
(* part of the buffer between head and head + chunk is out of the          *)
(* interrupt's reach until head moves.                                     *)
CopySafe ==
  pc = "advance" => /\ chunk <= ring_buf_cnt(head, tail)
                    /\ ~ (head <= tail /\ tail < head + chunk)

(* Whatever the interrupt and the timer do, bytes that were accepted are   *)
(* read, unless the ring overruns: the semaphore is posted again after     *)
(* every check that came too early, and a count at its limit loses         *)
(* nothing.  An overrun excuses only the bytes it lost: those accepted     *)
(* after it are read again.                                                *)
BytesGetRead == unread \in 1 .. size - 1 ~> (pc = "advance" \/ unread = size)

(* The bytes between the two indices, and what the task has taken. *)
Queue == Contents(buffer, head, tail)
Taken == IF pc = "advance" THEN SubSeq(recv_data, 1, Len(recv_data) - chunk) ELSE recv_data

F == INSTANCE BoundedFifo WITH Capacity <- size - 1, Data <- Bytes,
                               queue <- Queue, taken <- Taken

(* A byte has come since the first store of head, when the test for a full *)
(* ring, which compares with a head past the end, refuses nothing.         *)
Crowded == pc = "reduce" /\ burst > 0

(* The interrupt and the task together are a bounded queue: bytes come out *)
(* in order, once each, and are refused only at the input.  The one        *)
(* exception is the overrun: a further byte between the two stores of      *)
(* head, after at least one that came there too, into a ring that is full  *)
(* by the reduced head, empties the queue; it is a queue again after that. *)
ImplementsFifo ==
  /\ F!FifoInit
  /\ [][\/ F!FifoNext
        \/ Crowded /\ ring_buf_full(Reduced(head), tail) /\ F!Clear]_<<Queue, Taken>>
=============================================================================
