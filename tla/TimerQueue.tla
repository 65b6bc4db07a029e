----------------------------- MODULE TimerQueue -----------------------------
(***************************************************************************)
(* What a list of timeouts promises, however it is linked: each timer is   *)
(* in it at most once, and timers expire in the order they are due, those  *)
(* due together in the order they were set.  Time passes for all of them   *)
(* alike.  The first timer may expire early, since lwIP overrates the time *)
(* it has waited (sys_arch.c:202); what it had left then passes at once    *)
(* for the others.                                                         *)
(***************************************************************************)
EXTENDS Naturals, Sequences

CONSTANTS Timers, Interval

VARIABLE queue     \* timers with the time left to each, next one first

Armed(q) == {q[k].timer : k \in DOMAIN q}

(* e becomes the element behind element k, and element k is taken out. *)
Insert(q, k, e) == [i \in 1 .. Len(q) + 1 |-> IF i <= k THEN q[i]
                                              ELSE IF i = k + 1 THEN e ELSE q[i - 1]]
Remove(q, k) == [i \in 1 .. Len(q) - 1 |-> IF i < k THEN q[i] ELSE q[i + 1]]

(* d time units later. *)
Later(q, d) == [k \in DOMAIN q |-> [q[k] EXCEPT !.due = @ - d]]

QueueInit == queue = <<>>

(* A timer is set behind those due no later. *)
Arm == \E h \in Timers \ Armed(queue), k \in 0 .. Len(queue) :
         /\ \A i \in DOMAIN queue : i <= k <=> queue[i].due <= Interval[h]
         /\ queue' = Insert(queue, k, [timer |-> h, due |-> Interval[h]])
Cancel == \E k \in DOMAIN queue : queue' = Remove(queue, k)
Pass == queue # <<>> /\ \E d \in 1 .. queue[1].due : queue' = Later(queue, d)
Expire == queue # <<>> /\ queue' = Later(Tail(queue), queue[1].due)

QueueNext == Arm \/ Cancel \/ Pass \/ Expire

QueueSpec == QueueInit /\ [][QueueNext]_queue
=============================================================================
