----------------------------- MODULE TcpServer -----------------------------
(***************************************************************************)
(* The TCP server for phones (network_adapter.c, TcpServerThread): one     *)
(* thread around select, a table of clients, and the sockets of lwIP, of   *)
(* which none is ever closed.  Peers connect, send, close and reset        *)
(* whenever they like, between any two calls of the server.                *)
(*                                                                         *)
(* Sockets are numbered in the order they are made: the UDP server's is 0, *)
(* the listening one 1, and the k-th client accepted gets FIRST + k - 1,   *)
(* so client sockets are kept as a sequence.  The UDP server waits half a  *)
(* second first (agent_core.c:198), so the listening socket, or even a     *)
(* client's, may be made before its; no property is about that order.      *)
(* Data of a client that is not read yet counts as one piece that fits the *)
(* buffer.  What is done with data is left to the user                     *)
(* (Socket_DispatchTCPData is empty).                                      *)
(***************************************************************************)
EXTENDS Integers, Sequences

CONSTANTS SLOTS,         \* TCP_SERVER_CLIENT_MAX_NUM (5)
          NUM_SOCKETS,   \* MEMP_NUM_NETCONN, which also bounds netconns (8)
          ALIAS,         \* descriptor whose bit FD_ISSET(-1) tests: -1 & 7 (7)
          MAX_DOWN       \* client_connect_count saturates this far below 0

LISTEN == 1
FIRST == 2
NoFd == -1

ASSUME TcpAssumption == /\ SLOTS \in Nat \ {0} /\ NUM_SOCKETS \in Nat /\ NUM_SOCKETS > FIRST
                        /\ ALIAS \in Nat /\ ALIAS # LISTEN
                        /\ MAX_DOWN \in Nat \ {0}

Slots == 0 .. SLOTS - 1
Fds == FIRST .. NUM_SOCKETS - 1
MaxConns == NUM_SOCKETS - FIRST

VARIABLES TCPServerFd,
          lan_client,            \* slot -> descriptor
          over,                  \* descriptor written behind the table
          client_connect_count, max_sock,
          pc, fdset, i, new_fd,
          sock,                  \* connections that have a descriptor
          backlog                \* connections not accepted yet

table == <<lan_client, over, client_connect_count, max_sock>>
vars == <<TCPServerFd, table, pc, fdset, i, new_fd, sock, backlog>>

-----------------------------------------------------------------------------
(* lwIP's side, external.  A connection is open, closed by its peer (fin), *)
(* closed with the end already read (read), or reset.                      *)
Conns == [end : {"open", "fin", "read", "rst"}, data : BOOLEAN]

Fresh == [end |-> "open", data |-> FALSE]
Reset == [end |-> "rst", data |-> FALSE]

Readable(c) == c.data \/ c.end \in {"fin", "rst"}

(* What a peer can do to its connection. *)
PeerSteps(c) ==
  (IF c.end = "open" THEN {[c EXCEPT !.data = TRUE], [c EXCEPT !.end = "fin"]} ELSE {})
    \cup {Reset}

(* recv on a readable connection: what it returns and what it leaves.  A   *)
(* reset discards data; data that was not pushed is returned together with *)
(* the end that follows it, which nobody is told of again.                 *)
Recv(c) ==
  LET Left(e) == [end |-> e, data |-> FALSE]
  IN IF c.end = "rst" THEN {[ok |-> FALSE, conn |-> c]}
     ELSE IF c.data
     THEN {[ok |-> TRUE, conn |-> Left(e)] :
             e \in {c.end} \cup (IF c.end = "fin" THEN {"read"} ELSE {})}
     ELSE {[ok |-> FALSE, conn |-> Left("read")]}

Conn(f) == sock[f - FIRST + 1]
FdOf(k) == FIRST + k - 1

(* FD_ISSET and FD_CLR with a descriptor that may be -1. *)
Bit(f) == IF f = NoFd THEN ALIAS ELSE f

-----------------------------------------------------------------------------
Init == /\ TCPServerFd = NoFd /\ lan_client = [s \in Slots |-> 0] /\ over = NoFd
        /\ client_connect_count = 0 /\ max_sock = 0
        /\ pc = "create" /\ fdset = {} /\ i = 0 /\ new_fd = NoFd
        /\ sock = <<>> /\ backlog = <<>>

(* A variant that leaves the table as the loader set it. *)
CreateTCPServerRaw ==
  /\ pc = "create" /\ pc' = "select"
  /\ TCPServerFd' = LISTEN /\ max_sock' = LISTEN
  /\ UNCHANGED <<lan_client, over, client_connect_count, fdset, i, new_fd, sock, backlog>>

(* The station is connected, and socket, bind and listen have succeeded (a *)
(* failure is tried again after a delay).  The table is cleared.           *)
CreateTCPServer ==
  /\ pc = "create" /\ pc' = "select"
  /\ TCPServerFd' = LISTEN /\ max_sock' = LISTEN
  /\ lan_client' = [s \in Slots |-> NoFd]
  /\ UNCHANGED <<over, client_connect_count, fdset, i, new_fd, sock, backlog>>

(* The descriptors set for select, and those of them that are ready. *)
Watched == {f \in Fds : f <= max_sock /\ \E s \in Slots : lan_client[s] = f}
Ready == {f \in Watched : Readable(Conn(f))} \cup {f \in {TCPServerFd} : backlog # <<>>}

Select ==
  /\ pc = "select" /\ Ready # {}
  /\ fdset' = Ready /\ i' = 0 /\ pc' = "scan"
  /\ UNCHANGED <<TCPServerFd, table, new_fd, sock, backlog>>

Decremented(n) == IF n > - MAX_DOWN THEN n - 1 ELSE n

(* One round of the loop over the table.  An empty slot whose bit is set   *)
(* fails to receive as well.                                               *)
ScanSlot ==
  /\ pc = "scan" /\ i < SLOTS /\ i' = i + 1
  /\ LET f == lan_client[i]
         r == IF f = NoFd THEN {[ok |-> FALSE, conn |-> Reset]} ELSE Recv(Conn(f))
     IN IF Bit(f) \notin fdset THEN UNCHANGED <<lan_client, client_connect_count, fdset, sock>>
        ELSE \E o \in r :
               /\ sock' = IF f = NoFd THEN sock ELSE [sock EXCEPT ![f - FIRST + 1] = o.conn]
               /\ IF o.ok THEN UNCHANGED <<lan_client, client_connect_count, fdset>>
                  ELSE /\ client_connect_count' = Decremented(client_connect_count)
                       /\ fdset' = fdset \ {Bit(f)}
                       /\ lan_client' = [lan_client EXCEPT ![i] = NoFd]
  /\ UNCHANGED <<TCPServerFd, over, max_sock, pc, new_fd, backlog>>

ScanDone == pc = "scan" /\ i = SLOTS

(* The listening socket is not ready: back to select. *)
NoneWaiting ==
  /\ ScanDone /\ TCPServerFd \notin fdset /\ pc' = "select" /\ fdset' = {} /\ i' = 0
  /\ UNCHANGED <<TCPServerFd, table, new_fd, sock, backlog>>

(* accept fails: the connection was reset while it waited. *)
AcceptFails ==
  /\ ScanDone /\ TCPServerFd \in fdset /\ Head(backlog).end = "rst"
  /\ backlog' = Tail(backlog) /\ pc' = "select" /\ fdset' = {} /\ i' = 0
  /\ UNCHANGED <<TCPServerFd, table, new_fd, sock>>

(* The new descriptor goes to the first empty slot; without one it goes    *)
(* behind the table, over the counter or over some other variable.         *)
Empty == {s \in Slots : lan_client[s] = NoFd}
Store(f) ==
  \/ \E s \in Empty : /\ \A t \in Empty : s <= t
                      /\ lan_client' = [lan_client EXCEPT ![s] = f]
                      /\ UNCHANGED <<over, client_connect_count>>
  \/ /\ Empty = {} /\ over' = f /\ UNCHANGED lan_client
     /\ client_connect_count' \in {client_connect_count, f}

(* Variants: the slot is the one after the last, or select's range stays.  *)
AcceptNextSlot ==
  LET f == FdOf(Len(sock) + 1)
  IN /\ ScanDone /\ TCPServerFd \in fdset /\ Head(backlog).end # "rst"
     /\ sock' = Append(sock, Head(backlog)) /\ backlog' = Tail(backlog)
     /\ max_sock' = IF max_sock < f + 1 THEN f + 1 ELSE max_sock
     /\ lan_client' = [lan_client EXCEPT ![Len(sock) % SLOTS] = f]
     /\ new_fd' = f /\ pc' = "recv"
     /\ fdset' = {} /\ i' = 0 /\ UNCHANGED <<TCPServerFd, over, client_connect_count>>
AcceptSameRange ==
  LET f == FdOf(Len(sock) + 1)
  IN /\ ScanDone /\ TCPServerFd \in fdset /\ Head(backlog).end # "rst"
     /\ sock' = Append(sock, Head(backlog)) /\ backlog' = Tail(backlog)
     /\ Store(f) /\ new_fd' = f /\ pc' = "recv"
     /\ fdset' = {} /\ i' = 0 /\ UNCHANGED <<TCPServerFd, max_sock>>

(* accept succeeds.  Above the limit the client is left without a slot.    *)
Accept ==
  LET f == FdOf(Len(sock) + 1)
  IN /\ ScanDone /\ TCPServerFd \in fdset /\ Head(backlog).end # "rst"
     /\ sock' = Append(sock, Head(backlog)) /\ backlog' = Tail(backlog)
     /\ IF client_connect_count < SLOTS
        THEN /\ max_sock' = IF max_sock < f + 1 THEN f + 1 ELSE max_sock
             /\ Store(f) /\ new_fd' = f /\ pc' = "recv"
        ELSE pc' = "select" /\ UNCHANGED <<table, new_fd>>
     /\ fdset' = {} /\ i' = 0 /\ UNCHANGED TCPServerFd

(* The first recv waits for the new client; its result is not looked at. *)
RecvNew ==
  /\ pc = "recv" /\ Readable(Conn(new_fd))
  /\ \E o \in Recv(Conn(new_fd)) : sock' = [sock EXCEPT ![new_fd - FIRST + 1] = o.conn]
  /\ pc' = "select" /\ new_fd' = NoFd
  /\ UNCHANGED <<TCPServerFd, table, fdset, i, backlog>>

-----------------------------------------------------------------------------
(* The peers, external.  lwIP refuses a connection it has no netconn for. *)
Connect ==
  /\ TCPServerFd # NoFd /\ Len(sock) + Len(backlog) < MaxConns
  /\ backlog' = Append(backlog, Fresh)
  /\ UNCHANGED <<TCPServerFd, table, pc, fdset, i, new_fd, sock>>

PeerActs ==
  /\ \/ /\ \E k \in DOMAIN sock : \E c \in PeerSteps(sock[k]) : sock' = [sock EXCEPT ![k] = c]
        /\ UNCHANGED backlog
     \/ /\ \E k \in DOMAIN backlog :
             \E c \in PeerSteps(backlog[k]) : backlog' = [backlog EXCEPT ![k] = c]
        /\ UNCHANGED sock
  /\ UNCHANGED <<TCPServerFd, table, pc, fdset, i, new_fd>>

Server == \/ CreateTCPServer \/ Select \/ ScanSlot \/ NoneWaiting
          \/ AcceptFails \/ Accept \/ RecvNew

Next == Server \/ Connect \/ PeerActs

Spec == Init /\ [][Next]_vars

(* The server's thread runs when a call of it can return. *)
FairSpec == Spec /\ WF_vars(Server)

-----------------------------------------------------------------------------
TypeOK ==
  /\ TCPServerFd \in {NoFd, LISTEN} /\ pc \in {"create", "select", "scan", "recv"}
  /\ pc # "create" => lan_client \in [Slots -> Fds \cup {NoFd}]
  /\ over \in Fds \cup {NoFd}
  /\ client_connect_count \in - MAX_DOWN .. NUM_SOCKETS - 1
  /\ max_sock \in 0 .. NUM_SOCKETS
  /\ fdset \subseteq Fds \cup {LISTEN} /\ i \in 0 .. SLOTS
  /\ new_fd \in Fds \cup {NoFd}
  /\ sock \in Seq(Conns) /\ backlog \in Seq(Conns) /\ Len(sock) + Len(backlog) <= MaxConns

InTable(k) == \E s \in Slots : lan_client[s] = FdOf(k)

(* A client whose end the server has not read keeps its slot, and no slot  *)
(* is shared, whatever slots are emptied and filled between two selects;   *)
(* only a client accepted with the table full has none (network_adapter.c: *)
(* 280-297, 311-320).                                                      *)
LiveKept ==
  pc # "create" =>
    /\ \A k \in DOMAIN sock : sock[k].end \in {"open", "fin"} => InTable(k) \/ over = FdOf(k)
    /\ \A s, t \in Slots : lan_client[s] = lan_client[t] /\ s # t => lan_client[s] = NoFd

(* Client k's bit is taken by an empty slot before its own. *)
Shadowed(k) ==
  FdOf(k) = ALIAS /\ \E s, t \in Slots : s < t /\ lan_client[t] = ALIAS /\ lan_client[s] = NoFd

(* A client with data or an end to read is read, unless the server waits   *)
(* for ever for the first bytes of another one (network_adapter.c:321), or *)
(* an empty slot takes its bit first (line 280 with -1): that client       *)
(* starves while select keeps returning.                                   *)
Waiting(k) == k \in DOMAIN sock /\ InTable(k) /\ Readable(sock[k])
Served ==
  \A k \in 1 .. MaxConns :
    [](Waiting(k) => <>(~ Waiting(k) \/ Shadowed(k) \/ [](pc = "recv")))
=============================================================================
