-------------------------- MODULE TcpServerProofs --------------------------
(***************************************************************************)
(* Proofs about the TCP server for phones, for every number of slots and   *)
(* of sockets: what its variables hold, and, where lwIP has at most one    *)
(* socket more than the table has slots, that no client still to be read   *)
(* loses its slot.                                                         *)
(***************************************************************************)
EXTENDS TcpServer, FiniteSetTheorems, SequenceTheorems, TLAPS

Index(f) == f - FIRST + 1

(* Between two calls of the server: nobody is connected before it listens, *)
(* a descriptor of the table and the one received from are of sockets that *)
(* exist, and a set listening bit stands for a connection that waits.      *)
Phase ==
  /\ pc = "create" => TCPServerFd = NoFd /\ sock = <<>> /\ backlog = <<>>
  /\ pc # "create" => TCPServerFd = LISTEN
  /\ pc # "create" => \A s \in Slots : lan_client[s] # NoFd => Index(lan_client[s]) \in DOMAIN sock
  /\ pc = "recv" => new_fd # NoFd /\ Index(new_fd) \in DOMAIN sock
  /\ pc = "scan" /\ LISTEN \in fdset => backlog # <<>>

Inv == TypeOK /\ Phase

(* The firmware's sockets: six for clients, and five slots. *)
OneSpare == MaxConns <= SLOTS + 1

(* A descriptor is written behind the table only when the last socket is   *)
(* used up, and the counter is positive only after that.                   *)
Behind ==
  /\ over = NoFd => client_connect_count <= 0
  /\ over # NoFd => Len(sock) = MaxConns

KeptInv == Inv /\ LiveKept /\ Behind

-----------------------------------------------------------------------------
(* The constants of the server and of lwIP.                                *)
LEMMA ConstFacts ==
  /\ SLOTS \in Nat /\ SLOTS >= 1 /\ NUM_SOCKETS \in Nat /\ NUM_SOCKETS > 2
  /\ MaxConns \in Nat /\ MaxConns = NUM_SOCKETS - 2 /\ MAX_DOWN \in Nat /\ MAX_DOWN >= 1
  /\ FIRST = 2 /\ LISTEN = 1 /\ NoFd = -1
  /\ Slots = 0 .. SLOTS - 1 /\ Fds = 2 .. NUM_SOCKETS - 1 /\ ALIAS \in Nat /\ ALIAS # 1
  BY TcpAssumption DEF MaxConns, FIRST, LISTEN, NoFd, Slots, Fds

(* recv leaves a connection, and one that fails leaves an ended one. *)
LEMMA RecvFacts ==
  ASSUME NEW c \in Conns, NEW o \in Recv(c)
  PROVE  /\ o.conn \in Conns
         /\ ~ o.ok => o.conn.end \in {"read", "rst"}
         /\ o.conn.end \in {"open", "fin"} => c.end \in {"open", "fin"}
<1>1. c.end \in {"open", "fin", "read", "rst"}
  BY DEF Conns
<1>2. \A e \in {"open", "fin", "read", "rst"} : [end |-> e, data |-> FALSE] \in Conns
  BY DEF Conns
<1>3. CASE c.end = "rst"
  BY <1>3 DEF Recv
<1>4. CASE c.end # "rst" /\ c.data
  <2>1. PICK e \in {c.end} \cup (IF c.end = "fin" THEN {"read"} ELSE {}) :
          o = [ok |-> TRUE, conn |-> [end |-> e, data |-> FALSE]]
    BY <1>4, Zenon DEF Recv
  <2>2. e \in {c.end, "read"}
    BY <2>1
  <2>3. o.ok = TRUE /\ o.conn = [end |-> e, data |-> FALSE] /\ o.conn.end = e
    BY <2>1
  <2>4. QED
    BY <1>1, <1>2, <2>2, <2>3
<1>5. CASE c.end # "rst" /\ ~ c.data
  <2>1. o = [ok |-> FALSE, conn |-> [end |-> "read", data |-> FALSE]]
    BY <1>5, Zenon DEF Recv
  <2>2. QED
    BY <1>2, <2>1
<1>6. QED
  BY <1>3, <1>4, <1>5

(* A peer leaves a connection, and revives none. *)
LEMMA PeerFacts ==
  ASSUME NEW c \in Conns, NEW d \in PeerSteps(c)
  PROVE  d \in Conns /\ (d.end \in {"open", "fin"} => c.end \in {"open", "fin"})
<1>1. Reset \in Conns /\ Reset.end = "rst"
  BY DEF Reset, Conns
<1>2. CASE c.end = "open"
  <2>1. \/ d = [c EXCEPT !.data = TRUE] \/ d = [c EXCEPT !.end = "fin"] \/ d = Reset
    BY <1>2 DEF PeerSteps
  <2>2. [c EXCEPT !.data = TRUE] \in Conns /\ [c EXCEPT !.end = "fin"] \in Conns
    BY DEF Conns
  <2>3. QED
    BY <1>1, <1>2, <2>1, <2>2
<1>3. CASE c.end # "open"
  BY <1>1, <1>3 DEF PeerSteps
<1>4. QED
  BY <1>2, <1>3

(* Replacing one connection of a sequence. *)
LEMMA Replace ==
  ASSUME NEW q \in Seq(Conns), NEW k \in DOMAIN q, NEW c \in Conns
  PROVE  /\ [q EXCEPT ![k] = c] \in Seq(Conns)
         /\ Len([q EXCEPT ![k] = c]) = Len(q)
         /\ DOMAIN [q EXCEPT ![k] = c] = DOMAIN q
         /\ \A j \in DOMAIN q : [q EXCEPT ![k] = c][j] = IF j = k THEN c ELSE q[j]
<1>1. DOMAIN q = 1 .. Len(q)
  BY LenProperties
<1>2. QED
  BY <1>1, ExceptSeq

(* Nothing is connected when the thread starts.                            *)
LEMMA InitInv == Init => Inv
<1> SUFFICES ASSUME Init PROVE Inv
  OBVIOUS
<1>1. TypeOK
  BY ConstFacts, EmptySeq DEF Init, TypeOK
<1>2. Phase
  BY DEF Init, Phase
<1>3. QED
  BY <1>1, <1>2 DEF Inv

-----------------------------------------------------------------------------
(* Creating the server empties the table.                                  *)
LEMMA CreateInv == ASSUME Inv, CreateTCPServer PROVE Inv'
<1> USE ConstFacts DEF Inv, CreateTCPServer
<1>1. TypeOK'
  BY DEF TypeOK
<1>2. Phase'
  BY DEF Phase, TypeOK
<1>3. QED
  BY <1>1, <1>2

(* select begins the walk over the table.                                  *)
LEMMA SelectInv == ASSUME Inv, Select PROVE Inv'
<1> USE ConstFacts DEF Inv, Select, table
<1>1. Ready \subseteq Fds \cup {LISTEN}
  BY DEF Ready, Watched, Phase
<1>2. LISTEN \in Ready => backlog # <<>>
  BY DEF Ready, Watched, Phase
<1>3. TypeOK'
  BY <1>1 DEF TypeOK
<1>4. Phase'
  BY <1>2 DEF Phase, TypeOK
<1>5. QED
  BY <1>3, <1>4

(* A round of the loop: the slot keeps its descriptor or is emptied, and   *)
(* the connection it receives from is replaced by what recv leaves.        *)
LEMMA ScanFacts ==
  ASSUME Inv, ScanSlot
  PROVE  /\ i \in Slots /\ i < SLOTS /\ pc # "create" /\ lan_client \in [Slots -> Fds \cup {NoFd}]
         /\ lan_client' \in {lan_client, [lan_client EXCEPT ![i] = NoFd]}
         /\ sock' \in Seq(Conns) /\ Len(sock') = Len(sock) /\ DOMAIN sock' = DOMAIN sock
         /\ \A k \in DOMAIN sock :
              sock'[k].end \in {"open", "fin"} =>
                /\ sock[k].end \in {"open", "fin"}
                /\ lan_client[i] = FdOf(k) => lan_client' = lan_client
         /\ client_connect_count' \in {client_connect_count, Decremented(client_connect_count)}
         /\ fdset' \subseteq fdset
<1> DEFINE f == lan_client[i]
           r == IF f = NoFd THEN {[ok |-> FALSE, conn |-> Reset]} ELSE Recv(Conn(f))
<1>1. /\ i \in Slots /\ i < SLOTS /\ pc # "create" /\ lan_client \in [Slots -> Fds \cup {NoFd}]
      /\ f \in Fds \cup {NoFd}
  BY ConstFacts DEF Inv, TypeOK, ScanSlot
<1>2. sock \in Seq(Conns) /\ (f # NoFd => Index(f) \in DOMAIN sock)
  BY <1>1 DEF Inv, Phase, TypeOK
<1>3. \A k \in DOMAIN sock : k \in Int /\ sock[k] \in Conns
  BY <1>2, LenProperties
<1>4. CASE Bit(f) \notin fdset
  BY <1>1, <1>2, <1>4 DEF ScanSlot
<1>5. CASE Bit(f) \in fdset
  <2>1. PICK o \in r :
          /\ sock' = IF f = NoFd THEN sock ELSE [sock EXCEPT ![f - FIRST + 1] = o.conn]
          /\ IF o.ok THEN UNCHANGED <<lan_client, client_connect_count, fdset>>
             ELSE /\ client_connect_count' = Decremented(client_connect_count)
                  /\ fdset' = fdset \ {Bit(f)}
                  /\ lan_client' = [lan_client EXCEPT ![i] = NoFd]
    BY <1>5 DEF ScanSlot
  <2>2. /\ lan_client' \in {lan_client, [lan_client EXCEPT ![i] = NoFd]}
        /\ client_connect_count' \in {client_connect_count, Decremented(client_connect_count)}
        /\ fdset' \subseteq fdset
    BY <2>1
  <2>3. CASE f = NoFd
    <3>1. sock' = sock
      BY <2>1, <2>3
    <3>2. \A k \in DOMAIN sock : f # FdOf(k)
      BY <1>2, <1>3, <2>3, LenProperties, ConstFacts DEF FdOf
    <3>3. QED
      BY <1>1, <1>2, <2>2, <3>1, <3>2
  <2>4. CASE f # NoFd
    <3>1. Index(f) \in DOMAIN sock /\ Conn(f) = sock[Index(f)] /\ Conn(f) \in Conns
      BY <1>2, <1>3, <2>4 DEF Index, Conn
    <3>2. o \in Recv(Conn(f)) /\ sock' = [sock EXCEPT ![Index(f)] = o.conn]
      BY <2>1, <2>4 DEF Index
    <3>3. /\ o.conn \in Conns /\ (~ o.ok => o.conn.end \in {"read", "rst"})
          /\ o.conn.end \in {"open", "fin"} => sock[Index(f)].end \in {"open", "fin"}
      BY <3>1, <3>2, RecvFacts
    <3>4. /\ sock' \in Seq(Conns) /\ Len(sock') = Len(sock) /\ DOMAIN sock' = DOMAIN sock
          /\ \A j \in DOMAIN sock : sock'[j] = IF j = Index(f) THEN o.conn ELSE sock[j]
      BY <1>2, <3>1, <3>2, <3>3, Replace
    <3>5. ASSUME NEW k \in DOMAIN sock, sock'[k].end \in {"open", "fin"}
          PROVE  /\ sock[k].end \in {"open", "fin"}
                 /\ f = FdOf(k) => lan_client' = lan_client
      <4>1. CASE k = Index(f)
        <5>1. o.ok
          BY <3>3, <3>4, <3>5, <4>1
        <5>2. QED
          BY <2>1, <3>3, <3>4, <3>5, <4>1, <5>1
      <4>2. CASE k # Index(f)
        <5>1. f # FdOf(k)
          BY <1>1, <1>3, <2>4, <4>2, ConstFacts DEF Index, FdOf
        <5>2. QED
          BY <3>4, <3>5, <4>2, <5>1
      <4>3. QED
        BY <4>1, <4>2
    <3>6. QED
      BY <1>1, <2>2, <3>4, <3>5
  <2>5. QED
    BY <2>3, <2>4
<1>6. QED
  BY <1>4, <1>5

(* Serving a slot changes that slot and its connection only.               *)
LEMMA ScanInv == ASSUME Inv, ScanSlot PROVE Inv'
<1> USE ConstFacts
<1>1. /\ i' = i + 1 /\ UNCHANGED <<TCPServerFd, over, max_sock, pc, new_fd, backlog>>
  BY DEF ScanSlot
<1>2. lan_client' \in [Slots -> Fds \cup {NoFd}]
  BY ScanFacts
<1>3. client_connect_count' \in - MAX_DOWN .. NUM_SOCKETS - 1
  BY ScanFacts DEF Decremented, Inv, TypeOK
<1>4. TypeOK'
  <2> i < SLOTS /\ fdset' \subseteq fdset
    BY ScanFacts
  <2>1. i' \in 0 .. SLOTS /\ fdset' \subseteq Fds \cup {LISTEN}
    BY <1>1 DEF Inv, TypeOK
  <2>2. sock' \in Seq(Conns) /\ Len(sock') + Len(backlog') <= MaxConns
    BY <1>1, ScanFacts DEF Inv, TypeOK
  <2>3. QED
    BY <1>1, <1>2, <1>3, <2>1, <2>2 DEF Inv, TypeOK
<1>5. \A s \in Slots : lan_client'[s] # NoFd => lan_client'[s] = lan_client[s]
  BY ScanFacts
<1>6. Phase'
  BY <1>1, <1>5, ScanFacts DEF Inv, Phase
<1>7. QED
  BY <1>4, <1>6 DEF Inv

(* Without a new client the walk ends at select.                           *)
LEMMA NoneWaitingInv == ASSUME Inv, NoneWaiting PROVE Inv'
<1> USE ConstFacts DEF Inv, NoneWaiting, ScanDone, table
<1>1. TypeOK'
  BY DEF TypeOK
<1>2. Phase'
  BY DEF Phase
<1>3. QED
  BY <1>1, <1>2

(* When the listening bit is set the backlog has a head. *)
LEMMA BacklogHead ==
  ASSUME Inv, ScanDone, TCPServerFd \in fdset
  PROVE  /\ backlog # <<>> /\ Head(backlog) \in Conns
         /\ Tail(backlog) \in Seq(Conns) /\ Len(Tail(backlog)) = Len(backlog) - 1
         /\ Len(backlog) \in Nat /\ Len(backlog) >= 1 /\ Len(sock) \in Nat
         /\ Len(sock) + Len(backlog) <= MaxConns /\ pc = "scan"
         /\ lan_client \in [Slots -> Fds \cup {NoFd}]
<1>1. backlog # <<>> /\ pc = "scan"
  BY DEF Inv, Phase, ScanDone
<1>2. backlog \in Seq(Conns) /\ sock \in Seq(Conns) /\ Len(sock) + Len(backlog) <= MaxConns
  BY DEF Inv, TypeOK
<1>3. lan_client \in [Slots -> Fds \cup {NoFd}]
  BY <1>1 DEF Inv, TypeOK
<1>4. QED
  BY <1>1, <1>2, <1>3, HeadTailProperties, EmptySeq, LenProperties

(* A failed accept takes the client from the backlog and no slot.          *)
LEMMA AcceptFailsInv == ASSUME Inv, AcceptFails PROVE Inv'
<1> USE ConstFacts DEF AcceptFails, table
<1>1. TypeOK'
  BY BacklogHead DEF Inv, TypeOK
<1>2. Phase'
  BY BacklogHead DEF Inv, Phase
<1>3. QED
  BY <1>1, <1>2 DEF Inv

(* An accepted connection gets the next descriptor. *)
LEMMA AcceptFacts ==
  ASSUME Inv, Accept
  PROVE  /\ FdOf(Len(sock) + 1) \in Fds /\ Index(FdOf(Len(sock) + 1)) = Len(sock) + 1
         /\ Len(sock) \in Nat /\ Len(sock) < MaxConns
         /\ sock' \in Seq(Conns) /\ Len(sock') = Len(sock) + 1
         /\ DOMAIN sock = 1 .. Len(sock) /\ DOMAIN sock' = 1 .. Len(sock) + 1
         /\ \A k \in DOMAIN sock : sock'[k] = sock[k]
         /\ backlog' \in Seq(Conns) /\ Len(backlog') = Len(backlog) - 1
<1>1. TCPServerFd \in fdset /\ ScanDone /\ sock \in Seq(Conns)
  BY DEF Accept, Inv, TypeOK
<1>2. sock' = Append(sock, Head(backlog)) /\ backlog' = Tail(backlog)
  BY DEF Accept
<1>3. Len(sock) \in Nat /\ Len(sock) < MaxConns
  BY <1>1, BacklogHead, ConstFacts
<1>4. FdOf(Len(sock) + 1) \in Fds /\ Index(FdOf(Len(sock) + 1)) = Len(sock) + 1
  BY <1>3, ConstFacts DEF FdOf, Index
<1>5. /\ sock' \in Seq(Conns) /\ Len(sock') = Len(sock) + 1
      /\ \A k \in 1 .. Len(sock) : sock'[k] = sock[k]
  BY <1>1, <1>2, BacklogHead, AppendProperties
<1>6. DOMAIN sock = 1 .. Len(sock) /\ DOMAIN sock' = 1 .. Len(sock) + 1
  BY <1>1, <1>5, LenProperties
<1>7. QED
  BY <1>1, <1>2, <1>3, <1>4, <1>5, <1>6, BacklogHead

(* An accepted client gets the next descriptor, and a slot, the place      *)
(* behind the table, or none.                                              *)
LEMMA AcceptInv == ASSUME Inv, Accept PROVE Inv'
<1> DEFINE f == FdOf(Len(sock) + 1)
<1>1. /\ pc = "scan" /\ pc' \in {"recv", "select"} /\ fdset' = {} /\ i' = 0
      /\ TCPServerFd' = TCPServerFd /\ new_fd' \in {f, new_fd} /\ (pc' = "recv" => new_fd' = f)
      /\ max_sock' \in {max_sock, f + 1}
  BY DEF Accept, ScanDone, table
<1>2. /\ \A s \in Slots : lan_client'[s] \in {lan_client[s], f}
      /\ lan_client' \in [Slots -> Fds \cup {NoFd}]
      /\ over' \in {over, f} /\ client_connect_count' \in {client_connect_count, f}
  <2>1. lan_client \in [Slots -> Fds \cup {NoFd}] /\ f \in Fds
    BY <1>1, AcceptFacts DEF Inv, TypeOK
  <2> HIDE DEF f
  <2>2. CASE Store(f)
    <3>1. CASE \E s \in Empty : /\ \A t \in Empty : s <= t
                                /\ lan_client' = [lan_client EXCEPT ![s] = f]
                                /\ UNCHANGED <<over, client_connect_count>>
      BY <2>1, <3>1 DEF Empty
    <3>2. CASE over' = f /\ UNCHANGED lan_client
               /\ client_connect_count' \in {client_connect_count, f}
      BY <2>1, <3>2
    <3>3. QED
      BY <2>2, <3>1, <3>2 DEF Store
  <2>3. CASE UNCHANGED table
    BY <2>1, <2>3 DEF table
  <2>4. QED
    BY <2>2, <2>3 DEF Accept, f
<1>3. f \in Fds /\ Index(f) \in DOMAIN sock' /\ DOMAIN sock \subseteq DOMAIN sock'
  BY AcceptFacts
<1>4. Len(sock') + Len(backlog') <= MaxConns
  BY AcceptFacts, BacklogHead DEF Accept
<1> HIDE DEF f
<1>5. TypeOK'
  <2>1. /\ over' \in Fds \cup {NoFd} /\ new_fd' \in Fds \cup {NoFd}
        /\ client_connect_count' \in - MAX_DOWN .. NUM_SOCKETS - 1
        /\ max_sock' \in 0 .. NUM_SOCKETS
    BY <1>1, <1>2, <1>3, ConstFacts DEF Inv, TypeOK
  <2>2. sock' \in Seq(Conns) /\ backlog' \in Seq(Conns)
    BY AcceptFacts
  <2>3. QED
    BY <1>1, <1>2, <1>4, <2>1, <2>2, ConstFacts DEF Inv, TypeOK
<1>6. Phase'
  BY <1>1, <1>2, <1>3, ConstFacts DEF Inv, Phase
<1>7. QED
  BY <1>5, <1>6 DEF Inv

(* The first recv replaces one connection by what recv leaves. *)
LEMMA RecvNewFacts ==
  ASSUME Inv, RecvNew
  PROVE  /\ sock' \in Seq(Conns) /\ Len(sock') = Len(sock) /\ DOMAIN sock' = DOMAIN sock
         /\ \A k \in DOMAIN sock :
              sock'[k].end \in {"open", "fin"} => sock[k].end \in {"open", "fin"}
<1>1. pc = "recv" /\ Index(new_fd) \in DOMAIN sock /\ sock \in Seq(Conns)
  BY DEF RecvNew, Inv, Phase, TypeOK
<1>2. sock[Index(new_fd)] \in Conns
  BY <1>1, LenProperties
<1>3. PICK o \in Recv(sock[Index(new_fd)]) : sock' = [sock EXCEPT ![Index(new_fd)] = o.conn]
  BY DEF RecvNew, Conn, Index
<1>4. /\ o.conn \in Conns
      /\ o.conn.end \in {"open", "fin"} => sock[Index(new_fd)].end \in {"open", "fin"}
  BY <1>2, <1>3, RecvFacts
<1>5. QED
  BY <1>1, <1>3, <1>4, Replace

(* The first recv of a new client changes its connection only.             *)
LEMMA RecvNewInv == ASSUME Inv, RecvNew PROVE Inv'
<1> USE ConstFacts DEF table
<1>1. /\ pc = "recv" /\ pc' = "select" /\ new_fd' = NoFd
      /\ UNCHANGED <<TCPServerFd, lan_client, over, client_connect_count, max_sock, fdset, i, backlog>>
  BY DEF RecvNew
<1>2. TypeOK'
  BY <1>1, RecvNewFacts DEF Inv, TypeOK
<1>3. Phase'
  BY <1>1, RecvNewFacts DEF Inv, Phase
<1>4. QED
  BY <1>2, <1>3 DEF Inv

(* A peer that connects joins the end of the backlog.                      *)
LEMMA ConnectInv == ASSUME Inv, Connect PROVE Inv'
<1> USE ConstFacts DEF table
<1>1. /\ UNCHANGED <<TCPServerFd, lan_client, over, client_connect_count, max_sock, pc, fdset, i,
                     new_fd, sock>>
      /\ TCPServerFd # NoFd /\ Len(sock) + Len(backlog) < MaxConns
  BY DEF Connect
<1>2. /\ backlog' \in Seq(Conns) /\ backlog' # <<>> /\ Len(backlog') = Len(backlog) + 1
      /\ Len(backlog) \in Nat /\ Len(sock) \in Nat
  <2>1. Fresh \in Conns
    BY DEF Fresh, Conns
  <2>2. backlog \in Seq(Conns) /\ sock \in Seq(Conns) /\ backlog' = Append(backlog, Fresh)
    BY DEF Connect, Inv, TypeOK
  <2>3. QED
    BY <2>1, <2>2, AppendProperties, LenProperties
<1>3. TypeOK'
  BY <1>1, <1>2 DEF Inv, TypeOK
<1>4. Phase'
  BY <1>1, <1>2 DEF Inv, Phase
<1>5. QED
  BY <1>3, <1>4 DEF Inv

(* What peers do changes no sequence's length and revives no connection. *)
LEMMA PeerActsFacts ==
  ASSUME Inv, PeerActs
  PROVE  /\ sock' \in Seq(Conns) /\ Len(sock') = Len(sock) /\ DOMAIN sock' = DOMAIN sock
         /\ \A k \in DOMAIN sock :
              sock'[k].end \in {"open", "fin"} => sock[k].end \in {"open", "fin"}
         /\ backlog' \in Seq(Conns) /\ Len(backlog') = Len(backlog)
<1>1. sock \in Seq(Conns) /\ backlog \in Seq(Conns)
  BY DEF Inv, TypeOK
<1>2. ASSUME NEW q \in Seq(Conns), NEW k \in DOMAIN q, NEW c \in PeerSteps(q[k])
      PROVE  /\ [q EXCEPT ![k] = c] \in Seq(Conns) /\ Len([q EXCEPT ![k] = c]) = Len(q)
             /\ DOMAIN [q EXCEPT ![k] = c] = DOMAIN q
             /\ \A j \in DOMAIN q :
                  [q EXCEPT ![k] = c][j].end \in {"open", "fin"} => q[j].end \in {"open", "fin"}
  <2>1. q[k] \in Conns
    BY LenProperties
  <2>2. c \in Conns /\ (c.end \in {"open", "fin"} => q[k].end \in {"open", "fin"})
    BY <2>1, PeerFacts
  <2>3. QED
    BY <2>2, Replace
<1>3. CASE UNCHANGED backlog /\
           \E k \in DOMAIN sock : \E c \in PeerSteps(sock[k]) : sock' = [sock EXCEPT ![k] = c]
  <2>1. PICK k \in DOMAIN sock : \E c \in PeerSteps(sock[k]) : sock' = [sock EXCEPT ![k] = c]
    BY <1>3
  <2>2. QED
    BY <1>1, <1>2, <1>3, <2>1
<1>4. CASE UNCHANGED sock /\
           \E k \in DOMAIN backlog :
             \E c \in PeerSteps(backlog[k]) : backlog' = [backlog EXCEPT ![k] = c]
  <2>1. PICK k \in DOMAIN backlog : \E c \in PeerSteps(backlog[k]) : backlog' = [backlog EXCEPT ![k] = c]
    BY <1>4
  <2>2. QED
    BY <1>1, <1>2, <1>4, <2>1
<1>5. QED
  BY <1>3, <1>4 DEF PeerActs

(* A peer that sends or ends changes its connection only.                  *)
LEMMA PeerActsInv == ASSUME Inv, PeerActs PROVE Inv'
<1> USE ConstFacts DEF table
<1>1. UNCHANGED <<TCPServerFd, lan_client, over, client_connect_count, max_sock, pc, fdset, i, new_fd>>
  BY DEF PeerActs
<1>2. TypeOK'
  BY <1>1, PeerActsFacts DEF Inv, TypeOK
<1>3. sock = <<>> => sock' = <<>>
  BY PeerActsFacts, EmptySeq DEF Inv, TypeOK
<1>4. (backlog = <<>> => backlog' = <<>>) /\ (backlog # <<>> => backlog' # <<>>)
  BY PeerActsFacts, EmptySeq DEF Inv, TypeOK
<1>5. Phase'
  BY <1>1, <1>3, <1>4, PeerActsFacts DEF Inv, Phase
<1>6. QED
  BY <1>2, <1>5 DEF Inv

(* Every step keeps the invariant.                                         *)
LEMMA NextInv == Inv /\ [Next]_vars => Inv'
<1> SUFFICES ASSUME Inv, [Next]_vars PROVE Inv'
  OBVIOUS
<1>1. CASE UNCHANGED vars
  BY <1>1 DEF vars, table, Inv, TypeOK, Phase
<1>2. QED
  BY <1>1, CreateInv, SelectInv, ScanInv, NoneWaitingInv, AcceptFailsInv, AcceptInv, RecvNewInv,
     ConnectInv, PeerActsInv DEF Next, Server

(* Every descriptor in the table is of a socket that exists, nobody is     *)
(* connected before the server listens, and a set listening bit stands     *)
(* for a connection that waits.                                            *)
THEOREM ServerInv == Spec => []Inv
  BY InitInv, NextInv, PTL DEF Spec

(* The server's variables keep their types, every descriptor it holds is   *)
(* one lwIP can have made, and lwIP makes no more than it has room for.    *)
THEOREM TcpTypeOK == Spec => []TypeOK
<1>1. Inv => TypeOK
  BY DEF Inv
<1>2. QED
  BY <1>1, ServerInv, PTL

-----------------------------------------------------------------------------
(* A full table holds as many descriptors as it has slots, all different.  *)
LEMMA FullTable ==
  ASSUME Inv, LiveKept, pc # "create", Empty = {}
  PROVE  Len(sock) >= SLOTS
<1>1. /\ lan_client \in [Slots -> Fds \cup {NoFd}] /\ \A s \in Slots : lan_client[s] # NoFd
      /\ \A s \in Slots : Index(lan_client[s]) \in DOMAIN sock
  BY DEF Inv, TypeOK, Phase, Empty
<1>2. Len(sock) \in Nat /\ DOMAIN sock = 1 .. Len(sock)
  BY LenProperties DEF Inv, TypeOK
<1> DEFINE T == 2 .. Len(sock) + 1
<1>3. lan_client \in [Slots -> T]
  BY <1>1, <1>2, ConstFacts, SMTT(40) DEF Index
<1>4. IsFiniteSet(T) /\ Cardinality(T) = Len(sock)
  <2>1. ASSUME NEW n \in Nat PROVE IsFiniteSet(2 .. n + 1) /\ Cardinality(2 .. n + 1) = n
    <3>1. /\ IsFiniteSet(2 .. n + 1)
          /\ Cardinality(2 .. n + 1) = IF 2 > n + 1 THEN 0 ELSE (n + 1) - 2 + 1
      BY FS_Interval
    <3>2. QED
      BY <3>1
  <2>2. QED
    BY <1>2, <2>1
<1>5. IsFiniteSet(Slots) /\ Cardinality(Slots) = SLOTS
  BY ConstFacts, FS_Interval
<1>6. SUFFICES ASSUME Len(sock) < SLOTS PROVE FALSE
  BY <1>2, ConstFacts
<1> HIDE DEF T
<1>7. \E s, t \in Slots : s # t /\ lan_client[s] = lan_client[t]
  BY <1>3, <1>4, <1>5, <1>6, FS_PigeonHole
<1>8. QED
  BY <1>1, <1>7 DEF LiveKept

(* At the start no client can have been lost.                              *)
LEMMA InitKept == Init => LiveKept /\ Behind
  BY DEF Init, LiveKept, Behind

(* The table is cleared only before the first client is accepted.          *)
LEMMA CreateKept ==
  ASSUME KeptInv, CreateTCPServer
  PROVE  LiveKept' /\ Behind'
<1>1. /\ lan_client' = [s \in Slots |-> NoFd] /\ sock' = <<>> /\ pc = "create"
      /\ UNCHANGED <<over, client_connect_count, sock>>
  BY DEF CreateTCPServer, KeptInv, Inv, Phase
<1>2. LiveKept'
  BY <1>1 DEF LiveKept
<1>3. Behind'
  BY <1>1 DEF Behind, KeptInv
<1>4. QED
  BY <1>2, <1>3

(* A step that leaves the table alone and revives no connection. *)
LEMMA QuietKept ==
  ASSUME KeptInv, UNCHANGED <<lan_client, over, client_connect_count>>,
         Len(sock') = Len(sock), DOMAIN sock' = DOMAIN sock, pc # "create",
         \A k \in DOMAIN sock : sock'[k].end \in {"open", "fin"} => sock[k].end \in {"open", "fin"}
  PROVE  LiveKept' /\ Behind'
<1>1. LiveKept'
  BY DEF KeptInv, LiveKept, InTable
<1>2. Behind'
  BY DEF KeptInv, Behind
<1>3. QED
  BY <1>1, <1>2

(* A slot is emptied only when recv has failed, and then its client's end  *)
(* has been read.                                                          *)
LEMMA ScanKept ==
  ASSUME KeptInv, ScanSlot
  PROVE  LiveKept' /\ Behind'
<1>1. Inv /\ over' = over
  BY DEF KeptInv, ScanSlot
<1>2. /\ i \in Slots /\ pc # "create" /\ DOMAIN sock' = DOMAIN sock /\ Len(sock') = Len(sock)
      /\ lan_client \in [Slots -> Fds \cup {NoFd}]
      /\ lan_client' \in {lan_client, [lan_client EXCEPT ![i] = NoFd]}
  BY <1>1, ScanFacts
<1>3. \A k \in DOMAIN sock : k \in Int /\ k >= 1
  BY <1>1, LenProperties DEF Inv, TypeOK
<1>4. ASSUME NEW k \in DOMAIN sock, sock'[k].end \in {"open", "fin"}
      PROVE  InTable(k)' \/ over' = FdOf(k)
  <2>1. sock[k].end \in {"open", "fin"} /\ (lan_client[i] = FdOf(k) => lan_client' = lan_client)
    BY <1>1, <1>4, ScanFacts
  <2>2. CASE over = FdOf(k)
    BY <1>1, <2>2
  <2>3. CASE over # FdOf(k)
    <3>1. PICK s \in Slots : lan_client[s] = FdOf(k)
      BY <1>2, <2>1, <2>3 DEF KeptInv, LiveKept, InTable
    <3>2. lan_client'[s] = FdOf(k)
      BY <1>2, <2>1, <3>1
    <3>3. QED
      BY <3>2 DEF InTable, FdOf
  <2>4. QED
    BY <2>2, <2>3
<1>5. ASSUME NEW s \in Slots, NEW t \in Slots, lan_client'[s] = lan_client'[t], s # t
      PROVE  lan_client'[s] = NoFd
  BY <1>2, <1>5 DEF KeptInv, LiveKept
<1>6. LiveKept'
  BY <1>2, <1>4, <1>5 DEF LiveKept
<1>7. client_connect_count' <= client_connect_count
  BY <1>1, ScanFacts, ConstFacts DEF Decremented, Inv, TypeOK
<1>8. client_connect_count \in Int /\ client_connect_count' \in Int
  BY <1>1, ScanInv, ConstFacts DEF Inv, TypeOK
<1>9. Behind'
  BY <1>1, <1>2, <1>7, <1>8 DEF KeptInv, Behind
<1>10. QED
  BY <1>6, <1>9

(* While a connection waits the last socket is not used up, so nothing is  *)
(* behind the table: the client is below the limit, and gets a slot, or is *)
(* the first to be written behind, with the last socket.                   *)
LEMMA AcceptKept ==
  ASSUME OneSpare, KeptInv, Accept
  PROVE  LiveKept' /\ Behind'
<1> DEFINE f == FdOf(Len(sock) + 1)
<1>1. Inv /\ ScanDone /\ TCPServerFd \in fdset
  BY DEF KeptInv, Accept
<1>2. /\ Len(sock) \in Nat /\ Len(sock) < MaxConns /\ pc = "scan" /\ pc # "create"
      /\ lan_client \in [Slots -> Fds \cup {NoFd}]
      /\ client_connect_count \in Int
  BY <1>1, BacklogHead, AcceptFacts, ConstFacts DEF Inv, TypeOK
<1>3. over = NoFd /\ client_connect_count <= 0
  BY <1>2, ConstFacts DEF KeptInv, Behind
<1>4. Store(f)
  BY <1>2, <1>3, ConstFacts DEF Accept
<1>5. /\ f \in Fds /\ f = Len(sock) + 2 /\ DOMAIN sock = 1 .. Len(sock)
      /\ DOMAIN sock' = 1 .. Len(sock) + 1 /\ Len(sock') = Len(sock) + 1
      /\ \A k \in DOMAIN sock : sock'[k] = sock[k]
  BY <1>1, AcceptFacts, ConstFacts DEF FdOf
<1>6. \A s \in Slots : lan_client[s] # f
  BY <1>1, <1>2, <1>5, ConstFacts DEF Inv, Phase, Index
<1>7. \A k \in DOMAIN sock' : k \in DOMAIN sock \/ FdOf(k) = f
  BY <1>2, <1>5
<1>8. \A k \in DOMAIN sock : sock'[k].end \in {"open", "fin"} => InTable(k)
  <2>1. \A k \in DOMAIN sock : FdOf(k) # NoFd
    BY <1>5, ConstFacts DEF FdOf
  <2>2. QED
    BY <1>2, <1>3, <1>5, <2>1 DEF KeptInv, LiveKept
<1> HIDE DEF f
<1>9. CASE \E s \in Empty : /\ lan_client' = [lan_client EXCEPT ![s] = f]
                            /\ UNCHANGED <<over, client_connect_count>>
  <2>1. PICK s \in Slots : /\ lan_client[s] = NoFd /\ lan_client' = [lan_client EXCEPT ![s] = f]
                           /\ UNCHANGED <<over, client_connect_count>>
    BY <1>9 DEF Empty
  <2>2. ASSUME NEW k \in DOMAIN sock', sock'[k].end \in {"open", "fin"}
        PROVE  InTable(k)'
    <3>1. CASE FdOf(k) = f
      BY <1>2, <2>1, <3>1 DEF InTable, FdOf
    <3>2. CASE k \in DOMAIN sock
      <4>1. PICK t \in Slots : lan_client[t] = FdOf(k)
        BY <1>8, <2>2, <3>2 DEF InTable
      <4>2. FdOf(k) # NoFd
        BY <1>2, <1>5, <3>2, ConstFacts DEF FdOf
      <4>3. lan_client'[t] = FdOf(k)
        BY <1>2, <2>1, <4>1, <4>2
      <4>4. QED
        BY <4>3 DEF InTable, FdOf
    <3>3. QED
      BY <1>7, <3>1, <3>2
  <2>3. \A a, b \in Slots : lan_client'[a] = lan_client'[b] /\ a # b => lan_client'[a] = NoFd
    BY <1>2, <1>6, <2>1 DEF KeptInv, LiveKept
  <2>4. LiveKept'
    BY <2>2, <2>3 DEF LiveKept
  <2>5. Behind'
    BY <1>3, <2>1 DEF Behind
  <2>6. QED
    BY <2>4, <2>5
<1>10. CASE Empty = {} /\ over' = f /\ UNCHANGED lan_client
  <2>1. Len(sock) >= SLOTS
    BY <1>1, <1>2, <1>10, FullTable DEF KeptInv
  <2>2. Len(sock') = MaxConns
    BY <1>2, <1>5, <2>1, ConstFacts DEF OneSpare
  <2>3. f # NoFd
    BY <1>2, <1>5, ConstFacts
  <2>4. Behind'
    BY <1>10, <2>2, <2>3 DEF Behind
  <2>5. ASSUME NEW k \in DOMAIN sock', sock'[k].end \in {"open", "fin"}
        PROVE  InTable(k)' \/ over' = FdOf(k)
    BY <1>7, <1>8, <1>10, <2>5 DEF InTable, FdOf
  <2>6. LiveKept'
    BY <1>2, <1>10, <2>5 DEF LiveKept, KeptInv
  <2>7. QED
    BY <2>4, <2>6
<1>11. QED
  BY <1>4, <1>9, <1>10 DEF Store

(* With at most one connection more than slots, every step keeps the       *)
(* clients that are there.                                                 *)
LEMMA NextKept == ASSUME OneSpare PROVE KeptInv /\ [Next]_vars => KeptInv'
<1> SUFFICES ASSUME KeptInv, [Next]_vars PROVE LiveKept' /\ Behind'
  BY NextInv DEF KeptInv
<1>0. Inv /\ (pc = "create" => sock = <<>> /\ TCPServerFd = NoFd /\ backlog = <<>>)
  BY DEF KeptInv, Inv, Phase
<1>1. CASE Select \/ NoneWaiting \/ AcceptFails
  <2>1. pc # "create" /\ UNCHANGED <<lan_client, over, client_connect_count, sock>>
    BY <1>1 DEF Select, NoneWaiting, AcceptFails, ScanDone, table
  <2>2. QED
    BY <2>1, QuietKept
<1>2. CASE RecvNew
  <2>1. pc # "create" /\ UNCHANGED <<lan_client, over, client_connect_count>>
    BY <1>2 DEF RecvNew, table
  <2>2. QED
    BY <1>0, <1>2, <2>1, QuietKept, RecvNewFacts
<1>3. CASE Connect
  <2>1. pc # "create" /\ UNCHANGED <<lan_client, over, client_connect_count, sock>>
    BY <1>0, <1>3 DEF Connect, table
  <2>2. QED
    BY <2>1, QuietKept
<1>4. CASE PeerActs
  <2>1. UNCHANGED <<lan_client, over, client_connect_count, pc>>
    BY <1>4 DEF PeerActs, table
  <2>2. CASE pc # "create"
    BY <1>0, <1>4, <2>1, <2>2, QuietKept, PeerActsFacts
  <2>3. CASE pc = "create"
    <3>1. LiveKept'
      BY <2>1, <2>3 DEF LiveKept
    <3>2. Behind'
      BY <1>0, <1>4, <2>1, PeerActsFacts DEF Behind, KeptInv
    <3>3. QED
      BY <3>1, <3>2
  <2>4. QED
    BY <2>2, <2>3
<1>5. CASE UNCHANGED vars
  BY <1>5 DEF vars, table, KeptInv, LiveKept, InTable, Behind
<1>6. QED
  BY <1>1, <1>2, <1>3, <1>4, <1>5, CreateKept, ScanKept, AcceptKept DEF Next, Server

(* Where lwIP has at most one client socket more than the table has slots, *)
(* as in the firmware, a client whose end the server has not read keeps    *)
(* its slot and no slot is shared.                                         *)
THEOREM TcpLiveKept == ASSUME OneSpare PROVE Spec => []LiveKept
<1>1. Init => KeptInv
  BY InitInv, InitKept DEF KeptInv
<1>2. KeptInv => LiveKept
  BY DEF KeptInv
<1>3. QED
  BY <1>1, <1>2, NextKept, PTL DEF Spec
=============================================================================
