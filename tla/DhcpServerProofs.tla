-------------------------- MODULE DhcpServerProofs --------------------------
(***************************************************************************)
(* Proofs about the DHCP server for every table size, every set of         *)
(* clients and every lease and offer time.  The theorems on addresses      *)
(* assume PoolDistinct, which DHCPS_Start establishes unless the pool      *)
(* wraps around the end of the subnet (PoolFits).                          *)
(***************************************************************************)
EXTENDS DhcpServer, WellFoundedInduction, TLAPS

(* Addresses of the pool are never 0. *)
LEMMA AroundType == \A h \in Nat : Around(h) \in Nat \ {0}
<1>1. HostMask \in Nat \ {0}
  BY TableAssumption
<1>2. \A h \in Nat : h % HostMask \in Nat
  BY <1>1
<1>3. QED
  BY <1>2 DEF Around

(* Every entry has an address, and never the address 0 of no client.       *)
LEMMA IpAddrType == \A i \in Entries : IpAddr(i) \in Nat \ {0}
<1>1. StartHost \in Nat
  BY TableAssumption, AroundType DEF StartHost
<1>2. \A i \in Entries : StartHost + i \in Nat
  BY <1>1 DEF Entries
<1>3. QED
  BY <1>2, AroundType DEF IpAddr

(* What a client may ask for is a number, pool address or not.             *)
LEMMA RequestedType == Requested \subseteq Nat
  BY IpAddrType, TableAssumption DEF Requested

(* First picks at most one entry of a set of entries. *)
LEMMA FirstFacts ==
  ASSUME NEW S, S \subseteq Entries
  PROVE  First(S) \subseteq S /\ \A i, j \in First(S) : i = j
<1>1. S \subseteq Int
  BY DEF Entries
<1>2. QED
  BY <1>1 DEF First

(* A client has at most one active entry, so the last one is the one.      *)
LEMMA LastMine ==
  ASSUME OneEntryPerClient, NEW m \in Macs
  PROVE  /\ Last(Mine(m)) = Mine(m) /\ Mine(m) \subseteq Entries
         /\ \A i, j \in Mine(m) : i = j
<1>1. Mine(m) \subseteq Entries /\ \A i, j \in Mine(m) : i = j
  BY DEF Mine, OneEntryPerClient
<1>2. \A i \in Mine(m) : i \in Int
  BY <1>1 DEF Entries
<1>3. QED
  BY <1>1, <1>2 DEF Last

-----------------------------------------------------------------------------
(* What every message has in common: the entries retired are the client's  *)
(* own, at most one entry is served, and it is idle or the client's.       *)
Sound(t, m, R, T) ==
  /\ R \subseteq Mine(m) /\ T \subseteq Mine(m) \cup Idle /\ R \cap T = {}
  /\ \A i, j \in T : i = j
  /\ T # {} => Mine(m) \subseteq T \cup R /\ t \in {"DISCOVER", "REQUEST"}

(* The entries a DISCOVER retires and picks are the client's own or free.  *)
LEMMA DiscoverSound ==
  ASSUME OneEntryPerClient, NEW m \in Macs, NEW a
  PROVE  Sound("DISCOVER", m, Retired("DISCOVER", m, a), DiscoverTarget(m, a))
<1>1. /\ Wanted(a) \subseteq Idle /\ History(m) \subseteq Idle /\ Fresh \subseteq Idle
      /\ Remembered \subseteq Idle /\ Idle \subseteq Entries /\ Idle \cap Mine(m) = {}
  BY DEF Wanted, History, Fresh, Remembered, Idle, Mine
<1>2. /\ First(Wanted(a)) \subseteq Idle /\ \A i, j \in First(Wanted(a)) : i = j
      /\ First(History(m)) \subseteq Idle /\ \A i, j \in First(History(m)) : i = j
      /\ First(Fresh) \subseteq Idle /\ \A i, j \in First(Fresh) : i = j
      /\ First(Remembered) \subseteq Idle /\ \A i, j \in First(Remembered) : i = j
  <2>1. /\ Wanted(a) \subseteq Entries /\ History(m) \subseteq Entries
        /\ Fresh \subseteq Entries /\ Remembered \subseteq Entries
    BY <1>1
  <2>2. QED
    BY <1>1, <2>1, FirstFacts
<1>3. /\ Last(Mine(m)) = Mine(m) /\ \A i, j \in Mine(m) : i = j
  BY LastMine
<1>4. CASE Wanted(a) # {}
  BY <1>1, <1>2, <1>3, <1>4 DEF Sound, Retired, DiscoverTarget
<1>5. CASE Wanted(a) = {} /\ Mine(m) # {}
  BY <1>3, <1>5 DEF Sound, Retired, DiscoverTarget
<1>6. CASE Wanted(a) = {} /\ Mine(m) = {}
  BY <1>1, <1>2, <1>6 DEF Sound, Retired, DiscoverTarget
<1>7. QED
  BY <1>4, <1>5, <1>6

(* So are those of a REQUEST, whoever it was addressed to.                 *)
LEMMA RequestSound ==
  ASSUME OneEntryPerClient, NEW m \in Macs, NEW a, NEW sid
  PROVE  Sound("REQUEST", m, Retired("REQUEST", m, a), RequestTarget(m, a, sid))
<1>1. /\ Wanted(a) \subseteq Idle /\ Idle \subseteq Entries /\ Idle \cap Mine(m) = {}
  BY DEF Wanted, Idle, Mine
<1>2. /\ First(Wanted(a)) \subseteq Idle /\ \A i, j \in First(Wanted(a)) : i = j
  <2>1. Wanted(a) \subseteq Entries
    BY <1>1
  <2>2. QED
    BY <1>1, <2>1, FirstFacts
<1>3. /\ Last(Mine(m)) = Mine(m) /\ \A i, j \in Mine(m) : i = j
  BY LastMine
<1>4. QED
  BY <1>1, <1>2, <1>3 DEF Sound, Retired, RequestTarget

(* RELEASE and DECLINE retire entries of their sender only.                *)
LEMMA GiveBackSound ==
  ASSUME OneEntryPerClient, NEW m \in Macs, NEW t \in {"RELEASE", "DECLINE"}
  PROVE  Sound(t, m, Retired(t, m, 0), {})
  BY LastMine DEF Sound, Retired

-----------------------------------------------------------------------------
(* A sound update keeps the table well typed and unambiguous. *)
LEMMA UpdateTableType ==
  ASSUME TypeOK, NEW m \in Macs, NEW t, NEW R, NEW T, UpdateTable(t, m, R, T)
  PROVE  /\ state' \in [Entries -> {"IDLE", "REQUEST", "BIND"}]
         /\ mac' \in [Entries -> Macs \cup {NoMac}]
         /\ timer' \in [Entries -> Nat]
  BY TableAssumption DEF TypeOK, UpdateTable

(* A sound update leaves every client one entry and one history.           *)
LEMMA UpdateTableOne ==
  ASSUME TypeOK, OneEntryPerClient, OneHistoryPerClient,
         NEW m \in Macs, NEW t, NEW R, NEW T, Sound(t, m, R, T),
         UpdateTable(t, m, R, T)
  PROVE  OneEntryPerClient' /\ OneHistoryPerClient'
<1> DEFINE bound == t = "REQUEST" /\ T # {}
<1>1. /\ R \subseteq Mine(m) /\ T \subseteq Mine(m) \cup Idle /\ R \cap T = {}
      /\ \A i, j \in T : i = j
      /\ T # {} => Mine(m) \subseteq T \cup R /\ t \in {"DISCOVER", "REQUEST"}
  BY DEF Sound
<1>2. \A i \in Entries :
        /\ i \in T => state'[i] = (IF bound THEN "BIND" ELSE "REQUEST") /\ mac'[i] = m
        /\ i \in R => state'[i] = "IDLE"
        /\ i \notin T /\ i \notin R => state'[i] = state[i]
        /\ i \notin T => mac'[i] = NoMac \/ mac'[i] = mac[i]
        /\ i \notin T /\ i \notin R /\ state[i] # "IDLE" => mac'[i] = mac[i]
        /\ i \in R /\ (t = "DISCOVER" \/ state[i] # "BIND") => mac'[i] = NoMac
        /\ i \notin T /\ bound /\ mac[i] = m /\ (i \in R \/ state[i] = "IDLE")
             => mac'[i] = NoMac
  BY <1>1 DEF UpdateTable, Forgets
<1>3. \A i \in Entries : i \in Mine(m) <=> state[i] # "IDLE" /\ mac[i] = m
  BY DEF Mine
<1>4. m # NoMac
  BY TableAssumption
<1> HIDE DEF bound
<1>5. OneEntryPerClient'
  <2>1. ASSUME NEW i \in Entries, state'[i] # "IDLE"
        PROVE  /\ mac'[i] \in Macs
               /\ i \notin T => state[i] # "IDLE" /\ mac'[i] = mac[i] /\ i \notin R
    BY <1>2, <2>1 DEF OneEntryPerClient
  <2>2. ASSUME NEW i \in Entries, NEW j \in Entries,
               state'[i] # "IDLE", state'[j] # "IDLE", mac'[i] = mac'[j]
        PROVE  i = j
    <3>1. CASE i \in T /\ j \in T
      BY <3>1, <1>1
    <3>2. CASE i \in T /\ j \notin T
      BY <3>2, <2>1, <2>2, <1>1, <1>2, <1>3
    <3>3. CASE i \notin T /\ j \in T
      BY <3>3, <2>1, <2>2, <1>1, <1>2, <1>3
    <3>4. CASE i \notin T /\ j \notin T
      BY <3>4, <2>1, <2>2 DEF OneEntryPerClient
    <3>5. QED
      BY <3>1, <3>2, <3>3, <3>4
  <2>3. QED
    BY <2>1, <2>2 DEF OneEntryPerClient
<1>6. OneHistoryPerClient'
  <2>1. SUFFICES ASSUME NEW i \in Entries, NEW j \in Entries, i # j,
                        state'[i] = "IDLE", mac'[i] # NoMac, mac'[j] = mac'[i]
                 PROVE  state'[j] = "REQUEST"
    BY DEF OneHistoryPerClient
  <2>2. i \notin T /\ mac'[i] = mac[i]
    BY <2>1, <1>2
  <2>3. CASE i \notin R
    <3>1. state[i] = "IDLE" /\ ~ (bound /\ mac[i] = m)
      BY <2>1, <2>2, <2>3, <1>2
    <3>2. CASE j \in T
      BY <3>1, <3>2, <2>1, <2>2, <1>2
    <3>3. CASE j \notin T
      <4>1. mac[j] = mac[i]
        BY <3>3, <2>1, <2>2, <1>2
      <4>2. state[j] = "REQUEST"
        BY <4>1, <3>1, <2>1, <2>2 DEF OneHistoryPerClient
      <4>3. j \notin R
        BY <4>2, <2>1, <1>2
      <4>4. QED
        BY <4>2, <4>3, <3>3, <1>2
    <3>4. QED
      BY <3>2, <3>3
  <2>4. CASE i \in R
    <3>1. state[i] = "BIND" /\ t # "DISCOVER" /\ ~ bound /\ mac[i] = m
      BY <2>1, <2>2, <2>4, <1>1, <1>2, <1>3
    <3>2. j \notin T
      BY <3>1, <1>1 DEF bound
    <3>3. mac[j] = m
      BY <3>1, <3>2, <2>1, <2>2, <1>2
    <3>4. state[j] = "IDLE"
      BY <3>1, <3>3, <2>1 DEF OneEntryPerClient
    <3>5. QED
      BY <3>1, <3>3, <3>4, <2>1, <1>4 DEF OneHistoryPerClient
  <2>5. QED
    BY <2>3, <2>4
<1>7. QED
  BY <1>5, <1>6
-----------------------------------------------------------------------------
(* The client's last ACK, its table entry and the reply to a message.      *)

(* The address put into a reply is that of the one entry picked.           *)
LEMMA TheIpFacts ==
  ASSUME NEW T, T \subseteq Entries, T # {}, \A i, j \in T : i = j
  PROVE  \E i \in T : T = {i} /\ TheIp(T) = IpAddr(i) /\ TheIp(T) \in Nat \ {0}
<1>1. PICK i \in T : TRUE
  OBVIOUS
<1>2. T = {i}
  BY <1>1
<1>3. (CHOOSE k \in T : TRUE) = i
  BY <1>2
<1>4. QED
  BY <1>1, <1>2, <1>3, IpAddrType DEF TheIp

(* A message leaves the bound entries of the other clients alone. *)
LEMMA OthersKept ==
  ASSUME NEW m \in Macs, NEW t, NEW R, NEW T, Sound(t, m, R, T),
         UpdateTable(t, m, R, T),
         NEW i \in Entries, state[i] = "BIND", mac[i] # m
  PROVE  state'[i] = "BIND" /\ mac'[i] = mac[i]
<1>1. i \notin R /\ i \notin T
  BY DEF Sound, Mine, Idle
<1>2. QED
  BY <1>1 DEF UpdateTable

(* A sound message after which the client keeps an address only if its     *)
(* entry stays bound preserves GrantRemembered.                            *)
LEMMA AnswerGrants ==
  ASSUME TypeOK, GrantRemembered, GrantedOnAir,
         NEW m \in Macs, NEW t, NEW a, NEW R, NEW T, NEW r, NEW ok \in BOOLEAN,
         Sound(t, m, R, T), UpdateTable(t, m, R, T), Answer(t, m, a, r, ok),
         onair' = onair,
         r.type = "ACK" => t = "REQUEST" /\ T # {} /\ r.ip = TheIp(T),
         (granted[m] # 0 /\ ~ GivesUp(t, m, a)) => R = {} /\ T \subseteq Mine(m) /\ t = "REQUEST"
  PROVE  GrantRemembered' /\ GrantedOnAir'
<1>1. granted \in [Macs -> Nat]
  BY DEF TypeOK
<1>2. \A n \in Macs : n # m => granted'[n] = granted[n]
  BY <1>1 DEF Answer
<1>3. \/ granted'[m] = 0
      \/ r.type = "ACK" /\ m \in onair /\ granted'[m] = r.ip
      \/ granted'[m] = granted[m] /\ ~ GivesUp(t, m, a)
  BY <1>1 DEF Answer
<1>4. GrantedOnAir'
  BY <1>2, <1>3 DEF GrantedOnAir
<1>5. T \subseteq Entries /\ \A i, j \in T : i = j
  BY DEF Sound, Mine, Idle
<1>6. ASSUME NEW n \in Macs, n # m, granted'[n] # 0
      PROVE  \E i \in Entries : state'[i] = "BIND" /\ mac'[i] = n /\ IpAddr(i) = granted'[n]
  <2>1. PICK i \in Entries : state[i] = "BIND" /\ mac[i] = n /\ IpAddr(i) = granted[n]
    BY <1>2, <1>6 DEF GrantRemembered
  <2>2. state'[i] = "BIND" /\ mac'[i] = n
    BY <2>1, <1>6, OthersKept
  <2>3. QED
    BY <2>1, <2>2, <1>2, <1>6
<1>7. ASSUME granted'[m] # 0
      PROVE  \E i \in Entries : state'[i] = "BIND" /\ mac'[i] = m /\ IpAddr(i) = granted'[m]
  <2>1. CASE r.type = "ACK" /\ granted'[m] = r.ip
    <3>1. T # {} /\ t = "REQUEST" /\ r.ip = TheIp(T)
      BY <2>1
    <3>2. PICK i \in T : TheIp(T) = IpAddr(i)
      BY <3>1, <1>5, TheIpFacts
    <3>3. i \in Entries /\ state'[i] = "BIND" /\ mac'[i] = m
      BY <3>1, <3>2, <1>5 DEF UpdateTable
    <3>4. QED
      BY <2>1, <3>1, <3>2, <3>3
  <2>2. CASE granted'[m] = granted[m] /\ ~ GivesUp(t, m, a)
    <3>1. R = {} /\ T \subseteq Mine(m) /\ t = "REQUEST"
      BY <1>7, <2>2
    <3>2. PICK i \in Entries : state[i] = "BIND" /\ mac[i] = m /\ IpAddr(i) = granted[m]
      BY <1>7, <2>2 DEF GrantRemembered
    <3>3. state'[i] = "BIND" /\ mac'[i] = m
      BY <3>1, <3>2 DEF UpdateTable
    <3>4. QED
      BY <2>2, <3>2, <3>3
  <2>3. QED
    BY <1>3, <1>7, <2>1, <2>2
<1>8. QED
  BY <1>4, <1>6, <1>7 DEF GrantRemembered

(* A REQUEST for the address the client has, or for none, takes nothing    *)
(* away from it; this is where the pool must not hold an address twice.    *)
LEMMA RequestKeeps ==
  ASSUME PoolDistinct, TypeOK, OneEntryPerClient, GrantRemembered,
         NEW m \in Macs, NEW a, NEW sid, granted[m] # 0, ~ GivesUp("REQUEST", m, a)
  PROVE  /\ Retired("REQUEST", m, a) = {}
         /\ RequestTarget(m, a, sid) \subseteq Mine(m)
<1>1. a \in {0, granted[m]}
  BY DEF GivesUp
<1>2. PICK i \in Entries : state[i] = "BIND" /\ mac[i] = m /\ IpAddr(i) = granted[m]
  BY DEF GrantRemembered
<1>3. \A j \in Entries : IpAddr(j) = a => j = i
  BY <1>1, <1>2, IpAddrType DEF PoolDistinct
<1>4. Wanted(a) = {}
  BY <1>2, <1>3 DEF Wanted, Idle
<1>5. ~ Unavailable(m, a)
  BY <1>2, <1>3 DEF Unavailable
<1>6. QED
  BY <1>4, <1>5, LastMine DEF Retired, RequestTarget

(* The history variables keep their types. *)
LEMMA AnswerType ==
  ASSUME TypeOK, NEW m \in Macs, NEW a \in Nat, NEW ok \in BOOLEAN,
         NEW t \in {"DISCOVER", "REQUEST", "RELEASE", "DECLINE", "INFORM"},
         NEW r \in [type : {"NONE", "OFFER", "ACK", "NAK"}, to : Macs \cup {NoMac}, ip : Nat],
         Answer(t, m, a, r, ok)
  PROVE  /\ granted' \in [Macs -> Nat]
         /\ rcvd' \in [type : {"NONE", "DISCOVER", "REQUEST", "RELEASE", "DECLINE", "INFORM"},
                        from : Macs \cup {NoMac}, req : Nat]
         /\ sent' \in [type : {"NONE", "OFFER", "ACK", "NAK"}, to : Macs \cup {NoMac}, ip : Nat]
<1>1. granted' \in [Macs -> Nat]
  BY DEF TypeOK, Answer
<1>2. rcvd' \in [type : {"NONE", "DISCOVER", "REQUEST", "RELEASE", "DECLINE", "INFORM"},
                 from : Macs \cup {NoMac}, req : Nat]
  BY DEF Answer, Message
<1>3. sent' \in [type : {"NONE", "OFFER", "ACK", "NAK"}, to : Macs \cup {NoMac}, ip : Nat]
  BY DEF Answer, NoReply, Reply
<1>4. QED
  BY <1>1, <1>2, <1>3

(* TypeOK, OneEntryPerClient and OneHistoryPerClient hold whatever the     *)
(* pool's addresses; the part on grants needs PoolDistinct.                *)
TableInv == TypeOK /\ OneEntryPerClient /\ OneHistoryPerClient
GrantInv == GrantRemembered /\ GrantedOnAir

(* A DISCOVER keeps the table and, since it sends no ACK, the grants.      *)
LEMMA DiscoverStep ==
  ASSUME TableInv, NEW m \in Macs, NEW a \in Requested, NEW ok \in BOOLEAN,
         Discover(m, a, ok)
  PROVE  TableInv' /\ (GrantInv => GrantInv')
<1> DEFINE T == DiscoverTarget(m, a)
           R == Retired("DISCOVER", m, a)
           r == IF T = {} THEN Reply("NAK", m, 0) ELSE Reply("OFFER", m, TheIp(T))
<1>1. TypeOK /\ OneEntryPerClient /\ OneHistoryPerClient
  BY DEF TableInv
<1>2. /\ UpdateTable("DISCOVER", m, R, T) /\ Answer("DISCOVER", m, a, r, ok)
      /\ onair' = onair /\ enabled' = enabled
  BY DEF Discover
<1>3. Sound("DISCOVER", m, R, T)
  BY <1>1, DiscoverSound
<1>4. T \subseteq Entries /\ \A i, j \in T : i = j
  BY <1>3 DEF Sound, Mine, Idle
<1>5. /\ r \in [type : {"NONE", "OFFER", "ACK", "NAK"}, to : Macs \cup {NoMac}, ip : Nat]
      /\ r.type # "ACK"
  <2>1. T # {} => TheIp(T) \in Nat
    BY <1>4, TheIpFacts
  <2>2. QED
    BY <2>1 DEF Reply
<1>6. GivesUp("DISCOVER", m, a)
  BY DEF GivesUp
<1>7. a \in Nat
  BY RequestedType
<1> HIDE DEF T, R, r
<1>8. TypeOK'
  <2>1. /\ state' \in [Entries -> {"IDLE", "REQUEST", "BIND"}]
        /\ mac' \in [Entries -> Macs \cup {NoMac}]
        /\ timer' \in [Entries -> Nat]
    BY <1>1, <1>2, UpdateTableType
  <2>2. /\ granted' \in [Macs -> Nat]
        /\ rcvd' \in [type : {"NONE", "DISCOVER", "REQUEST", "RELEASE", "DECLINE", "INFORM"},
                       from : Macs \cup {NoMac}, req : Nat]
        /\ sent' \in [type : {"NONE", "OFFER", "ACK", "NAK"}, to : Macs \cup {NoMac}, ip : Nat]
    BY <1>1, <1>2, <1>5, <1>7, AnswerType
  <2>3. QED
    BY <1>1, <1>2, <2>1, <2>2 DEF TypeOK
<1>9. OneEntryPerClient' /\ OneHistoryPerClient'
  BY <1>1, <1>2, <1>3, UpdateTableOne
<1>10. ASSUME GrantInv PROVE GrantInv'
  BY <1>1, <1>2, <1>3, <1>5, <1>6, <1>10, AnswerGrants DEF GrantInv
<1>11. QED
  BY <1>8, <1>9, <1>10 DEF TableInv

(* A REQUEST keeps the table; with distinct addresses also the grants:     *)
(* the ACK names the entry that becomes active.                            *)
LEMMA RequestStep ==
  ASSUME TableInv, NEW m \in Macs, NEW a \in Requested, NEW sid \in ServerIds,
         NEW ok \in BOOLEAN, Request(m, a, sid, ok)
  PROVE  TableInv' /\ (PoolDistinct /\ GrantInv => GrantInv')
<1> DEFINE T == RequestTarget(m, a, sid)
           R == Retired("REQUEST", m, a)
           r == IF T = {} THEN Reply("NAK", m, 0) ELSE Reply("ACK", m, TheIp(T))
<1>1. TypeOK /\ OneEntryPerClient /\ OneHistoryPerClient
  BY DEF TableInv
<1>2. /\ UpdateTable("REQUEST", m, R, T) /\ Answer("REQUEST", m, a, r, ok)
      /\ onair' = onair /\ enabled' = enabled
  BY DEF Request
<1>3. Sound("REQUEST", m, R, T)
  BY <1>1, RequestSound
<1>4. T \subseteq Entries /\ \A i, j \in T : i = j
  BY <1>3 DEF Sound, Mine, Idle
<1>5. /\ r \in [type : {"NONE", "OFFER", "ACK", "NAK"}, to : Macs \cup {NoMac}, ip : Nat]
      /\ r.type = "ACK" => T # {} /\ r.ip = TheIp(T)
  <2>1. T # {} => TheIp(T) \in Nat
    BY <1>4, TheIpFacts
  <2>2. QED
    BY <2>1 DEF Reply
<1>6. a \in Nat
  BY RequestedType
<1>7. ASSUME PoolDistinct, GrantInv
      PROVE  (granted[m] # 0 /\ ~ GivesUp("REQUEST", m, a)) => R = {} /\ T \subseteq Mine(m)
  BY <1>1, <1>7, RequestKeeps DEF GrantInv
<1> HIDE DEF T, R, r
<1>8. TypeOK'
  <2>1. /\ state' \in [Entries -> {"IDLE", "REQUEST", "BIND"}]
        /\ mac' \in [Entries -> Macs \cup {NoMac}]
        /\ timer' \in [Entries -> Nat]
    BY <1>1, <1>2, UpdateTableType
  <2>2. /\ granted' \in [Macs -> Nat]
        /\ rcvd' \in [type : {"NONE", "DISCOVER", "REQUEST", "RELEASE", "DECLINE", "INFORM"},
                       from : Macs \cup {NoMac}, req : Nat]
        /\ sent' \in [type : {"NONE", "OFFER", "ACK", "NAK"}, to : Macs \cup {NoMac}, ip : Nat]
    BY <1>1, <1>2, <1>5, <1>6, AnswerType
  <2>3. QED
    BY <1>1, <1>2, <2>1, <2>2 DEF TypeOK
<1>9. OneEntryPerClient' /\ OneHistoryPerClient'
  BY <1>1, <1>2, <1>3, UpdateTableOne
<1>10. ASSUME PoolDistinct, GrantInv PROVE GrantInv'
  BY <1>1, <1>2, <1>3, <1>5, <1>7, <1>10, AnswerGrants DEF GrantInv
<1>11. QED
  BY <1>8, <1>9, <1>10 DEF TableInv

(* A client that gives back its address loses entry and grant together.    *)
LEMMA GiveBackStep ==
  ASSUME TableInv, NEW m \in Macs, NEW t \in {"RELEASE", "DECLINE"}, GiveBack(t, m)
  PROVE  TableInv' /\ (GrantInv => GrantInv')
<1> DEFINE R == Retired(t, m, 0)
<1>1. TypeOK /\ OneEntryPerClient /\ OneHistoryPerClient
  BY DEF TableInv
<1>2. /\ UpdateTable(t, m, R, {}) /\ Answer(t, m, 0, NoReply, TRUE)
      /\ onair' = onair /\ enabled' = enabled
  BY DEF GiveBack
<1>3. Sound(t, m, R, {})
  BY <1>1, GiveBackSound
<1>4. /\ NoReply \in [type : {"NONE", "OFFER", "ACK", "NAK"}, to : Macs \cup {NoMac}, ip : Nat]
      /\ NoReply.type # "ACK"
  BY DEF NoReply, Reply
<1>5. GivesUp(t, m, 0)
  BY DEF GivesUp
<1> HIDE DEF R
<1>6. TypeOK'
  <2>1. /\ state' \in [Entries -> {"IDLE", "REQUEST", "BIND"}]
        /\ mac' \in [Entries -> Macs \cup {NoMac}]
        /\ timer' \in [Entries -> Nat]
    BY <1>1, <1>2, UpdateTableType
  <2>2. /\ granted' \in [Macs -> Nat]
        /\ rcvd' \in [type : {"NONE", "DISCOVER", "REQUEST", "RELEASE", "DECLINE", "INFORM"},
                       from : Macs \cup {NoMac}, req : Nat]
        /\ sent' \in [type : {"NONE", "OFFER", "ACK", "NAK"}, to : Macs \cup {NoMac}, ip : Nat]
    <3>1. ASSUME NEW ok \in BOOLEAN, NEW a \in Nat, Answer(t, m, a, NoReply, ok)
          PROVE  /\ granted' \in [Macs -> Nat]
                 /\ rcvd' \in [type : {"NONE", "DISCOVER", "REQUEST", "RELEASE", "DECLINE", "INFORM"},
                                from : Macs \cup {NoMac}, req : Nat]
                 /\ sent' \in [type : {"NONE", "OFFER", "ACK", "NAK"}, to : Macs \cup {NoMac}, ip : Nat]
      BY <1>1, <1>4, <3>1, AnswerType
    <3>2. TRUE \in BOOLEAN /\ 0 \in Nat
      OBVIOUS
    <3>3. QED
      BY <1>2, <3>1, <3>2
  <2>3. QED
    BY <1>1, <1>2, <2>1, <2>2 DEF TypeOK
<1>7. OneEntryPerClient' /\ OneHistoryPerClient'
  BY <1>1, <1>2, <1>3, UpdateTableOne
<1>8. ASSUME GrantInv PROVE GrantInv'
  BY <1>1, <1>2, <1>3, <1>4, <1>5, <1>8, AnswerGrants DEF GrantInv
<1>9. QED
  BY <1>6, <1>7, <1>8 DEF TableInv

(* INFORM and other types change no entry; a NAK only ends a grant.        *)
LEMMA OtherTypeStep ==
  ASSUME TableInv, NEW m \in Macs, NEW ok \in BOOLEAN, OtherType(m, ok)
  PROVE  TableInv' /\ (GrantInv => GrantInv')
<1> DEFINE r == Reply("NAK", m, 0)
<1>1. TypeOK /\ OneEntryPerClient /\ OneHistoryPerClient
  BY DEF TableInv
<1>2. /\ Answer("INFORM", m, 0, r, ok) /\ enabled' = enabled /\ onair' = onair
      /\ state' = state /\ mac' = mac /\ timer' = timer
  BY DEF OtherType
<1>3. /\ r \in [type : {"NONE", "OFFER", "ACK", "NAK"}, to : Macs \cup {NoMac}, ip : Nat]
      /\ r.type = "NAK"
  BY DEF Reply
<1> HIDE DEF r
<1>4. TypeOK'
  <2>1. /\ granted' \in [Macs -> Nat]
        /\ rcvd' \in [type : {"NONE", "DISCOVER", "REQUEST", "RELEASE", "DECLINE", "INFORM"},
                       from : Macs \cup {NoMac}, req : Nat]
        /\ sent' \in [type : {"NONE", "OFFER", "ACK", "NAK"}, to : Macs \cup {NoMac}, ip : Nat]
    BY <1>1, <1>2, <1>3, AnswerType
  <2>2. QED
    BY <1>1, <1>2, <2>1 DEF TypeOK
<1>5. OneEntryPerClient' /\ OneHistoryPerClient'
  BY <1>1, <1>2 DEF OneEntryPerClient, OneHistoryPerClient
<1>6. \A n \in Macs : granted'[n] = granted[n] \/ granted'[n] = 0
  BY <1>1, <1>2, <1>3 DEF Answer, TypeOK
<1>7. ASSUME GrantInv PROVE GrantInv'
  BY <1>2, <1>6, <1>7 DEF GrantInv, GrantRemembered, GrantedOnAir
<1>8. QED
  BY <1>4, <1>5, <1>7 DEF TableInv

-----------------------------------------------------------------------------
(* Steps that handle no message. *)

(* A step without a message clears both message variables.                 *)
LEMMA QuietType ==
  ASSUME Quiet
  PROVE  /\ rcvd' \in [type : {"NONE", "DISCOVER", "REQUEST", "RELEASE", "DECLINE", "INFORM"},
                        from : Macs \cup {NoMac}, req : Nat]
         /\ sent' \in [type : {"NONE", "OFFER", "ACK", "NAK"}, to : Macs \cup {NoMac}, ip : Nat]
  BY DEF Quiet, NoMessage, NoReply, Message, Reply

(* The tick: an expired offer is forgotten, an expired or deserted lease   *)
(* is remembered, and nobody loses an address without being told so.       *)
LEMMA TickStep ==
  ASSUME TableInv, Tick
  PROVE  TableInv' /\ (GrantInv => GrantInv')
<1> DEFINE ended == OfferEnds \cup LeaseEnds \cup Deserted
<1>1. TypeOK /\ OneEntryPerClient /\ OneHistoryPerClient
  BY DEF TableInv
<1>2. /\ \A i \in OfferEnds : i \in Entries /\ state[i] = "REQUEST"
      /\ \A i \in LeaseEnds : i \in Entries /\ state[i] = "BIND"
      /\ \A i \in Deserted : i \in Entries /\ state[i] = "BIND" /\ mac[i] \notin onair
  BY DEF OfferEnds, LeaseEnds, Deserted
<1>3. /\ \A i \in Entries : state'[i] = IF i \in ended THEN "IDLE" ELSE state[i]
      /\ \A i \in Entries : mac'[i] = IF i \in OfferEnds THEN NoMac ELSE mac[i]
      /\ \A m \in Macs : granted'[m] = IF \E i \in LeaseEnds : mac[i] = m THEN 0 ELSE granted[m]
      /\ Quiet /\ enabled' = enabled /\ onair' = onair
  BY DEF Tick
<1>4. TypeOK'
  <2>1. /\ state' \in [Entries -> {"IDLE", "REQUEST", "BIND"}]
        /\ mac' \in [Entries -> Macs \cup {NoMac}]
        /\ timer' \in [Entries -> Nat]
        /\ granted' \in [Macs -> Nat]
    BY <1>1 DEF Tick, TypeOK
  <2>2. QED
    BY <1>1, <1>3, <2>1, QuietType DEF TypeOK
<1> HIDE DEF ended
<1>5. \A i \in Entries : i \in ended <=> i \in OfferEnds \/ i \in LeaseEnds \/ i \in Deserted
  BY DEF ended
<1>6. OneEntryPerClient'
  BY <1>1, <1>3, <1>5 DEF OneEntryPerClient
<1>7. OneHistoryPerClient'
  <2>1. SUFFICES ASSUME NEW i \in Entries, NEW j \in Entries, i # j,
                        state'[i] = "IDLE", mac'[i] # NoMac, mac'[j] = mac'[i]
                 PROVE  state'[j] = "REQUEST"
    BY DEF OneHistoryPerClient
  <2>2. i \notin OfferEnds /\ j \notin OfferEnds /\ mac[j] = mac[i] /\ mac[i] # NoMac
    BY <2>1, <1>3
  <2>3. state[i] = "IDLE" \/ state[i] = "BIND"
    BY <2>1, <2>2, <1>2, <1>3, <1>5
  <2>4. state[j] = "REQUEST"
    <3>1. CASE state[i] = "IDLE"
      BY <3>1, <2>1, <2>2, <1>1 DEF OneHistoryPerClient
    <3>2. CASE state[i] = "BIND"
      <4>1. state[j] = "IDLE"
        BY <3>2, <2>1, <2>2, <1>1 DEF OneEntryPerClient
      <4>2. QED
        BY <4>1, <3>2, <2>1, <2>2, <1>1 DEF OneHistoryPerClient
    <3>3. QED
      BY <3>1, <3>2, <2>3
  <2>5. QED
    BY <2>2, <2>4, <1>2, <1>3, <1>5
<1>8. ASSUME GrantInv PROVE GrantInv'
  <2>1. GrantedOnAir'
    BY <1>3, <1>8 DEF GrantInv, GrantedOnAir
  <2>2. ASSUME NEW m \in Macs, granted'[m] # 0
        PROVE  \E i \in Entries : state'[i] = "BIND" /\ mac'[i] = m /\ IpAddr(i) = granted'[m]
    <3>1. granted[m] # 0 /\ granted'[m] = granted[m] /\ ~ \E i \in LeaseEnds : mac[i] = m
      BY <1>3, <2>2
    <3>2. PICK i \in Entries : state[i] = "BIND" /\ mac[i] = m /\ IpAddr(i) = granted[m]
      BY <3>1, <1>8 DEF GrantInv, GrantRemembered
    <3>3. m \in onair
      BY <3>1, <1>8 DEF GrantInv, GrantedOnAir
    <3>4. i \notin OfferEnds /\ i \notin LeaseEnds /\ i \notin Deserted
      BY <3>1, <3>2, <3>3, <1>2
    <3>5. QED
      BY <3>1, <3>2, <3>4, <1>3, <1>5
  <2>3. QED
    BY <2>1, <2>2 DEF GrantInv, GrantRemembered
<1>9. QED
  BY <1>4, <1>6, <1>7, <1>8 DEF TableInv

(* Deleting a client ends its entries and nobody else's.                   *)
LEMMA ClientDeleteStep ==
  ASSUME TableInv, NEW m \in Macs, ClientDelete(m)
  PROVE  TableInv' /\ (GrantInv => GrantInv')
<1> DEFINE D == {i \in First(Mine(m)) : state[i] = "BIND"}
<1>1. TypeOK /\ OneEntryPerClient /\ OneHistoryPerClient
  BY DEF TableInv
<1>2. \A i \in D : i \in Entries /\ state[i] = "BIND" /\ mac[i] = m
  BY DEF First, Mine
<1>3. /\ state' = [i \in Entries |-> IF i \in D THEN "IDLE" ELSE state[i]]
      /\ timer' = [i \in Entries |-> IF i \in D THEN 0 ELSE timer[i]]
      /\ granted' = [granted EXCEPT ![m] = 0]
      /\ mac' = mac /\ onair' = onair /\ enabled' = enabled /\ Quiet
  BY DEF ClientDelete
<1> HIDE DEF D
<1>4. TypeOK'
  BY <1>1, <1>3, QuietType DEF TypeOK
<1>5. OneEntryPerClient'
  BY <1>1, <1>3 DEF OneEntryPerClient
<1>6. OneHistoryPerClient'
  <2>1. SUFFICES ASSUME NEW i \in Entries, NEW j \in Entries, i # j,
                        state'[i] = "IDLE", mac[i] # NoMac, mac[j] = mac[i]
                 PROVE  state'[j] = "REQUEST"
    BY <1>3 DEF OneHistoryPerClient
  <2>2. CASE i \in D
    <3>1. state[j] = "IDLE"
      BY <1>1, <1>2, <2>1, <2>2 DEF OneEntryPerClient
    <3>2. QED
      BY <1>1, <1>2, <2>1, <2>2, <3>1 DEF OneHistoryPerClient
  <2>3. CASE i \notin D
    <3>1. state[i] = "IDLE"
      BY <1>3, <2>1, <2>3
    <3>2. state[j] = "REQUEST"
      BY <1>1, <2>1, <3>1 DEF OneHistoryPerClient
    <3>3. QED
      BY <1>2, <1>3, <3>2
  <2>4. QED
    BY <2>2, <2>3
<1>7. ASSUME GrantInv PROVE GrantInv'
  <2>1. \A n \in Macs : granted'[n] = IF n = m THEN 0 ELSE granted[n]
    BY <1>1, <1>3 DEF TypeOK
  <2>2. \A i \in Entries : mac[i] # m => state'[i] = state[i]
    BY <1>2, <1>3
  <2>3. QED
    BY <1>3, <1>7, <2>1, <2>2 DEF GrantInv, GrantRemembered, GrantedOnAir
<1>8. QED
  BY <1>4, <1>5, <1>6, <1>7 DEF TableInv

(* Start and stop leave an empty table and no grants.                      *)
LEMMA EmptyTableStep ==
  ASSUME EmptyTable, enabled' \in BOOLEAN
  PROVE  TableInv' /\ GrantInv'
<1>1. TypeOK'
  BY QuietType DEF EmptyTable, TypeOK
<1>2. OneEntryPerClient' /\ OneHistoryPerClient'
  BY DEF EmptyTable, OneEntryPerClient, OneHistoryPerClient
<1>3. GrantRemembered' /\ GrantedOnAir'
  BY DEF EmptyTable, GrantRemembered, GrantedOnAir
<1>4. QED
  BY <1>1, <1>2, <1>3 DEF TableInv, GrantInv

(* A station that joins changes neither entries nor grants.                *)
LEMMA JoinStep ==
  ASSUME TableInv, NEW m \in Macs, Join(m)
  PROVE  TableInv' /\ (GrantInv => GrantInv')
<1>1. TypeOK'
  BY QuietType DEF Join, TableInv, TypeOK
<1>2. OneEntryPerClient' /\ OneHistoryPerClient'
  BY DEF Join, TableInv, OneEntryPerClient, OneHistoryPerClient
<1>3. GrantInv => GrantInv'
  BY DEF Join, GrantInv, GrantRemembered, GrantedOnAir
<1>4. QED
  BY <1>1, <1>2, <1>3 DEF TableInv

(* A station that leaves gives up its grant; its entry stays until the     *)
(* tick.                                                                   *)
LEMMA LeaveStep ==
  ASSUME TableInv, NEW m \in Macs, Leave(m)
  PROVE  TableInv' /\ (GrantInv => GrantInv')
<1>1. TypeOK'
  BY QuietType DEF Leave, TableInv, TypeOK
<1>2. OneEntryPerClient' /\ OneHistoryPerClient'
  BY DEF Leave, TableInv, OneEntryPerClient, OneHistoryPerClient
<1>3. \A n \in Macs : granted'[n] = IF n = m THEN 0 ELSE granted[n]
  BY DEF Leave, TableInv, TypeOK
<1>4. GrantInv => GrantInv'
  BY <1>3 DEF Leave, GrantInv, GrantRemembered, GrantedOnAir
<1>5. QED
  BY <1>1, <1>2, <1>4 DEF TableInv

-----------------------------------------------------------------------------
(* The server starts with an empty table and no grants.                    *)
LEMMA InitInv == Init => TableInv /\ GrantInv
<1>1. SUFFICES ASSUME Init PROVE TableInv /\ GrantInv
  OBVIOUS
<1>2. TypeOK
  BY <1>1 DEF Init, TypeOK, NoMessage, NoReply, Message, Reply
<1>3. OneEntryPerClient /\ OneHistoryPerClient
  BY <1>1 DEF Init, OneEntryPerClient, OneHistoryPerClient
<1>4. GrantRemembered /\ GrantedOnAir
  BY <1>1 DEF Init, GrantRemembered, GrantedOnAir
<1>5. QED
  BY <1>2, <1>3, <1>4 DEF TableInv, GrantInv

(* Every step keeps the table; with distinct addresses also the grants.    *)
LEMMA NextInv ==
  ASSUME TableInv, [Next]_vars
  PROVE  TableInv' /\ (PoolDistinct /\ GrantInv => GrantInv')
<1>1. CASE UNCHANGED vars
  BY <1>1 DEF vars, TableInv, GrantInv, TypeOK, OneEntryPerClient, OneHistoryPerClient,
              GrantRemembered, GrantedOnAir
<1>2. ASSUME NEW m \in Macs, RecvCb(m)
      PROVE  TableInv' /\ (PoolDistinct /\ GrantInv => GrantInv')
  <2>1. CASE \E a \in Requested, ok \in BOOLEAN : Discover(m, a, ok)
    BY <2>1, DiscoverStep
  <2>2. CASE \E a \in Requested, sid \in ServerIds, ok \in BOOLEAN : Request(m, a, sid, ok)
    BY <2>2, RequestStep
  <2>3. CASE \E t \in {"RELEASE", "DECLINE"} : GiveBack(t, m)
    BY <2>3, GiveBackStep
  <2>4. CASE \E ok \in BOOLEAN : OtherType(m, ok)
    BY <2>4, OtherTypeStep
  <2>5. QED
    BY <1>2, <2>1, <2>2, <2>3, <2>4 DEF RecvCb
<1>3. ASSUME NEW m \in Macs, ClientDelete(m) \/ Join(m) \/ Leave(m)
      PROVE  TableInv' /\ (GrantInv => GrantInv')
  BY <1>3, ClientDeleteStep, JoinStep, LeaveStep
<1>4. CASE Tick
  BY <1>4, TickStep
<1>5. CASE (\E ok \in BOOLEAN : Start(ok)) \/ Stop
  BY <1>5, EmptyTableStep DEF Start, Stop
<1>6. QED
  BY <1>1, <1>2, <1>3, <1>4, <1>5 DEF Next

(* The table is well typed and unambiguous in every reachable state, for   *)
(* every pool: no client holds two addresses or is remembered twice.       *)
THEOREM ServerTable == Spec => [](TypeOK /\ OneEntryPerClient /\ OneHistoryPerClient)
<1>1. Init => TableInv
  BY InitInv
<1>2. TableInv /\ [Next]_vars => TableInv'
  BY NextInv
<1>3. QED
  BY <1>1, <1>2, PTL DEF Spec, TableInv

(* A pool that ends before the last host of the subnet has distinct        *)
(* addresses: with the build's eight entries and a /24 subnet, every       *)
(* server host up to 246.                                                  *)
THEOREM PoolFits ==
  ASSUME ServerHost + DHCPS_HISTORY_CLIENT_NUM < HostMask
  PROVE  PoolDistinct
<1>1. /\ HostMask \in Nat \ {0} /\ ServerHost \in Nat \ {0}
      /\ DHCPS_HISTORY_CLIENT_NUM \in Nat \ {0}
  BY TableAssumption
<1>2. ASSUME NEW h \in Nat \ {0}, h < HostMask PROVE Around(h) = h
  <2>1. h % HostMask = h
    BY <1>1, <1>2, SMT
  <2>2. QED
    BY <2>1 DEF Around
<1>3. StartHost = ServerHost + 1
  BY <1>1, <1>2 DEF StartHost
<1>4. ASSUME NEW i \in Entries PROVE IpAddr(i) = ServerHost + 1 + i
  <2>1. /\ i \in Nat /\ ServerHost + 1 + i \in Nat \ {0}
        /\ ServerHost + 1 + i < HostMask
    BY <1>1 DEF Entries
  <2>2. QED
    BY <2>1, <1>2, <1>3 DEF IpAddr
<1>5. Entries \subseteq Nat
  BY <1>1 DEF Entries
<1>6. QED
  BY <1>1, <1>4, <1>5 DEF PoolDistinct

(* Every state's type (state table, timers, replies). *)
THEOREM ServerTypeOK == Spec => []TypeOK
  BY ServerTable, PTL

(* A client never holds two addresses. *)
THEOREM ServerOneEntryPerClient == Spec => []OneEntryPerClient
  BY ServerTable, PTL

(* With a pool of distinct addresses, an address acknowledged to a client  *)
(* stays bound to it until one of the two ends the lease.                  *)
THEOREM ServerInvariant == ASSUME PoolDistinct PROVE Spec => []IInv
<1>1. Init => TableInv /\ GrantInv
  BY InitInv
<1>2. TableInv /\ GrantInv /\ [Next]_vars => TableInv' /\ GrantInv'
  BY NextInv
<1>3. TableInv /\ GrantInv => IInv
  BY DEF TableInv, GrantInv, IInv
<1>4. QED
  BY <1>1, <1>2, <1>3, PTL DEF Spec

(* With a pool of distinct addresses no two clients are entitled to the    *)
(* same one: a grant is in the table, and an entry has one owner.          *)
THEOREM ServerNoSharedAddress == ASSUME PoolDistinct PROVE Spec => []NoSharedAddress
<1>1. IInv => NoSharedAddress
  BY DEF IInv, GrantRemembered, NoSharedAddress, PoolDistinct
<1>2. QED
  BY <1>1, ServerInvariant, PTL

(* With a pool of distinct addresses, what a client may use is bound to it *)
(* in the table, until one of the two ends it.                             *)
THEOREM ServerGrantRemembered == ASSUME PoolDistinct PROVE Spec => []GrantRemembered
<1>1. IInv => GrantRemembered
  BY DEF IInv
<1>2. QED
  BY <1>1, ServerInvariant, PTL

-----------------------------------------------------------------------------
(* A client is turned away, and a remembered address is passed on, only    *)
(* as the order of priority of _ClientTableLookup says.                    *)

(* A set of entries that is not empty has a first one. *)
LEMMA FirstExists ==
  ASSUME NEW S, S \subseteq Entries, S # {}
  PROVE  First(S) # {}
<1>1. S \subseteq Nat
  BY DEF Entries
<1> DEFINE R == OpToRel(<, Nat)
<1>2. ASSUME NEW j \in Nat, NEW k \in Nat PROVE <<j, k>> \in R \/ k <= j
  BY DEF OpToRel
<1>3. IsWellFoundedOn(R, Nat)
  BY NatLessThanWellFounded
<1> HIDE DEF R
<1>4. \E k \in S : \A j \in S : ~ (<<j, k>> \in R)
  BY <1>1, <1>3, WFMin, Zenon
<1>5. PICK k \in S : \A j \in S : ~ (<<j, k>> \in R)
  BY <1>4
<1>6. \A j \in S : k <= j
  BY <1>1, <1>2, <1>5, Zenon
<1>7. QED
  BY <1>6 DEF First

(* The answer to a DISCOVER is a NAK only if no entry is idle and the      *)
(* client has none either.                                                 *)
LEMMA NoTargetMeansFull ==
  ASSUME OneEntryPerClient, NEW m \in Macs, NEW a, DiscoverTarget(m, a) = {}
  PROVE  Idle = {} /\ Mine(m) = {}
<1>1. /\ Wanted(a) \subseteq Entries /\ History(m) \subseteq Entries
      /\ Fresh \subseteq Entries /\ Remembered \subseteq Entries
  BY DEF Wanted, History, Fresh, Remembered, Idle
<1>2. Wanted(a) = {} /\ Mine(m) = {} /\ History(m) = {} /\ Fresh = {} /\ Remembered = {}
  BY <1>1, FirstExists, LastMine DEF DiscoverTarget
<1>3. Idle = {}
  BY <1>2 DEF Fresh, Remembered
<1>4. QED
  BY <1>2, <1>3

(* Only a DISCOVER sets rcvd to a DISCOVER. *)
LEMMA RefusedStep ==
  ASSUME TableInv, RefusedOnlyWhenFull, [Next]_vars
  PROVE  RefusedOnlyWhenFull'
<1>1. CASE UNCHANGED vars
  BY <1>1 DEF vars, RefusedOnlyWhenFull, Idle
<1>2. CASE Quiet
  BY <1>2 DEF Quiet, NoMessage, Message, RefusedOnlyWhenFull
<1>3. ASSUME NEW m \in Macs, NEW a \in Requested, NEW ok \in BOOLEAN, Discover(m, a, ok)
      PROVE  RefusedOnlyWhenFull'
  <2> DEFINE T == DiscoverTarget(m, a)
  <2>1. ASSUME T # {} PROVE sent'.type # "NAK"
    BY <1>3, <2>1 DEF Discover, Answer, Reply, NoReply
  <2>2. ASSUME T = {} PROVE Idle' = {}
    <3>1. Idle = {} /\ Mine(m) = {}
      BY <2>2, NoTargetMeansFull DEF TableInv
    <3>2. Retired("DISCOVER", m, a) = {}
      BY <3>1 DEF Retired
    <3>3. UpdateTable("DISCOVER", m, {}, {})
      BY <1>3, <2>2, <3>2 DEF Discover
    <3>4. \A i \in Entries : state'[i] = state[i]
      BY <3>3 DEF UpdateTable
    <3>5. QED
      BY <3>1, <3>4 DEF Idle
  <2>3. QED
    BY <2>1, <2>2 DEF RefusedOnlyWhenFull
<1>4. ASSUME NEW m \in Macs,
             \/ \E a \in Requested, sid \in ServerIds, ok \in BOOLEAN : Request(m, a, sid, ok)
             \/ \E t \in {"RELEASE", "DECLINE"} : GiveBack(t, m)
             \/ \E ok \in BOOLEAN : OtherType(m, ok)
      PROVE  RefusedOnlyWhenFull'
  <2>1. rcvd'.type # "DISCOVER"
    BY <1>4 DEF Request, GiveBack, OtherType, Answer, Message
  <2>2. QED
    BY <2>1 DEF RefusedOnlyWhenFull
<1>5. QED
  BY <1>1, <1>2, <1>3, <1>4 DEF Next, RecvCb, ClientDelete, Join, Leave, Tick, Start, Stop, EmptyTable

(* A client that looks for an address is refused only when every entry of  *)
(* the pool is taken: each kind of idle entry is in the end offered.       *)
THEOREM ServerRefusedOnlyWhenFull == Spec => []RefusedOnlyWhenFull
<1>1. Init => TableInv /\ RefusedOnlyWhenFull
  BY InitInv DEF Init, RefusedOnlyWhenFull, NoMessage, Message
<1>2. TableInv /\ RefusedOnlyWhenFull /\ [Next]_vars => TableInv' /\ RefusedOnlyWhenFull'
  BY NextInv, RefusedStep
<1>3. QED
  BY <1>1, <1>2, PTL DEF Spec

(* What HistoryRespected says of one step. *)
PassedOn(i) ==
  /\ state[i] = "IDLE" /\ mac[i] \in Macs
  /\ state'[i] = "REQUEST" /\ mac'[i] # mac[i]

(* A DISCOVER passes on another client's history only if its address was   *)
(* asked for or nothing better was left.                                   *)
LEMMA PassedOnByDiscover ==
  ASSUME TableInv, NEW m \in Macs, NEW a \in Requested, NEW ok \in BOOLEAN,
         Discover(m, a, ok), NEW i \in Entries, PassedOn(i)
  PROVE  rcvd'.req = IpAddr(i) \/ (Fresh = {} /\ History(mac'[i]) = {})
<1> DEFINE T == DiscoverTarget(m, a)
<1>1. UpdateTable("DISCOVER", m, Retired("DISCOVER", m, a), T) /\ rcvd'.req = a
  BY DEF Discover, Answer, Message
<1>2. i \in T /\ mac'[i] = m
  BY <1>1 DEF UpdateTable, PassedOn
<1>3. i \in Idle /\ i \notin Mine(m) /\ i \notin History(m) /\ i \notin Fresh
  BY <1>2, TableAssumption DEF Idle, Mine, History, Fresh, PassedOn
<1>4. i \in Wanted(a) \/ (Fresh = {} /\ History(m) = {})
  BY <1>2, <1>3 DEF DiscoverTarget, First, Last
<1>5. QED
  BY <1>1, <1>2, <1>4 DEF Wanted

(* No other step passes on a history.                                      *)
LEMMA PassedOnOtherwise ==
  ASSUME NEW i \in Entries, PassedOn(i), [Next]_vars
  PROVE  \E m \in Macs, a \in Requested, ok \in BOOLEAN : Discover(m, a, ok)
<1>1. state'[i] = "REQUEST" /\ state[i] = "IDLE"
  BY DEF PassedOn
<1>2. ~ UNCHANGED vars
  BY <1>1 DEF vars
<1>3. ASSUME NEW m \in Macs, NEW t, NEW R, NEW T, UpdateTable(t, m, R, T),
             t \in {"REQUEST", "RELEASE", "DECLINE"}, t # "REQUEST" => T = {}
      PROVE  FALSE
  BY <1>1, <1>3 DEF UpdateTable
<1>4. ASSUME NEW m \in Macs PROVE ~ (ClientDelete(m) \/ Join(m) \/ Leave(m))
  BY <1>1 DEF ClientDelete, Join, Leave
<1>5. ~ Tick /\ ~ Stop /\ ~ \E ok \in BOOLEAN : Start(ok)
  BY <1>1 DEF Tick, Stop, Start, EmptyTable
<1>6. ASSUME NEW m \in Macs, NEW a \in Requested, NEW sid \in ServerIds, NEW ok \in BOOLEAN
      PROVE  ~ Request(m, a, sid, ok)
  BY <1>3 DEF Request
<1>7. ASSUME NEW m \in Macs, NEW t \in {"RELEASE", "DECLINE"} PROVE ~ GiveBack(t, m)
  BY <1>3 DEF GiveBack
<1>8. ASSUME NEW m \in Macs, NEW ok \in BOOLEAN PROVE ~ OtherType(m, ok)
  BY <1>1 DEF OtherType
<1>9. QED
  BY <1>2, <1>4, <1>5, <1>6, <1>7, <1>8 DEF Next, RecvCb

(* An address remembered for an absent client goes to another one only if  *)
(* that one asks for it by name, or if no address is fresh and the other   *)
(* one is remembered nowhere.                                              *)
THEOREM ServerHistoryRespected == Spec => HistoryRespected
<1> DEFINE A == \A i \in Entries :
                 PassedOn(i) => rcvd'.req = IpAddr(i) \/ (Fresh = {} /\ History(mac'[i]) = {})
<1>1. TableInv /\ [Next]_vars => A
  BY PassedOnOtherwise, PassedOnByDiscover
<1>2. A => [ \A i \in Entries :
               (/\ state[i] = "IDLE" /\ mac[i] \in Macs
                /\ state'[i] = "REQUEST" /\ mac'[i] # mac[i])
               => \/ rcvd'.req = IpAddr(i)
                  \/ Fresh = {} /\ History(mac'[i]) = {} ]_vars
  BY DEF PassedOn
<1>3. Init => TableInv
  BY InitInv
<1>4. TableInv /\ [Next]_vars => TableInv'
  BY NextInv
<1> HIDE DEF A
<1>5. QED
  BY <1>1, <1>2, <1>3, <1>4, PTL DEF Spec, HistoryRespected
=============================================================================
