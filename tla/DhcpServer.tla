----------------------------- MODULE DhcpServer -----------------------------
(***************************************************************************)
(* The DHCP server the module runs in SoftAP mode                          *)
(* (App/DhcpServer/dhcp_server.c): a table with one entry per address of   *)
(* the pool, the lookup that picks an entry for a client's message, the    *)
(* client state machine, and the one-second tick that ends offers and      *)
(* leases.  Messages and ticks are handled to completion by lwIP's thread, *)
(* so each is one action.                                                  *)
(*                                                                         *)
(* Addresses are host numbers inside the subnet, 0 is "no address".  An    *)
(* entry's Timeout counts only in state REQUEST and its Lease only in      *)
(* state BIND; both are set on the way into the state, so one variable     *)
(* stands for the one that counts.  State SELECT is left again inside the  *)
(* call that enters it and never seen between two messages.                *)
(*                                                                         *)
(* `onair' is the access point's station table (APGetStationStatus, in a   *)
(* binary library).  `granted' is the other side of the protocol: the      *)
(* address of the last ACK sent to a client that neither the client has    *)
(* given up since (it asks for another one, declines, releases, restarts   *)
(* or leaves the network) nor the server has taken back (NAK, end of the   *)
(* lease, DHCPS_ClientDelete, restart of the access point).                *)
(***************************************************************************)
EXTENDS Integers

CONSTANTS DHCPS_HISTORY_CLIENT_NUM,  \* entries of the table
          DHCP_DEFFAULT_TIMEOUT,     \* ticks an offer stays open
          DHCP_DEFAULT_LEASE_TIME,   \* ticks a lease lasts
          HostMask,                  \* complement of the subnet mask
          ServerHost,                \* host number of the server
          Macs,                      \* clients
          NoMac                      \* the all-zero hardware address

VARIABLES enabled,  \* DhcpServer.Enable, with the socket and the timer
          state,    \* State of each entry
          mac,      \* MacAddr of each entry
          timer,    \* Timeout or Lease of each entry
          onair,    \* stations of the access point
          granted,  \* the address each client may use
          rcvd,     \* the message just handled
          sent      \* the reply to it

vars == <<enabled, state, mac, timer, onair, granted, rcvd, sent>>

Entries == 0 .. (DHCPS_HISTORY_CLIENT_NUM - 1)

ASSUME TableAssumption ==
  /\ DHCPS_HISTORY_CLIENT_NUM \in Nat \ {0}
  /\ DHCP_DEFFAULT_TIMEOUT \in Nat \ {0}
  /\ DHCP_DEFAULT_LEASE_TIME \in Nat \ {0}
  /\ HostMask \in Nat \ {0} /\ ServerHost \in 1 .. HostMask
  /\ NoMac \notin Macs

(* Host number h taken around the subnet, skipping 0. *)
Around(h) == IF h % HostMask = 0 THEN 1 ELSE h % HostMask

StartHost == Around(ServerHost + 1)

(* IpAddr of entry i, as DHCPS_Start fills the table. *)
IpAddr(i) == Around(StartHost + i)

ServerIds == {"none", "mine", "other"}   \* what option 54 of a REQUEST says
Requested == {IpAddr(i) : i \in Entries} \cup {0, ServerHost}

Message(t, m, a) == [type |-> t, from |-> m, req |-> a]
Reply(t, m, a)   == [type |-> t, to |-> m, ip |-> a]
NoMessage == Message("NONE", NoMac, 0)
NoReply   == Reply("NONE", NoMac, 0)

-----------------------------------------------------------------------------
(* What the scan of the table in _ClientTableLookup finds. *)

Idle       == {i \in Entries : state[i] = "IDLE"}
Mine(m)    == {i \in Entries : state[i] # "IDLE" /\ mac[i] = m}
WantedAnyState(a) == {i \in Entries : IpAddr(i) = a}   \* variant: busy or not
Wanted(a)  == {i \in Idle : IpAddr(i) = a}
History(m) == {i \in Idle : mac[i] = m}
Fresh      == {i \in Idle : mac[i] = NoMac}
Remembered == {i \in Idle : mac[i] # NoMac}
Unavailable(m, a) == \E i \in Entries : /\ state[i] # "IDLE" /\ mac[i] # m
                                        /\ IpAddr(i) = a

(* The entry with the lowest and with the highest index, as a set. *)
First(S) == {i \in S : \A j \in S : i <= j}
Last(S)  == {i \in S : \A j \in S : j <= i}

(* Variants of the next definition: a remembered address goes before a     *)
(* fresh one, or is never given to anybody else.                           *)
DiscoverTargetReuses(m, a) ==
  IF Wanted(a) # {} THEN First(Wanted(a))
  ELSE IF Mine(m) # {} THEN Last(Mine(m))
  ELSE IF History(m) # {} THEN First(History(m))
  ELSE IF Remembered # {} THEN First(Remembered) ELSE First(Fresh)
DiscoverTargetKeeps(m, a) ==
  IF Wanted(a) # {} THEN First(Wanted(a))
  ELSE IF Mine(m) # {} THEN Last(Mine(m))
  ELSE IF History(m) # {} THEN First(History(m)) ELSE First(Fresh)

(* The entry of a client that starts a negotiation, in the order of        *)
(* priority of the comment in the code; the empty set is a full pool.      *)
DiscoverTarget(m, a) ==
  IF Wanted(a) # {} THEN First(Wanted(a))
  ELSE IF Mine(m) # {} THEN Last(Mine(m))
  ELSE IF History(m) # {} THEN First(History(m))
  ELSE IF Fresh # {} THEN First(Fresh)
  ELSE IF Remembered # {} THEN First(Remembered)
  ELSE {}

(* The entry a REQUEST is answered from; the empty set is a NAK. *)
RequestTarget(m, a, sid) ==
  IF Unavailable(m, a) \/ sid = "other" THEN {}
  ELSE IF Wanted(a) # {} THEN First(Wanted(a))
  ELSE IF Mine(m) # {} THEN Last(Mine(m)) ELSE {}

(* A variant that keeps the entry of a client that asks for another one. *)
RetiredByReleaseOnly(t, m, a) ==
  IF t \in {"RELEASE", "DECLINE"} THEN Last(Mine(m)) ELSE {}

(* The entry the lookup returns to IDLE for message type t. *)
Retired(t, m, a) ==
  IF Mine(m) = {} THEN {}
  ELSE IF t \in {"RELEASE", "DECLINE"} THEN Last(Mine(m))
  ELSE IF t = "DISCOVER" /\ Wanted(a) # {} THEN Last(Mine(m))
  ELSE IF t = "REQUEST" /\ (Unavailable(m, a) \/ Wanted(a) # {}) THEN Last(Mine(m))
  ELSE {}

(* A retired entry forgets its client, except a bound one; DISCOVER sets   *)
(* the state before it looks at it and so always forgets.                  *)
Forgets(t, i) == t = "DISCOVER" \/ state[i] # "BIND"

-----------------------------------------------------------------------------
(* The table after a message of type t from m that retires the entries R   *)
(* and serves the entry in T: DISCOVER leaves it offered, REQUEST bound,   *)
(* and a bound client's history elsewhere in the table is wiped.           *)
UpdateTable(t, m, R, T) ==
  LET bound == t = "REQUEST" /\ T # {}
  IN /\ state' = [i \in Entries |->
           IF i \in T THEN (IF bound THEN "BIND" ELSE "REQUEST")
           ELSE IF i \in R THEN "IDLE" ELSE state[i]]
     /\ timer' = [i \in Entries |->
           IF i \in T THEN (IF bound THEN DHCP_DEFAULT_LEASE_TIME
                                     ELSE DHCP_DEFFAULT_TIMEOUT)
           ELSE IF i \in R THEN 0 ELSE timer[i]]
     /\ mac' = [i \in Entries |->
           IF i \in T THEN m
           ELSE IF i \in R /\ Forgets(t, i) THEN NoMac
           ELSE IF bound /\ mac[i] = m /\ (i \in R \/ state[i] = "IDLE") THEN NoMac
           ELSE mac[i]]

(* A client that sends one of these is not using its address any more. *)
GivesUp(t, m, a) == \/ t \in {"DISCOVER", "RELEASE", "DECLINE"}
                    \/ t = "REQUEST" /\ a \notin {0, granted[m]}

(* The reply leaves, or pbuf_alloc finds no memory for it (ok = FALSE).    *)
Answer(t, m, a, r, ok) ==
  /\ rcvd' = Message(t, m, a)
  /\ sent' = IF ok THEN r ELSE NoReply
  /\ granted' = [granted EXCEPT ![m] =
       IF ok /\ r.type = "NAK" THEN 0
       ELSE IF ok /\ r.type = "ACK" /\ m \in onair THEN r.ip
       ELSE IF GivesUp(t, m, a) THEN 0 ELSE @]

TheIp(T) == IpAddr(CHOOSE i \in T : TRUE)

(* DHCPS_RecvCb on a DISCOVER that asks for address a (0: for none). *)
Discover(m, a, ok) ==
  LET T == DiscoverTarget(m, a)
  IN /\ enabled
     /\ UpdateTable("DISCOVER", m, Retired("DISCOVER", m, a), T)
     /\ Answer("DISCOVER", m, a,
               IF T = {} THEN Reply("NAK", m, 0) ELSE Reply("OFFER", m, TheIp(T)), ok)
     /\ UNCHANGED <<enabled, onair>>

(* DHCPS_RecvCb on a REQUEST: selecting, rebooting (a # 0) or renewing. *)
Request(m, a, sid, ok) ==
  LET T == RequestTarget(m, a, sid)
  IN /\ enabled
     /\ UpdateTable("REQUEST", m, Retired("REQUEST", m, a), T)
     /\ Answer("REQUEST", m, a,
               IF T = {} THEN Reply("NAK", m, 0) ELSE Reply("ACK", m, TheIp(T)), ok)
     /\ UNCHANGED <<enabled, onair>>

(* DHCPS_RecvCb on a RELEASE or a DECLINE: no reply. *)
GiveBack(t, m) ==
  /\ enabled
  /\ UpdateTable(t, m, Retired(t, m, 0), {})
  /\ Answer(t, m, 0, NoReply, TRUE)
  /\ UNCHANGED <<enabled, onair>>

(* DHCPS_RecvCb on any other message type, an INFORM for one: the lookup   *)
(* returns no entry and the caller sends a NAK.                            *)
OtherType(m, ok) ==
  /\ enabled
  /\ Answer("INFORM", m, 0, Reply("NAK", m, 0), ok)
  /\ UNCHANGED <<enabled, state, mac, timer, onair>>

-----------------------------------------------------------------------------
(* No message is handled in this step. *)
Quiet == rcvd' = NoMessage /\ sent' = NoReply

(* Variants: the tick's loop stops one entry early; the station table is   *)
(* not looked at.                                                          *)
OfferEndsButLast == {i \in Entries : /\ i + 1 \in Entries
                                     /\ state[i] = "REQUEST" /\ timer[i] = 1}
DesertedAll == {i \in Entries : state[i] = "BIND"}

(* Entries whose offer or lease the next tick ends. *)
OfferEnds == {i \in Entries : state[i] = "REQUEST" /\ timer[i] = 1}
LeaseEnds == {i \in Entries : state[i] = "BIND" /\ timer[i] = 1}
Deserted  == {i \in Entries : state[i] = "BIND" /\ mac[i] \notin onair}

(* A variant that counts entries whose timer is not running. *)
TickCountsAll ==
  LET ended == OfferEnds \cup LeaseEnds \cup Deserted
  IN /\ enabled
     /\ state' = [i \in Entries |-> IF i \in ended THEN "IDLE" ELSE state[i]]
     /\ mac' = [i \in Entries |-> IF i \in OfferEnds THEN NoMac ELSE mac[i]]
     /\ timer' = [i \in Entries |-> timer[i] - 1]
     /\ Quiet
     /\ UNCHANGED <<enabled, onair, granted>>

(* _DhcpTickHandle, once a second. *)
Tick ==
  LET ended == OfferEnds \cup LeaseEnds \cup Deserted
  IN /\ enabled
     /\ state' = [i \in Entries |-> IF i \in ended THEN "IDLE" ELSE state[i]]
     /\ mac' = [i \in Entries |-> IF i \in OfferEnds THEN NoMac ELSE mac[i]]
     /\ timer' = [i \in Entries |-> IF i \in ended \/ timer[i] = 0 THEN 0
                                    ELSE timer[i] - 1]
     /\ granted' = [m \in Macs |->
          IF \E i \in LeaseEnds : mac[i] = m THEN 0 ELSE granted[m]]
     /\ Quiet
     /\ UNCHANGED <<enabled, onair>>

(* DHCPS_ClientDelete: only a bound client is deleted. *)
ClientDelete(m) ==
  LET D == {i \in First(Mine(m)) : state[i] = "BIND"}
  IN /\ enabled /\ D # {}
     /\ state' = [i \in Entries |-> IF i \in D THEN "IDLE" ELSE state[i]]
     /\ timer' = [i \in Entries |-> IF i \in D THEN 0 ELSE timer[i]]
     /\ granted' = [granted EXCEPT ![m] = 0]
     /\ Quiet
     /\ UNCHANGED <<enabled, mac, onair>>

EmptyTable ==
  /\ state' = [i \in Entries |-> "IDLE"]
  /\ mac' = [i \in Entries |-> NoMac]
  /\ timer' = [i \in Entries |-> 0]
  /\ onair' = {}
  /\ granted' = [m \in Macs |-> 0]
  /\ Quiet

(* DHCPS_Start, called when the access point comes up, before any station  *)
(* has joined; ok is FALSE when udp_new finds no memory.  The access point *)
(* comes up once between two resets (Onboarding), never twice in a row.    *)
Start(ok) == ~ enabled /\ enabled' = ok /\ EmptyTable

(* DHCPS_Stop, called when the access point has gone down. *)
Stop == enabled /\ enabled' = FALSE /\ EmptyTable

(* A station joins the access point, or leaves it (and gives up its        *)
(* address until DHCP confirms it again).                                  *)
Join(m)  == /\ m \notin onair /\ onair' = onair \cup {m}
            /\ Quiet
            /\ UNCHANGED <<enabled, state, mac, timer, granted>>
Leave(m) == /\ m \in onair /\ onair' = onair \ {m}
            /\ granted' = [granted EXCEPT ![m] = 0]
            /\ Quiet
            /\ UNCHANGED <<enabled, state, mac, timer>>

Init ==
  /\ enabled = FALSE
  /\ state = [i \in Entries |-> "IDLE"]
  /\ mac = [i \in Entries |-> NoMac]
  /\ timer = [i \in Entries |-> 0]
  /\ onair = {}
  /\ granted = [m \in Macs |-> 0]
  /\ rcvd = NoMessage /\ sent = NoReply

RecvCb(m) ==
  \/ \E a \in Requested, ok \in BOOLEAN : Discover(m, a, ok)
  \/ \E a \in Requested, sid \in ServerIds, ok \in BOOLEAN : Request(m, a, sid, ok)
  \/ \E t \in {"RELEASE", "DECLINE"} : GiveBack(t, m)
  \/ \E ok \in BOOLEAN : OtherType(m, ok)

Next == \/ \E m \in Macs : RecvCb(m) \/ ClientDelete(m) \/ Join(m) \/ Leave(m)
        \/ Tick
        \/ \E ok \in BOOLEAN : Start(ok)
        \/ Stop

Spec == Init /\ [][Next]_vars

(* lwIP's thread runs due timeouts: the tick is never starved. *)
FairSpec == Spec /\ WF_vars(Tick)

-----------------------------------------------------------------------------
TypeOK ==
  /\ enabled \in BOOLEAN
  /\ state \in [Entries -> {"IDLE", "REQUEST", "BIND"}]
  /\ mac \in [Entries -> Macs \cup {NoMac}]
  /\ timer \in [Entries -> Nat]
  /\ onair \subseteq Macs
  /\ granted \in [Macs -> Nat]
  /\ rcvd \in [type : {"NONE", "DISCOVER", "REQUEST", "RELEASE", "DECLINE", "INFORM"},
               from : Macs \cup {NoMac}, req : Nat]
  /\ sent \in [type : {"NONE", "OFFER", "ACK", "NAK"}, to : Macs \cup {NoMac}, ip : Nat]

(* A client never holds two addresses: it has at most one entry being      *)
(* negotiated or bound, however it mixes DISCOVERs and REQUESTs for        *)
(* different addresses; and an active entry always has an owner.           *)
OneEntryPerClient ==
  /\ \A i \in Entries : state[i] # "IDLE" => mac[i] \in Macs
  /\ \A i, j \in Entries :
       (state[i] # "IDLE" /\ state[j] # "IDLE" /\ mac[i] = mac[j]) => i = j

(* A client is remembered at most once, and not at all once it is bound:   *)
(* the lookup's "my history entry" is unambiguous (dhcp_server.c:229, 594).*)
OneHistoryPerClient ==
  \A i, j \in Entries :
    (i # j /\ state[i] = "IDLE" /\ mac[i] # NoMac /\ mac[j] = mac[i])
      => state[j] = "REQUEST"

(* The address a client may use is still bound to it in the table. *)
GrantRemembered ==
  \A m \in Macs : granted[m] # 0 =>
    \E i \in Entries : state[i] = "BIND" /\ mac[i] = m /\ IpAddr(i) = granted[m]

(* A client that may use an address is on the network. *)
GrantedOnAir == \A m \in Macs : granted[m] # 0 => m \in onair

(* The inductive invariant. *)
IInv == /\ TypeOK
        /\ OneEntryPerClient
        /\ OneHistoryPerClient
        /\ GrantRemembered
        /\ GrantedOnAir

(* Two clients are never entitled to the same address. *)
NoSharedAddress ==
  \A m, n \in Macs : (granted[m] # 0 /\ granted[m] = granted[n]) => m = n

(* The pool gives every entry an address of its own, and not the server's. *)
PoolDistinct ==
  /\ \A i, j \in Entries : IpAddr(i) = IpAddr(j) => i = j
  /\ \A i \in Entries : IpAddr(i) # ServerHost

(* An address remembered for an absent client is given to another one only *)
(* if that one asks for it by name or nothing else is left                 *)
(* (dhcp_server.c:295-301).                                                *)
HistoryRespected ==
  [][ \A i \in Entries :
        (/\ state[i] = "IDLE" /\ mac[i] \in Macs
         /\ state'[i] = "REQUEST" /\ mac'[i] # mac[i])
        => \/ rcvd'.req = IpAddr(i)
           \/ Fresh = {} /\ History(mac'[i]) = {} ]_vars

(* A client that looks for an address is turned away only when every       *)
(* address is taken (dhcp_server.c:324).                                   *)
RefusedOnlyWhenFull ==
  (rcvd.type = "DISCOVER" /\ sent.type = "NAK") => Idle = {}

(* An entry stays reserved for ever only if its client keeps asking. *)
OfferReclaimed ==
  \A i \in Entries : \/ []<>(state[i] # "REQUEST")
                     \/ []<>(rcvd.type = "DISCOVER" /\ mac[i] = rcvd.from)
                     \/ []<>(~ enabled)
=============================================================================
