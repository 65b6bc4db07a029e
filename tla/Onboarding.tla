----------------------------- MODULE Onboarding -----------------------------
(***************************************************************************)
(* How the module gets onto a network: Agent_network_init at boot (direct  *)
(* configuration, station mode, SoftAP as the fallback), lan_softap_config *)
(* when a phone sends credentials, the system management task that turns   *)
(* the driver's messages into events, the network interface it brings up   *)
(* and down, and the reset button.                                         *)
(*                                                                         *)
(* Actors: the application thread (nl6621_main_entry until the network is  *)
(* up, then UdpServerThread, which is created only after that), SysMgmt,   *)
(* SysResetThread, and the Wi-Fi driver (a binary library, external).  The *)
(* driver's task and SysMgmt have the higher priorities (app_cfg.h:54-62): *)
(* a command is carried out before its caller goes on, and the application *)
(* runs only while SysMgmt sleeps: its queue is empty, or it is in the     *)
(* OSTimeDly of ifUpWhenDhcp.                                              *)
(*                                                                         *)
(* Credentials are members of Nets; those of LongNets have a key of more   *)
(* than 32 characters, of which the saved configuration keeps a part (Cut) *)
(* that no network accepts.  A save is the erase of the sector and the     *)
(* write, as in ConfigStore; FlashConfig looks inside the two.  Writing    *)
(* onto a sector that is not blank leaves no configuration.                *)
(***************************************************************************)
EXTENDS Naturals, Sequences

CONSTANTS Nets,        \* networks a phone can name
          LongNets,
          NoNet, Cut, Blank,
          MAX_LOSSES   \* bound on links lost between two boots

ASSUME NetAssumption == /\ LongNets \subseteq Nets /\ MAX_LOSSES \in Nat
                        /\ Nets \cap {NoNet, Cut, Blank} = {}
                        /\ NoNet # Cut /\ Cut # Blank /\ NoNet # Blank

(* The configuration a reader finds, and one it finds none in. *)
Saved == Nets \cup {Cut}
Unset == {NoNet, Blank}

VARIABLES
  flash,     \* the saved Agent_config_t: a network with flag CONNECTED, or none
  status,    \* sys_status.status
  protocol,  \* SysParam.WiFiCfg.Protocol
  ssid,      \* SysParam.WiFiCfg.Ssid, or the argument on its way there
  flag,      \* wifi_sta_connect_ap_flag: 0 failed, 1 connected, 2 polling
  direct,    \* DirectCfgFlag
  pc,        \* where the application thread is
  caller,    \* who called DRV_WiFi_StaModeConnStart
  msgs,      \* queue of the system management task
  sys,       \* "idle", or "dhcp" inside ifUpWhenDhcp
  ip,        \* has the interface an address?
  dhcps,     \* is the DHCP server running?
  reset,     \* SysResetThread: "off", "watch", or "saved" before its reset
  drv,       \* the driver: "off", "direct", "join", "up"
  drvNet,    \* the network it was started for, NoNet for its own
  losses,    \* links lost since boot
  lastUp,    \* the network of the last LINK_UP event
  missed     \* has an outcome come before the caller began to poll for it?

app  == <<status, protocol, ssid, pc, caller>>
net  == <<ip, dhcps>>
dev  == <<drv, drvNet, losses>>
vars == <<flash, app, flag, direct, msgs, sys, net, reset, dev, lastUp, missed>>

(* What a power-on or BSP_ChipReset leaves: everything but the flash. *)
Boot ==
  /\ status' = "WIFI_STOP" /\ protocol' = "SOFTAP" /\ ssid' = NoNet
  /\ pc' = "boot" /\ caller' = "none"
  /\ flag' = 0 /\ direct' = FALSE
  /\ msgs' = <<>> /\ sys' = "idle" /\ ip' = FALSE /\ dhcps' = FALSE
  /\ reset' = "off"
  /\ drv' = "off" /\ drvNet' = NoNet /\ losses' = 0
  /\ lastUp' = NoNet /\ missed' = FALSE

Init ==
  /\ flash = Blank
  /\ status = "WIFI_STOP" /\ protocol = "SOFTAP" /\ ssid = NoNet
  /\ pc = "boot" /\ caller = "none"
  /\ flag = 0 /\ direct = FALSE
  /\ msgs = <<>> /\ sys = "idle" /\ ip = FALSE /\ dhcps = FALSE
  /\ reset = "off"
  /\ drv = "off" /\ drvNet = NoNet /\ losses = 0
  /\ lastUp = NoNet /\ missed = FALSE

-----------------------------------------------------------------------------
(* InfWiFiStop and InfWiFiStart, as the driver carries them out. *)

Stopped == /\ drv' = "off"
           /\ msgs' = IF drv = "up" THEN Append(msgs, "LINK_DOWN") ELSE msgs
           /\ UNCHANGED <<drvNet, losses>>

StartedFor(n) == drv' = "join" /\ drvNet' = n /\ UNCHANGED losses

(* SysMgmt sleeps, so threads of a lower priority run. *)
AppRuns == msgs = <<>> \/ sys = "dhcp"

(* DRV_WiFi_StaModeConnStart up to its first delay; n is NoNet when the    *)
(* parameters are already in SysParam.                                     *)
ConnStart(who) == Stopped /\ pc' = "cfg" /\ caller' = who

(* After the delay: set the parameters and start the driver. *)
ConnConfigure ==
  /\ pc = "cfg" /\ AppRuns
  /\ protocol' = "STA"
  /\ StartedFor(ssid)
  /\ pc' = "window" /\ missed' = FALSE
  /\ UNCHANGED <<flash, status, ssid, caller, flag, direct, msgs, sys, net, reset, lastUp>>

(* A variant that polls without setting the flag. *)
ConnPollKeepsFlag ==
  /\ pc = "window" /\ AppRuns
  /\ pc' = "poll"
  /\ UNCHANGED <<flash, status, protocol, ssid, caller, flag, direct, msgs, sys, net, reset,
                 dev, lastUp, missed>>

(* After the second delay: begin to poll, whatever has happened so far. *)
ConnPoll ==
  /\ pc = "window" /\ AppRuns
  /\ flag' = 2
  /\ pc' = "poll"
  /\ UNCHANGED <<flash, status, protocol, ssid, caller, direct, msgs, sys, net, reset, dev,
                 lastUp, missed>>

(* DRV_WiFi_SoftAPModeStart up to its delay, and the rest of it. *)
SoftAPStop == Stopped /\ pc' = "apcfg" /\ caller' = "none"

SoftAPConfigure ==
  /\ pc = "apcfg" /\ AppRuns
  /\ protocol' = "SOFTAP" /\ ssid' = NoNet
  /\ StartedFor(NoNet)
  /\ status' = "SOFTAP"
  /\ pc' = "serve"
  /\ UNCHANGED <<flash, caller, flag, direct, msgs, sys, net, reset, lastUp, missed>>

(* The second half of Agent_network_init: the reset button is armed and    *)
(* the saved configuration decides.                                        *)
FromConfig ==
  /\ reset' = "watch"
  /\ IF flash \in Saved
     THEN status' = "DIRECTCONFING" /\ ssid' = flash /\ ConnStart("boot")
     ELSE UNCHANGED <<status, ssid>> /\ SoftAPStop

(* Agent_network_init without the button. *)
BootFromConfig ==
  /\ pc = "boot" /\ AppRuns
  /\ FromConfig
  /\ UNCHANGED <<flash, protocol, flag, direct, sys, net, lastUp, missed>>

(* Agent_network_init with the button held: StartDirectConfigConn. *)
BootDirect ==
  /\ pc = "boot" /\ AppRuns
  /\ status' = "DIRECTCONFING"
  /\ ssid' = NoNet /\ direct' = FALSE
  /\ drv' = "direct"
  /\ pc' = "direct"
  /\ UNCHANGED <<flash, protocol, caller, flag, msgs, sys, net, reset, drvNet, losses, lastUp, missed>>

(* The credentials have come: connect with them. *)
DirectConnect ==
  /\ pc = "direct" /\ direct /\ AppRuns
  /\ direct' = FALSE
  /\ ConnStart("direct")
  /\ UNCHANGED <<flash, status, protocol, ssid, flag, sys, net, reset, lastUp, missed>>

(* UdpServerThread waits in recvfrom, and datagrams can reach it. *)
Receives == pc = "serve" /\ AppRuns /\ drv = "up" /\ ip

(* Socket_DispatchUDPData calls lan_softap_config on credentials n that a  *)
(* phone sends; other datagrams and lengths out of range change nothing.   *)
LanConfig(n) ==
  /\ Receives
  /\ ssid' = n
  /\ ConnStart("lan")
  /\ UNCHANGED <<flash, status, protocol, flag, direct, sys, net, reset, lastUp, missed>>

(* DRV_WiFi_StaModeConnStart returns 0.  Credentials a phone has sent are  *)
(* then saved and the success is broadcast; those from the flash need      *)
(* neither.                                                                *)
Connected ==
  /\ pc = "poll" /\ flag = 1 /\ AppRuns
  /\ IF caller = "boot"
     THEN status' = "STA_CONNECTED" /\ pc' = "serve" /\ caller' = "none" /\ UNCHANGED flash
     ELSE pc' = "save" /\ UNCHANGED <<flash, status, caller>>
  /\ UNCHANGED <<protocol, ssid, flag, direct, msgs, sys, net, reset, dev, lastUp, missed>>

(* Agent_SaveSSIDAndKey: what is left of the credentials in the arrays of  *)
(* Agent_config_t, then WriteFlash: the sector is made blank ...           *)
Stored(n) == IF n \in LongNets THEN Cut ELSE n

SaveErase ==
  /\ pc = "save" /\ AppRuns
  /\ flash' = Blank /\ pc' = "write"
  /\ UNCHANGED <<status, protocol, ssid, caller, flag, direct, msgs, sys, net, reset, dev,
                 lastUp, missed>>

(* ... and written, unless the reset button's save has come in between. *)
SaveWrite ==
  /\ pc = "write" /\ AppRuns
  /\ flash' = IF flash = Blank THEN Stored(ssid) ELSE NoNet
  /\ pc' = "broadcast"
  /\ UNCHANGED <<status, protocol, ssid, caller, flag, direct, msgs, sys, net, reset, dev,
                 lastUp, missed>>

(* RespondConnBroadcast is done, after a bounded number of retries: direct *)
(* configuration arms the reset button, the other one resets the chip.     *)
Broadcasted ==
  /\ pc = "broadcast" /\ AppRuns
  /\ UNCHANGED flash
  /\ \/ caller = "lan" /\ Boot
     \/ /\ caller = "direct"
        /\ status' = "STA_CONNECTED" /\ reset' = "watch" /\ pc' = "serve" /\ caller' = "none"
        /\ UNCHANGED <<protocol, ssid, flag, direct, msgs, sys, net, dev, lastUp, missed>>

(* It returns -1: direct configuration goes on with the saved one, station *)
(* mode falls back to SoftAP, a phone's configuration just ends.           *)
Failed ==
  /\ pc = "poll" /\ flag = 0 /\ AppRuns
  /\ \/ caller = "direct" /\ FromConfig
     \/ /\ caller = "boot" /\ SoftAPStop /\ UNCHANGED <<status, ssid, reset>>
     \/ /\ caller = "lan" /\ pc' = "serve" /\ caller' = "none"
        /\ UNCHANGED <<status, ssid, reset, msgs, dev>>
  /\ UNCHANGED <<flash, protocol, flag, direct, sys, net, lastUp, missed>>

-----------------------------------------------------------------------------
(* SysResetThread: the button is held long enough, the configuration is    *)
(* saved without a network, and after a delay the chip is reset.  Nothing  *)
(* of a lower priority runs during this save, and a power loss in it also  *)
(* leaves no network.                                                      *)
ResetSave ==
  /\ reset = "watch" /\ AppRuns
  /\ flash' = NoNet /\ reset' = "saved"
  /\ UNCHANGED <<app, flag, direct, msgs, sys, net, dev, lastUp, missed>>

ResetChip == reset = "saved" /\ AppRuns /\ UNCHANGED flash /\ Boot

(* The user turns the module off and on, at any time. *)
PowerCycle == UNCHANGED flash /\ Boot

-----------------------------------------------------------------------------
(* A variant that counts links in the flag. *)
EvtLinkUpCounts ==
  /\ direct' = TRUE /\ flag' = flag + 1
  /\ UNCHANGED lastUp
  /\ missed' = (missed \/ pc = "window")

(* AppEvtCallBack on SYS_EVT_LINK_UP. *)
EvtLinkUp ==
  /\ direct' = TRUE /\ flag' = 1
  /\ lastUp' = IF drv = "up" THEN drvNet ELSE lastUp
  /\ missed' = (missed \/ pc = "window")

TakesMsg(m) == sys = "idle" /\ msgs # <<>> /\ Head(msgs) = m

(* DefaultProc on SYS_LINK_UP_ID: L2LinkUp asks a DHCP server for an       *)
(* address in station mode.  In SoftAP mode it starts the DHCP and the DNS *)
(* server, and what DNSS_Start returns decides whether the event goes out. *)
SysLinkUp ==
  /\ TakesMsg("LINK_UP") /\ msgs' = Tail(msgs)
  /\ IF protocol = "STA"
     THEN sys' = "dhcp" /\ UNCHANGED <<net, direct, flag, lastUp, missed>>
     ELSE /\ ip' = TRUE /\ dhcps' \in BOOLEAN
          /\ EvtLinkUp \/ UNCHANGED <<direct, flag, lastUp, missed>>
          /\ UNCHANGED sys
  /\ UNCHANGED <<flash, app, reset, dev>>

(* The loop of ifUpWhenDhcp after its delay, with the link gone ... *)
SysDhcpStops ==
  /\ sys = "dhcp" /\ drv # "up"
  /\ sys' = "idle" /\ msgs' = Append(msgs, "DHCP_TIMEOUT")
  /\ UNCHANGED <<flash, app, flag, direct, net, reset, dev, lastUp, missed>>

(* ... and with an address: the event goes out at last. *)
SysDhcpDone ==
  /\ sys = "dhcp" /\ drv = "up" /\ ip
  /\ sys' = "idle" /\ EvtLinkUp
  /\ UNCHANGED <<flash, app, msgs, net, reset, dev>>

(* A variant that leaves the server running. *)
SysLinkDownKeepsServer ==
  /\ TakesMsg("LINK_DOWN") /\ msgs' = Tail(msgs)
  /\ ip' = FALSE
  /\ UNCHANGED <<flash, app, flag, direct, sys, dhcps, reset, dev, lastUp, missed>>

(* DefaultProc on SYS_LINK_DOWN_ID: L2LinkDown clears the address and, in  *)
(* SoftAP mode, stops the server.  The application is told but does not    *)
(* react.                                                                  *)
SysLinkDown ==
  /\ TakesMsg("LINK_DOWN") /\ msgs' = Tail(msgs)
  /\ ip' = FALSE
  /\ dhcps' = (dhcps /\ protocol # "SOFTAP")
  /\ UNCHANGED <<flash, app, flag, direct, sys, reset, dev, lastUp, missed>>

(* A variant that does not tell the caller. *)
SysJoinFailSilent ==
  /\ TakesMsg("JOIN_FAIL") /\ msgs' = Tail(msgs)
  /\ missed' = (missed \/ pc = "window")
  /\ UNCHANGED <<flash, app, flag, direct, sys, net, reset, dev, lastUp>>

(* DefaultProc on SYS_STA_JOIN_FAIL_ID; in SoftAP mode the chip is reset.  *)
SysJoinFail ==
  /\ TakesMsg("JOIN_FAIL")
  /\ IF status = "SOFTAP" THEN Boot
     ELSE /\ flag' = 0 /\ msgs' = Tail(msgs)
          /\ missed' = (missed \/ pc = "window")
          /\ UNCHANGED <<app, direct, sys, net, reset, dev, lastUp>>
  /\ UNCHANGED flash

(* DefaultProc on SYS_DHCP_TIMEOUT_ID and SYS_DIRECT_CFG_DONE_ID. *)
SysOther ==
  /\ TakesMsg("DHCP_TIMEOUT") \/ TakesMsg("DIRECT_DONE")
  /\ msgs' = Tail(msgs)
  /\ direct' = (direct \/ Head(msgs) = "DIRECT_DONE")
  /\ UNCHANGED <<flash, app, flag, sys, net, reset, dev, lastUp, missed>>

SysMgmt == \/ SysLinkUp \/ SysDhcpStops \/ SysDhcpDone
           \/ SysLinkDown \/ SysJoinFail \/ SysOther

-----------------------------------------------------------------------------
(* The driver and the network, external. *)

JoinOk == /\ drv = "join" /\ drvNet # Cut /\ drv' = "up" /\ msgs' = Append(msgs, "LINK_UP")
          /\ UNCHANGED <<flash, app, flag, direct, sys, net, reset, drvNet, losses, lastUp, missed>>

(* All ConTryTimes attempts have failed. *)
JoinFails == /\ drv = "join" /\ drv' = "off" /\ msgs' = Append(msgs, "JOIN_FAIL")
             /\ UNCHANGED <<flash, app, flag, direct, sys, net, reset, drvNet, losses, lastUp, missed>>

(* A station loses its link and tries to join again. *)
LinkLost == /\ drv = "up" /\ drvNet # NoNet /\ losses < MAX_LOSSES
            /\ drv' = "join" /\ losses' = losses + 1
            /\ msgs' = Append(msgs, "LINK_DOWN")
            /\ UNCHANGED <<flash, app, flag, direct, sys, net, reset, drvNet, lastUp, missed>>

(* A phone has sent the credentials of network n. *)
DirectDone(n) == /\ drv = "direct" /\ drv' = "off"
                 /\ ssid' = n
                 /\ msgs' = Append(msgs, "DIRECT_DONE")
                 /\ UNCHANGED <<flash, status, protocol, pc, caller, flag, direct, sys, net,
                                reset, drvNet, losses, lastUp, missed>>

(* The DHCP server of the network answers the client's request. *)
DhcpAck == /\ sys = "dhcp" /\ drv = "up" /\ ~ ip /\ ip' = TRUE
           /\ UNCHANGED <<flash, app, flag, direct, msgs, sys, dhcps, reset, dev, lastUp, missed>>

Application == \/ BootFromConfig \/ DirectConnect
               \/ ConnConfigure \/ ConnPoll
               \/ Connected \/ SaveErase \/ SaveWrite \/ Broadcasted
               \/ Failed \/ SoftAPConfigure

Next == \/ Application \/ BootDirect
        \/ \E n \in Nets : LanConfig(n) \/ DirectDone(n)
        \/ ResetSave \/ ResetChip \/ PowerCycle
        \/ SysMgmt
        \/ JoinOk \/ JoinFails \/ LinkLost \/ DhcpAck

Spec == Init /\ [][Next]_vars

(* Tasks run when they are ready, and the driver ends every attempt. *)
TaskFairness == /\ WF_vars(Application) /\ WF_vars(SysMgmt) /\ WF_vars(ResetChip)
                /\ WF_vars(JoinOk \/ JoinFails)

FairSpec == Spec /\ TaskFairness

(* ... and the network's DHCP server answers in the end. *)
AnsweredSpec == FairSpec /\ WF_vars(DhcpAck)

-----------------------------------------------------------------------------
TypeOK ==
  /\ flash \in Saved \cup Unset
  /\ status \in {"WIFI_STOP", "SOFTAP", "DIRECTCONFING", "STA_CONNECTED"}
  /\ protocol \in {"STA", "SOFTAP"} /\ ssid \in Saved \cup {NoNet}
  /\ flag \in 0 .. 2 /\ direct \in BOOLEAN
  /\ pc \in {"boot", "direct", "cfg", "window", "poll", "apcfg", "save", "write",
            "broadcast", "serve"}
  /\ caller \in {"none", "boot", "direct", "lan"}
  /\ msgs \in Seq({"LINK_UP", "LINK_DOWN", "JOIN_FAIL", "DHCP_TIMEOUT", "DIRECT_DONE"})
  /\ sys \in {"idle", "dhcp"} /\ ip \in BOOLEAN /\ dhcps \in BOOLEAN
  /\ reset \in {"off", "watch", "saved"}
  /\ drv \in {"off", "direct", "join", "up"} /\ drvNet \in Saved \cup {NoNet}
  /\ losses \in 0 .. MAX_LOSSES
  /\ lastUp \in Nets \cup {NoNet} /\ missed \in BOOLEAN

(* Only credentials the module has connected with are saved, although the  *)
(* event that says so carries no name and one of an earlier connection may *)
(* still be on its way (lan.c:60-64, wifi_conn.c:261-267).  Of a long key  *)
(* only a part is saved (nuagent_drv.c:173).                               *)
SavedNetWasLinked ==
  [][ (flash' # flash /\ flash' \in Saved) => flash' = Stored(lastUp) ]_vars

(* The module never answers DHCP requests on somebody else's network: its  *)
(* server is stopped before station mode is configured (lwIP.c:207-211),   *)
(* and an address is not asked for in SoftAP mode (lwIP.c:159, 169).       *)
NoRogueDhcp == /\ dhcps => protocol = "SOFTAP"
               /\ sys = "dhcp" => protocol = "STA"

(* A connection attempt ends, unless its outcome came before the polling   *)
(* began: station mode connects or falls back to SoftAP.                   *)
AttemptEnds == pc = "poll" ~> (pc # "poll" \/ missed)
=============================================================================
