-------------------------- MODULE OnboardingProofs --------------------------
(***************************************************************************)
(* Proofs about getting onto a network, for every set of networks and      *)
(* every bound on links lost: the DHCP server never runs in somebody       *)
(* else's network, and only credentials the module has connected with are  *)
(* saved.                                                                  *)
(***************************************************************************)
EXTENDS Onboarding, SequenceTheorems, TLAPS

Msgs  == {"LINK_UP", "LINK_DOWN", "JOIN_FAIL", "DHCP_TIMEOUT", "DIRECT_DONE"}
Links == {"LINK_UP", "LINK_DOWN", "JOIN_FAIL"}

(* None of S is in queue q from position k on. *)
NoneFrom(q, k, S) == \A i \in k .. Len(q) : q[i] \notin S
NoneOf(q, S) == NoneFrom(q, 1, S)

(* A failed attempt is the last word of a driver d until it is started     *)
(* again.                                                                  *)
LastWord(q, d) ==
  \A k \in 1 .. Len(q) : q[k] = "JOIN_FAIL" => d = "off" /\ NoneFrom(q, k + 1, Links)

(* The driver and its messages. *)
Driver ==
  /\ drv = "up" => drvNet # Cut
  /\ drv = "direct" => pc = "direct"
  /\ pc \in {"boot", "cfg", "apcfg"} => drv = "off"
  /\ LastWord(msgs, drv)

(* Where the application is about to start the driver, nothing of the old  *)
(* link is left that would be taken for the new one: before station mode   *)
(* the SoftAP's LINK_DOWN is on its way or the server is not running, and  *)
(* before SoftAP mode nobody asks for an address.                          *)
Starting ==
  /\ pc \in {"boot", "direct"} =>
       /\ protocol = "SOFTAP" /\ ~ dhcps /\ sys = "idle" /\ NoneOf(msgs, Links)
       /\ pc = "direct" => drv \in {"off", "direct"}
  /\ pc = "cfg" =>
       /\ NoneOf(msgs, {"JOIN_FAIL"})
       /\ protocol = "SOFTAP" /\ dhcps => msgs = <<"LINK_DOWN">>
       /\ protocol = "SOFTAP" => NoneOf(msgs, {"LINK_UP"})
  /\ pc = "apcfg" \/ (pc = "poll" /\ flag = 0) =>
       drv = "off" /\ sys = "idle" /\ NoneOf(msgs, Links)

(* During an attempt the driver's network is the caller's, and an event of *)
(* success is one for it.                                                  *)
Attempt ==
  /\ pc \in {"window", "poll", "save", "write", "broadcast"} => protocol = "STA" /\ drvNet = ssid
  /\ (pc = "poll" /\ flag = 1) \/ pc \in {"save", "write"} => lastUp = ssid

Inv == TypeOK /\ NoRogueDhcp /\ Driver /\ Starting /\ Attempt
-----------------------------------------------------------------------------
(* What a message at the end of a queue adds. *)
LEMMA AppendFacts ==
  ASSUME NEW q \in Seq(Msgs), NEW m \in Msgs
  PROVE  /\ Append(q, m) \in Seq(Msgs)
         /\ \A S : NoneOf(q, S) /\ m \notin S => NoneOf(Append(q, m), S)
         /\ \A d : NoneOf(q, {"JOIN_FAIL"}) /\ (m = "JOIN_FAIL" => d = "off")
                    => LastWord(Append(q, m), d)
         /\ \A d : LastWord(q, d) /\ m \notin Links => LastWord(Append(q, m), d)
<1> DEFINE r == Append(q, m)
<1>1. /\ r \in Seq(Msgs) /\ Len(r) = Len(q) + 1 /\ Len(q) \in Nat
      /\ \A i \in 1 .. Len(q) : r[i] = q[i]
      /\ r[Len(q) + 1] = m
  BY AppendProperties, LenProperties
<1> HIDE DEF r
<1>2. ASSUME NEW i \in 1 .. Len(r) PROVE (i \in 1 .. Len(q) /\ r[i] = q[i]) \/ (i = Len(q) + 1 /\ r[i] = m)
  BY <1>1
<1>3. ASSUME NEW S, NoneOf(q, S), m \notin S PROVE NoneOf(r, S)
  BY <1>2, <1>3 DEF NoneOf, NoneFrom
<1>4. ASSUME NEW d, NoneOf(q, {"JOIN_FAIL"}), m = "JOIN_FAIL" => d = "off" PROVE LastWord(r, d)
  <2> SUFFICES ASSUME NEW k \in 1 .. Len(r), r[k] = "JOIN_FAIL"
               PROVE  d = "off" /\ NoneFrom(r, k + 1, Links)
    BY DEF LastWord
  <2>1. k = Len(q) + 1 /\ m = "JOIN_FAIL"
    BY <1>2, <1>4 DEF NoneOf, NoneFrom
  <2>2. NoneFrom(r, k + 1, Links)
    BY <1>1, <2>1 DEF NoneFrom
  <2>3. QED
    BY <1>4, <2>1, <2>2
<1>5. ASSUME NEW d, LastWord(q, d), m \notin Links PROVE LastWord(r, d)
  <2> SUFFICES ASSUME NEW k \in 1 .. Len(r), r[k] = "JOIN_FAIL"
               PROVE  d = "off" /\ NoneFrom(r, k + 1, Links)
    BY DEF LastWord
  <2>1. k \in 1 .. Len(q) /\ q[k] = "JOIN_FAIL"
    BY <1>2, <1>5 DEF Links
  <2>2. d = "off" /\ NoneFrom(q, k + 1, Links)
    BY <1>5, <2>1 DEF LastWord
  <2>3. ASSUME NEW i \in k + 1 .. Len(r) PROVE r[i] \notin Links
    <3>1. i \in 1 .. Len(r) /\ (i \in 1 .. Len(q) => i \in k + 1 .. Len(q))
      BY <1>1, <2>1
    <3>2. QED
      BY <1>2, <1>5, <2>2, <3>1 DEF NoneFrom
  <2>4. QED
    BY <2>2, <2>3 DEF NoneFrom
<1>6. QED
  BY <1>1, <1>3, <1>4, <1>5 DEF r

(* What taking the first message leaves. *)
LEMMA TailFacts ==
  ASSUME NEW q \in Seq(Msgs), q # <<>>
  PROVE  /\ Tail(q) \in Seq(Msgs) /\ Head(q) \in Msgs
         /\ \A S : NoneOf(q, S) => NoneOf(Tail(q), S) /\ Head(q) \notin S
         /\ \A d : LastWord(q, d) =>
              /\ LastWord(Tail(q), d)
              /\ Head(q) = "JOIN_FAIL" => d = "off" /\ NoneOf(Tail(q), Links)
<1> DEFINE r == Tail(q)
<1>1. /\ r \in Seq(Msgs) /\ Len(r) = Len(q) - 1 /\ Len(q) \in Nat /\ Len(q) >= 1
      /\ \A i \in 1 .. Len(r) : r[i] = q[i + 1]
      /\ Head(q) = q[1] /\ q[1] \in Msgs
  BY HeadTailProperties, LenProperties, EmptySeq, ElementOfSeq
<1> HIDE DEF r
<1>2. ASSUME NEW i \in 1 .. Len(r) PROVE i + 1 \in 1 .. Len(q) /\ r[i] = q[i + 1]
  BY <1>1
<1>3. 1 \in 1 .. Len(q)
  BY <1>1
<1>4. ASSUME NEW S, NoneOf(q, S) PROVE NoneOf(r, S) /\ Head(q) \notin S
  BY <1>1, <1>2, <1>3, <1>4 DEF NoneOf, NoneFrom
<1>5. ASSUME NEW d, LastWord(q, d) PROVE LastWord(r, d)
  <2> SUFFICES ASSUME NEW k \in 1 .. Len(r), r[k] = "JOIN_FAIL"
               PROVE  d = "off" /\ NoneFrom(r, k + 1, Links)
    BY DEF LastWord
  <2>1. d = "off" /\ NoneFrom(q, (k + 1) + 1, Links)
    BY <1>2, <1>5 DEF LastWord
  <2>2. ASSUME NEW i \in k + 1 .. Len(r) PROVE r[i] \notin Links
    <3>1. i \in 1 .. Len(r) /\ i + 1 \in (k + 1) + 1 .. Len(q)
      BY <1>1
    <3>2. QED
      BY <1>2, <2>1, <3>1 DEF NoneFrom
  <2>3. QED
    BY <2>1, <2>2 DEF NoneFrom
<1>6. ASSUME NEW d, LastWord(q, d), Head(q) = "JOIN_FAIL" PROVE d = "off" /\ NoneOf(r, Links)
  <2>1. d = "off" /\ NoneFrom(q, 1 + 1, Links)
    BY <1>1, <1>3, <1>6 DEF LastWord
  <2>2. ASSUME NEW i \in 1 .. Len(r) PROVE r[i] \notin Links
    <3>1. i + 1 \in 1 + 1 .. Len(q)
      BY <1>1
    <3>2. QED
      BY <1>2, <2>1, <3>1 DEF NoneFrom
  <2>3. QED
    BY <2>1, <2>2 DEF NoneOf, NoneFrom
<1>7. QED
  BY <1>1, <1>4, <1>5, <1>6 DEF r

(* What a queue without some messages, and an empty one, are free of. *)
LEMMA NoneFacts ==
  ASSUME NEW q \in Seq(Msgs)
  PROVE  /\ NoneOf(q, Links) => NoneOf(q, {"JOIN_FAIL"}) /\ NoneOf(q, {"LINK_UP"})
         /\ \A d : NoneOf(q, {"JOIN_FAIL"}) => LastWord(q, d)
         /\ \A d : LastWord(q, d) /\ d # "off" => NoneOf(q, {"JOIN_FAIL"})
         /\ <<>> \in Seq(Msgs) /\ \A S : NoneOf(<<>>, S)
<1>1. NoneOf(q, Links) => NoneOf(q, {"JOIN_FAIL"}) /\ NoneOf(q, {"LINK_UP"})
  BY DEF NoneOf, NoneFrom, Links
<1>2. \A d : NoneOf(q, {"JOIN_FAIL"}) => LastWord(q, d)
  BY DEF NoneOf, NoneFrom, LastWord
<1>3. \A d : LastWord(q, d) /\ d # "off" => NoneOf(q, {"JOIN_FAIL"})
  BY DEF NoneOf, NoneFrom, LastWord
<1>4. <<>> \in Seq(Msgs) /\ \A S : NoneOf(<<>>, S)
  BY EmptySeq DEF NoneOf, NoneFrom
<1>5. QED
  BY <1>1, <1>2, <1>3, <1>4

-----------------------------------------------------------------------------
(* Everything is idle at first. *)
LEMMA InitInv == Init => Inv
<1> SUFFICES ASSUME Init PROVE Inv
  OBVIOUS
<1>1. msgs \in Seq(Msgs) /\ LastWord(msgs, drv) /\ \A S : NoneOf(msgs, S)
  BY EmptySeq, NoneFacts DEF Init
<1>0. direct \in BOOLEAN /\ ip \in BOOLEAN /\ dhcps \in BOOLEAN /\ missed \in BOOLEAN
  BY Zenon DEF Init
<1>2. TypeOK
  BY NetAssumption, <1>0 DEF Init, TypeOK, Unset
<1>3. QED
  BY <1>1, <1>2 DEF Init, Inv, NoRogueDhcp, Driver, Starting, Attempt

(* A reset or a power-on leaves nothing but the flash. *)
LEMMA BootInv == Inv /\ Boot /\ flash' = flash => Inv'
<1> SUFFICES ASSUME Inv, Boot, flash' = flash PROVE Inv'
  OBVIOUS
<1>1. msgs' \in Seq(Msgs) /\ LastWord(msgs', drv') /\ \A S : NoneOf(msgs', S)
  BY EmptySeq, NoneFacts DEF Boot
<1>0. direct' \in BOOLEAN /\ ip' \in BOOLEAN /\ dhcps' \in BOOLEAN /\ missed' \in BOOLEAN
  BY Zenon DEF Boot
<1>2. TypeOK'
  BY NetAssumption, <1>0 DEF Inv, Boot, TypeOK
<1>3. QED
  BY <1>1, <1>2 DEF Boot, Inv, NoRogueDhcp, Driver, Starting, Attempt

(* What stopping the driver does to it and to its messages. *)
LEMMA StoppedFacts ==
  ASSUME Inv, Stopped
  PROVE  /\ drv' = "off" /\ drvNet' = drvNet /\ losses' = losses
         /\ msgs' \in Seq(Msgs) /\ LastWord(msgs', "off")
         /\ drv # "up" => msgs' = msgs
         /\ drv = "up" => NoneOf(msgs, {"JOIN_FAIL"})
         /\ \A S : NoneOf(msgs, S) /\ "LINK_DOWN" \notin S => NoneOf(msgs', S)
         /\ drv = "up" /\ msgs = <<>> => msgs' = <<"LINK_DOWN">>
<1>1. msgs \in Seq(Msgs) /\ LastWord(msgs, drv)
  BY DEF Inv, TypeOK, Msgs, Driver
<1>2. drv' = "off" /\ drvNet' = drvNet /\ losses' = losses
      /\ msgs' = IF drv = "up" THEN Append(msgs, "LINK_DOWN") ELSE msgs
  BY DEF Stopped
<1>3. CASE drv = "up"
  <2>1. NoneOf(msgs, {"JOIN_FAIL"})
    BY <1>1, <1>3, NoneFacts
  <2>2. "LINK_DOWN" \in Msgs /\ msgs' = Append(msgs, "LINK_DOWN")
    BY <1>2, <1>3 DEF Msgs
  <2>3. msgs' \in Seq(Msgs) /\ LastWord(msgs', "off")
    BY <1>1, <2>1, <2>2, AppendFacts
  <2>4. \A S : NoneOf(msgs, S) /\ "LINK_DOWN" \notin S => NoneOf(msgs', S)
    BY <1>1, <2>2, AppendFacts
  <2>5. msgs = <<>> => msgs' = <<"LINK_DOWN">>
    BY <2>2
  <2>6. QED
    BY <1>2, <2>1, <2>3, <2>4, <2>5
<1>4. CASE drv # "up"
  <2>1. msgs' = msgs
    BY <1>2, <1>4
  <2>2. LastWord(msgs, "off")
    BY <1>1, NoneFacts
  <2>3. QED
    BY <1>1, <1>2, <2>1, <2>2
<1>5. QED
  BY <1>3, <1>4

(* The queue of a state the invariant holds in. *)
LEMMA QueueFacts ==
  ASSUME Inv
  PROVE  /\ msgs \in Seq(Msgs) /\ LastWord(msgs, drv)
         /\ NoneOf(msgs, Links) => NoneOf(msgs, {"JOIN_FAIL"}) /\ NoneOf(msgs, {"LINK_UP"})
         /\ \A d : NoneOf(msgs, {"JOIN_FAIL"}) => LastWord(msgs, d)
         /\ drv # "off" => NoneOf(msgs, {"JOIN_FAIL"})
         /\ msgs = <<>> => \A S : NoneOf(msgs, S)
BY NoneFacts DEF Inv, TypeOK, Msgs, Driver

(* Before station mode the server is stopped. *)
LEMMA ConnConfigureInv ==
  ASSUME Inv, ConnConfigure
  PROVE  Inv'
<1>0. ~ dhcps
  <2>1. <<"LINK_DOWN">> # <<>>
    OBVIOUS
  <2>2. protocol = "SOFTAP" => sys # "dhcp" /\ msgs = <<>>
    BY DEF Inv, NoRogueDhcp, ConnConfigure, AppRuns
  <2>3. QED
    BY <2>2 DEF Inv, NoRogueDhcp, Starting, ConnConfigure
<1>9. direct' \in BOOLEAN /\ ip' \in BOOLEAN /\ dhcps' \in BOOLEAN /\ missed' \in BOOLEAN
  BY Zenon DEF Inv, TypeOK, net, ConnConfigure
<1>10. TypeOK'
  BY <1>9 DEF Inv, TypeOK, ConnConfigure, StartedFor
<1>11. NoRogueDhcp'
  BY <1>0 DEF NoRogueDhcp, net, ConnConfigure
<1>12. Driver'
  BY QueueFacts DEF Inv, Driver, Starting, ConnConfigure, StartedFor
<1>13. Starting'
  BY DEF Starting, ConnConfigure
<1>14. Attempt'
  BY DEF Attempt, ConnConfigure, StartedFor
<1>15. QED
  BY <1>10, <1>11, <1>12, <1>13, <1>14 DEF Inv

(* The flag is set to polling. *)
LEMMA ConnPollInv ==
  ASSUME Inv, ConnPoll
  PROVE  Inv'
<1>10. TypeOK'
  BY DEF Inv, TypeOK, net, dev, ConnPoll
<1>11. NoRogueDhcp'
  BY DEF Inv, NoRogueDhcp, net, ConnPoll
<1>12. Driver'
  BY DEF Inv, Driver, dev, ConnPoll
<1>13. Starting'
  BY DEF Starting, ConnPoll
<1>14. Attempt'
  BY DEF Inv, Attempt, dev, ConnPoll
<1>15. QED
  BY <1>10, <1>11, <1>12, <1>13, <1>14 DEF Inv

(* Before SoftAP mode no address is asked for. *)
LEMMA SoftAPConfigureInv ==
  ASSUME Inv, SoftAPConfigure
  PROVE  Inv'
<1>10. TypeOK'
  BY DEF Inv, TypeOK, net, SoftAPConfigure, StartedFor
<1>11. NoRogueDhcp'
  BY DEF Inv, NoRogueDhcp, Starting, SoftAPConfigure
<1>12. Driver'
  BY QueueFacts DEF Inv, Driver, Starting, SoftAPConfigure, StartedFor
<1>13. Starting'
  BY DEF Starting, SoftAPConfigure
<1>14. Attempt'
  BY DEF Attempt, SoftAPConfigure
<1>15. QED
  BY <1>10, <1>11, <1>12, <1>13, <1>14 DEF Inv

(* The driver is off at boot. *)
LEMMA BootFromConfigInv ==
  ASSUME Inv, BootFromConfig
  PROVE  Inv'
<1>0. Stopped
  BY DEF BootFromConfig, FromConfig, ConnStart, SoftAPStop
<1>10. TypeOK'
  BY StoppedFacts DEF Inv, TypeOK, Msgs, net, BootFromConfig, FromConfig, ConnStart, SoftAPStop
<1>11. NoRogueDhcp'
  BY DEF Inv, NoRogueDhcp, net, BootFromConfig
<1>12. Driver'
  BY <1>0, StoppedFacts DEF Driver
<1>13. Starting'
  BY QueueFacts, <1>0, StoppedFacts DEF Inv, Driver, Starting, net, BootFromConfig
<1>14. Attempt'
  BY DEF Attempt, BootFromConfig, FromConfig, ConnStart, SoftAPStop
<1>15. QED
  BY <1>10, <1>11, <1>12, <1>13, <1>14 DEF Inv

(* Direct configuration begins with the driver off. *)
LEMMA BootDirectInv ==
  ASSUME Inv, BootDirect
  PROVE  Inv'
<1>9. direct' \in BOOLEAN /\ ip' \in BOOLEAN /\ dhcps' \in BOOLEAN /\ missed' \in BOOLEAN
  BY Zenon DEF Inv, TypeOK, net, BootDirect
<1>10. TypeOK'
  BY <1>9 DEF Inv, TypeOK, BootDirect
<1>11. NoRogueDhcp'
  BY DEF Inv, NoRogueDhcp, net, BootDirect
<1>12. Driver'
  BY QueueFacts DEF Inv, Driver, Starting, BootDirect
<1>13. Starting'
  BY DEF Inv, Starting, net, BootDirect
<1>14. Attempt'
  BY DEF Attempt, BootDirect
<1>15. QED
  BY <1>10, <1>11, <1>12, <1>13, <1>14 DEF Inv

(* The driver is off when the credentials have come. *)
LEMMA DirectConnectInv ==
  ASSUME Inv, DirectConnect
  PROVE  Inv'
<1>0. Stopped
  BY DEF DirectConnect, ConnStart
<1>9. direct' \in BOOLEAN /\ ip' \in BOOLEAN /\ dhcps' \in BOOLEAN /\ missed' \in BOOLEAN
  BY Zenon DEF Inv, TypeOK, net, DirectConnect
<1>10. TypeOK'
  BY StoppedFacts, <1>9 DEF Inv, TypeOK, Msgs, DirectConnect, ConnStart
<1>11. NoRogueDhcp'
  BY DEF Inv, NoRogueDhcp, net, DirectConnect
<1>12. Driver'
  BY <1>0, StoppedFacts DEF Driver
<1>13. Starting'
  BY QueueFacts, <1>0, StoppedFacts DEF Inv, Starting, net, DirectConnect
<1>14. Attempt'
  BY DEF Attempt, DirectConnect, ConnStart
<1>15. QED
  BY <1>10, <1>11, <1>12, <1>13, <1>14 DEF Inv

(* The link of SoftAP mode has nothing else in the queue. *)
LEMMA LanConfigInv ==
  ASSUME Inv, NEW n \in Nets, LanConfig(n)
  PROVE  Inv'
<1>0. Stopped
  BY DEF LanConfig, ConnStart
<1>1. drv = "up" /\ pc = "serve" /\ NoneOf(msgs', {"JOIN_FAIL"})
  BY <1>0, StoppedFacts DEF LanConfig, Receives
<1>2. ASSUME protocol = "SOFTAP" PROVE msgs' = <<"LINK_DOWN">> /\ NoneOf(msgs', {"LINK_UP"})
  <2>1. msgs = <<>>
    BY <1>2 DEF Inv, NoRogueDhcp, LanConfig, Receives, AppRuns
  <2>2. QED
    BY <1>0, <1>1, <2>1, StoppedFacts, QueueFacts
<1>10. TypeOK'
  BY StoppedFacts DEF Inv, TypeOK, Msgs, Saved, net, LanConfig, ConnStart
<1>11. NoRogueDhcp'
  BY DEF Inv, NoRogueDhcp, net, LanConfig
<1>12. Driver'
  BY <1>0, StoppedFacts DEF Driver
<1>13. Starting'
  BY <1>1, <1>2 DEF Starting, LanConfig, ConnStart
<1>14. Attempt'
  BY DEF Attempt, LanConfig, ConnStart
<1>15. QED
  BY <1>10, <1>11, <1>12, <1>13, <1>14 DEF Inv

(* The event was one for the credentials. *)
LEMMA ConnectedInv ==
  ASSUME Inv, Connected
  PROVE  Inv'
<1>10. TypeOK'
  BY DEF Inv, TypeOK, net, dev, Connected
<1>11. NoRogueDhcp'
  BY DEF Inv, NoRogueDhcp, net, Connected
<1>12. Driver'
  BY DEF Inv, Driver, dev, Connected
<1>13. Starting'
  BY DEF Starting, Connected
<1>14. Attempt'
  BY DEF Inv, Attempt, dev, Connected
<1>15. QED
  BY <1>10, <1>11, <1>12, <1>13, <1>14 DEF Inv

(* The erase leaves no network. *)
LEMMA SaveEraseInv ==
  ASSUME Inv, SaveErase
  PROVE  Inv'
<1>10. TypeOK'
  BY DEF Inv, TypeOK, Unset, net, dev, SaveErase
<1>11. NoRogueDhcp'
  BY DEF Inv, NoRogueDhcp, net, SaveErase
<1>12. Driver'
  BY DEF Inv, Driver, dev, SaveErase
<1>13. Starting'
  BY DEF Starting, SaveErase
<1>14. Attempt'
  BY DEF Inv, Attempt, dev, SaveErase
<1>15. QED
  BY <1>10, <1>11, <1>12, <1>13, <1>14 DEF Inv

(* What is left of the credentials is a network or a part of a key. *)
LEMMA SaveWriteInv ==
  ASSUME Inv, SaveWrite
  PROVE  Inv'
<1>10. TypeOK'
  BY DEF Inv, TypeOK, Saved, Unset, net, dev, SaveWrite, Stored
<1>11. NoRogueDhcp'
  BY DEF Inv, NoRogueDhcp, net, SaveWrite
<1>12. Driver'
  BY DEF Inv, Driver, dev, SaveWrite
<1>13. Starting'
  BY DEF Starting, SaveWrite
<1>14. Attempt'
  BY DEF Inv, Attempt, dev, SaveWrite
<1>15. QED
  BY <1>10, <1>11, <1>12, <1>13, <1>14 DEF Inv

(* After a failure nothing of the link is left. *)
LEMMA FailedInv ==
  ASSUME Inv, Failed
  PROVE  Inv'
<1>0. pc = "poll" /\ drv = "off" /\ sys = "idle" /\ NoneOf(msgs, Links)
  BY DEF Failed, Inv, Starting
<1>1. /\ drv' = "off" /\ drvNet' = drvNet /\ losses' = losses /\ msgs' = msgs
      /\ pc' \in {"cfg", "apcfg", "serve"}
  BY <1>0 DEF Failed, FromConfig, ConnStart, SoftAPStop, Stopped, dev
<1>10. TypeOK'
  BY <1>1 DEF Inv, TypeOK, net, Failed, FromConfig, ConnStart, SoftAPStop
<1>11. NoRogueDhcp'
  BY DEF Inv, NoRogueDhcp, net, Failed
<1>12. Driver'
  BY QueueFacts, <1>1 DEF Driver
<1>13. Starting'
  BY QueueFacts, <1>1 DEF Inv, Starting, Attempt, Failed
<1>14. Attempt'
  BY <1>1 DEF Attempt
<1>15. QED
  BY <1>10, <1>11, <1>12, <1>13, <1>14 DEF Inv

(* The button clears the saved network. *)
LEMMA ResetSaveInv ==
  ASSUME Inv, ResetSave
  PROVE  Inv'
<1>10. TypeOK'
  BY DEF Inv, TypeOK, Unset, app, net, dev, ResetSave
<1>11. NoRogueDhcp'
  BY DEF Inv, NoRogueDhcp, app, net, ResetSave
<1>12. Driver'
  BY DEF Inv, Driver, app, dev, ResetSave
<1>13. Starting'
  BY DEF Inv, Starting, app, net, dev, ResetSave
<1>14. Attempt'
  BY DEF Inv, Attempt, app, dev, ResetSave
<1>15. QED
  BY <1>10, <1>11, <1>12, <1>13, <1>14 DEF Inv

(* A link in SoftAP mode starts the server, one in station mode asks for an address. *)
LEMMA SysLinkUpInv ==
  ASSUME Inv, SysLinkUp
  PROVE  Inv'
<1>0. msgs # <<>> /\ Head(msgs) = "LINK_UP" /\ msgs' = Tail(msgs)
  BY DEF SysLinkUp, TakesMsg
<1>1. /\ msgs' \in Seq(Msgs) /\ LastWord(msgs', drv)
      /\ \A S : NoneOf(msgs, S) => NoneOf(msgs', S) /\ "LINK_UP" \notin S
  BY <1>0, QueueFacts, TailFacts
<1>9. direct' \in BOOLEAN /\ ip' \in BOOLEAN /\ dhcps' \in BOOLEAN /\ missed' \in BOOLEAN
  BY Zenon DEF Inv, TypeOK, net, SysLinkUp, EvtLinkUp
<1>10. TypeOK'
  BY <1>1, <1>9 DEF Inv, TypeOK, Saved, app, dev, SysLinkUp, EvtLinkUp, Driver
<1>11. NoRogueDhcp'
  BY DEF Inv, TypeOK, NoRogueDhcp, app, net, SysLinkUp
<1>12. Driver'
  BY <1>1 DEF Inv, Driver, app, dev, SysLinkUp
<1>13. Starting'
  BY <1>1, QueueFacts DEF Inv, Starting, app, SysLinkUp, EvtLinkUp
<1>14. Attempt'
  BY DEF Inv, Attempt, app, dev, SysLinkUp
<1>15. QED
  BY <1>10, <1>11, <1>12, <1>13, <1>14 DEF Inv

(* The client gives up when the link is gone. *)
LEMMA SysDhcpStopsInv ==
  ASSUME Inv, SysDhcpStops
  PROVE  Inv'
<1>1. /\ msgs' \in Seq(Msgs) /\ LastWord(msgs', drv)
      /\ \A S : NoneOf(msgs, S) /\ "DHCP_TIMEOUT" \notin S => NoneOf(msgs', S)
  BY QueueFacts, AppendFacts DEF SysDhcpStops, Msgs, Links
<1>10. TypeOK'
  BY DEF Inv, TypeOK, app, net, dev, SysDhcpStops
<1>11. NoRogueDhcp'
  BY DEF Inv, NoRogueDhcp, net, SysDhcpStops
<1>12. Driver'
  BY <1>1 DEF Inv, Driver, app, dev, SysDhcpStops
<1>13. Starting'
  BY <1>1 DEF Inv, NoRogueDhcp, Starting, app, SysDhcpStops
<1>14. Attempt'
  BY DEF Inv, Attempt, app, dev, SysDhcpStops
<1>15. QED
  BY <1>10, <1>11, <1>12, <1>13, <1>14 DEF Inv

(* The event of success is one for the driver's network. *)
LEMMA SysDhcpDoneInv ==
  ASSUME Inv, SysDhcpDone
  PROVE  Inv'
<1>9. direct' \in BOOLEAN /\ ip' \in BOOLEAN /\ dhcps' \in BOOLEAN /\ missed' \in BOOLEAN
  BY Zenon DEF Inv, TypeOK, net, SysDhcpDone, EvtLinkUp
<1>10. TypeOK'
  BY <1>9 DEF Inv, TypeOK, Saved, app, dev, SysDhcpDone, EvtLinkUp, Driver
<1>11. NoRogueDhcp'
  BY DEF Inv, NoRogueDhcp, net, SysDhcpDone
<1>12. Driver'
  BY DEF Inv, Driver, app, dev, SysDhcpDone
<1>13. Starting'
  BY DEF Inv, Starting, app, net, SysDhcpDone, EvtLinkUp
<1>14. Attempt'
  BY DEF Inv, Attempt, app, dev, SysDhcpDone, EvtLinkUp
<1>15. QED
  BY <1>10, <1>11, <1>12, <1>13, <1>14 DEF Inv

(* The end of the SoftAP's link stops the server. *)
LEMMA SysLinkDownInv ==
  ASSUME Inv, SysLinkDown
  PROVE  Inv'
<1>0. msgs # <<>> /\ Head(msgs) = "LINK_DOWN" /\ msgs' = Tail(msgs)
  BY DEF SysLinkDown, TakesMsg
<1>1. /\ msgs' \in Seq(Msgs) /\ LastWord(msgs', drv)
      /\ \A S : NoneOf(msgs, S) => NoneOf(msgs', S) /\ "LINK_DOWN" \notin S
  BY <1>0, QueueFacts, TailFacts
<1>9. direct' \in BOOLEAN /\ ip' \in BOOLEAN /\ dhcps' \in BOOLEAN /\ missed' \in BOOLEAN
  BY Zenon DEF Inv, TypeOK, SysLinkDown
<1>10. TypeOK'
  BY <1>1, <1>9 DEF Inv, TypeOK, app, dev, SysLinkDown
<1>11. NoRogueDhcp'
  BY DEF Inv, NoRogueDhcp, SysLinkDown, TakesMsg
<1>12. Driver'
  BY <1>1 DEF Inv, Driver, app, dev, SysLinkDown
<1>13. Starting'
  BY <1>1 DEF Inv, Starting, app, dev, SysLinkDown
<1>14. Attempt'
  BY DEF Inv, Attempt, app, dev, SysLinkDown
<1>15. QED
  BY <1>10, <1>11, <1>12, <1>13, <1>14 DEF Inv

(* The other two messages are not about a link. *)
LEMMA SysOtherInv ==
  ASSUME Inv, SysOther
  PROVE  Inv'
<1>0. msgs # <<>> /\ Head(msgs) \in {"DHCP_TIMEOUT", "DIRECT_DONE"} /\ msgs' = Tail(msgs)
  BY DEF SysOther, TakesMsg
<1>1. /\ msgs' \in Seq(Msgs) /\ LastWord(msgs', drv)
      /\ \A S : NoneOf(msgs, S) => NoneOf(msgs', S)
  BY <1>0, QueueFacts, TailFacts
<1>10. TypeOK'
  BY <1>1 DEF Inv, TypeOK, app, net, dev, SysOther
<1>11. NoRogueDhcp'
  BY DEF Inv, NoRogueDhcp, app, net, SysOther
<1>12. Driver'
  BY <1>1 DEF Inv, Driver, app, dev, SysOther
<1>13. Starting'
  BY <1>0, <1>1 DEF Inv, Starting, app, net, dev, SysOther
<1>14. Attempt'
  BY DEF Inv, Attempt, app, dev, SysOther
<1>15. QED
  BY <1>10, <1>11, <1>12, <1>13, <1>14 DEF Inv

(* A link is up for a network that can be joined. *)
LEMMA JoinOkInv ==
  ASSUME Inv, JoinOk
  PROVE  Inv'
<1>0. NoneOf(msgs, {"JOIN_FAIL"})
  BY QueueFacts DEF JoinOk
<1>1. /\ msgs' \in Seq(Msgs) /\ LastWord(msgs', "up")
      /\ \A S : NoneOf(msgs, S) /\ "LINK_UP" \notin S => NoneOf(msgs', S)
  BY QueueFacts, AppendFacts DEF JoinOk, Msgs
<1>10. TypeOK'
  BY DEF Inv, TypeOK, app, net, JoinOk
<1>11. NoRogueDhcp'
  BY DEF Inv, NoRogueDhcp, app, net, JoinOk
<1>12. Driver'
  BY <1>1 DEF Inv, Driver, app, JoinOk
<1>13. Starting'
  BY DEF Inv, Driver, Starting, app, JoinOk
<1>14. Attempt'
  BY DEF Inv, Attempt, app, JoinOk
<1>15. QED
  BY <1>10, <1>11, <1>12, <1>13, <1>14 DEF Inv

(* A failure is the last word of the driver. *)
LEMMA JoinFailsInv ==
  ASSUME Inv, JoinFails
  PROVE  Inv'
<1>0. NoneOf(msgs, {"JOIN_FAIL"})
  BY QueueFacts DEF JoinFails
<1>1. /\ msgs' \in Seq(Msgs) /\ LastWord(msgs', "off")
      /\ \A S : NoneOf(msgs, S) /\ "JOIN_FAIL" \notin S => NoneOf(msgs', S)
  BY QueueFacts, AppendFacts DEF JoinFails, Msgs
<1>10. TypeOK'
  BY DEF Inv, TypeOK, app, net, JoinFails
<1>11. NoRogueDhcp'
  BY DEF Inv, NoRogueDhcp, app, net, JoinFails
<1>12. Driver'
  BY <1>1 DEF Driver, JoinFails
<1>13. Starting'
  BY DEF Inv, Driver, Starting, app, JoinFails
<1>14. Attempt'
  BY DEF Inv, Attempt, app, JoinFails
<1>15. QED
  BY <1>10, <1>11, <1>12, <1>13, <1>14 DEF Inv

(* A lost link is one of a station. *)
LEMMA LinkLostInv ==
  ASSUME Inv, LinkLost
  PROVE  Inv'
<1>0. NoneOf(msgs, {"JOIN_FAIL"})
  BY QueueFacts DEF LinkLost
<1>1. /\ msgs' \in Seq(Msgs) /\ LastWord(msgs', "join")
      /\ \A S : NoneOf(msgs, S) /\ "LINK_DOWN" \notin S => NoneOf(msgs', S)
  BY QueueFacts, AppendFacts DEF LinkLost, Msgs
<1>2. losses + 1 \in 0 .. MAX_LOSSES
  BY NetAssumption DEF Inv, TypeOK, LinkLost
<1>10. TypeOK'
  BY <1>2 DEF Inv, TypeOK, app, net, LinkLost
<1>11. NoRogueDhcp'
  BY DEF Inv, NoRogueDhcp, app, net, LinkLost
<1>12. Driver'
  BY <1>1 DEF Inv, Driver, app, LinkLost
<1>13. Starting'
  BY DEF Inv, Driver, Starting, app, LinkLost
<1>14. Attempt'
  BY DEF Inv, Attempt, app, LinkLost
<1>15. QED
  BY <1>10, <1>11, <1>12, <1>13, <1>14 DEF Inv

(* The credentials come while the application waits for them. *)
LEMMA DirectDoneInv ==
  ASSUME Inv, NEW n \in Nets, DirectDone(n)
  PROVE  Inv'
<1>0. pc = "direct"
  BY DEF DirectDone, Inv, Driver
<1>1. /\ msgs' \in Seq(Msgs) /\ LastWord(msgs', "off")
      /\ \A S : NoneOf(msgs, S) /\ "DIRECT_DONE" \notin S => NoneOf(msgs', S)
  BY QueueFacts, AppendFacts DEF DirectDone, Msgs
<1>2. NoneOf(msgs, Links) => NoneOf(msgs', Links)
  BY <1>1 DEF Links
<1>10. TypeOK'
  BY DEF Inv, TypeOK, Saved, net, DirectDone
<1>11. NoRogueDhcp'
  BY DEF Inv, NoRogueDhcp, net, DirectDone
<1>12. Driver'
  BY <1>1 DEF Driver, DirectDone
<1>13. Starting'
  BY <1>0, <1>2 DEF Inv, Starting, net, DirectDone
<1>14. Attempt'
  BY <1>0 DEF Attempt, DirectDone
<1>15. QED
  BY <1>10, <1>11, <1>12, <1>13, <1>14 DEF Inv

(* An address is asked for in station mode only. *)
LEMMA DhcpAckInv ==
  ASSUME Inv, DhcpAck
  PROVE  Inv'
<1>10. TypeOK'
  BY DEF Inv, TypeOK, app, dev, DhcpAck
<1>11. NoRogueDhcp'
  BY DEF Inv, NoRogueDhcp, app, DhcpAck
<1>12. Driver'
  BY DEF Inv, Driver, app, dev, DhcpAck
<1>13. Starting'
  BY DEF Inv, Starting, app, DhcpAck
<1>14. Attempt'
  BY DEF Inv, Attempt, app, dev, DhcpAck
<1>15. QED
  BY <1>10, <1>11, <1>12, <1>13, <1>14 DEF Inv

(* A success is broadcast, and the module serves or starts again. *)
LEMMA BroadcastedInv ==
  ASSUME Inv, Broadcasted
  PROVE  Inv'
<1>1. CASE Boot
  BY <1>1, BootInv DEF Broadcasted
<1>2. CASE ~ Boot
  <2>1. TypeOK'
    BY <1>2 DEF Broadcasted, Inv, TypeOK, net, dev
  <2>2. NoRogueDhcp' /\ Driver' /\ Starting' /\ Attempt'
    BY <1>2 DEF Broadcasted, Inv, NoRogueDhcp, Driver, Starting, Attempt, net, dev
  <2>3. QED
    BY <2>1, <2>2 DEF Inv
<1>3. QED
  BY <1>1, <1>2

(* A failed attempt leaves nothing of the link, or resets the chip. *)
LEMMA SysJoinFailInv ==
  ASSUME Inv, SysJoinFail
  PROVE  Inv'
<1>1. CASE status = "SOFTAP"
  BY <1>1, BootInv DEF SysJoinFail
<1>2. CASE status # "SOFTAP"
  <2>0. msgs # <<>> /\ Head(msgs) = "JOIN_FAIL" /\ msgs' = Tail(msgs) /\ sys = "idle"
    BY <1>2 DEF SysJoinFail, TakesMsg
  <2>1. /\ msgs' \in Seq(Msgs) /\ LastWord(msgs', drv)
        /\ \A S : NoneOf(msgs, S) => NoneOf(msgs', S) /\ "JOIN_FAIL" \notin S
        /\ drv = "off" /\ NoneOf(msgs', Links)
    BY <2>0, QueueFacts, TailFacts
  <2>2. TypeOK'
    BY <1>2, <2>0 DEF SysJoinFail, Inv, TypeOK, app, net, dev
  <2>3. NoRogueDhcp' /\ Driver'
    BY <1>2, <2>1 DEF SysJoinFail, Inv, NoRogueDhcp, Driver, app, net, dev
  <2>4. Starting' /\ Attempt'
    BY <1>2, <2>0, <2>1 DEF SysJoinFail, Inv, Starting, Attempt, app, net, dev
  <2>5. QED
    BY <2>2, <2>3, <2>4 DEF Inv
<1>3. QED
  BY <1>1, <1>2

(* Every step keeps the invariant. *)
LEMMA NextInv == Inv /\ [Next]_vars => Inv'
<1> SUFFICES ASSUME Inv, [Next]_vars PROVE Inv'
  OBVIOUS
<1>1. CASE Application
  BY <1>1, BootFromConfigInv, DirectConnectInv, ConnConfigureInv, ConnPollInv, ConnectedInv,
     SaveEraseInv, SaveWriteInv, BroadcastedInv, FailedInv, SoftAPConfigureInv DEF
     Application
<1>2. CASE BootDirect
  BY <1>2, BootDirectInv
<1>3. ASSUME NEW n \in Nets, LanConfig(n) \/ DirectDone(n) PROVE Inv'
  BY <1>3, LanConfigInv, DirectDoneInv
<1>4. CASE ResetSave \/ ResetChip \/ PowerCycle
  BY <1>4, ResetSaveInv, BootInv DEF ResetChip, PowerCycle
<1>5. CASE SysMgmt
  BY <1>5, SysLinkUpInv, SysDhcpStopsInv, SysDhcpDoneInv, SysLinkDownInv, SysJoinFailInv,
     SysOtherInv DEF SysMgmt
<1>6. CASE JoinOk \/ JoinFails \/ LinkLost \/ DhcpAck
  BY <1>6, JoinOkInv, JoinFailsInv, LinkLostInv, DhcpAckInv
<1>7. CASE UNCHANGED vars
  <2>1. TypeOK' /\ NoRogueDhcp' /\ Driver' /\ Starting' /\ Attempt'
    BY <1>7 DEF Inv, TypeOK, NoRogueDhcp, Driver, Starting, Attempt, vars, app, net, dev
  <2>2. QED
    BY <2>1 DEF Inv
<1>8. QED
  BY <1>1, <1>2, <1>3, <1>4, <1>5, <1>6, <1>7 DEF Next
-----------------------------------------------------------------------------
(* The inductive invariant holds in every behaviour. *)
THEOREM OnboardingInv == Spec => []Inv
<1>1. Init => Inv
  BY InitInv
<1>2. Inv /\ [Next]_vars => Inv'
  BY NextInv
<1>3. QED
  BY <1>1, <1>2, PTL DEF Spec

(* The variables of the application, the system management task and the    *)
(* driver keep their types.                                                *)
THEOREM OnboardingTypeOK == Spec => []TypeOK
<1>1. Inv => TypeOK
  BY DEF Inv
<1>2. QED
  BY <1>1, OnboardingInv, PTL

(* The DHCP server runs in SoftAP mode only, and an address is asked for   *)
(* in station mode only, in every order of the tasks, the driver and the   *)
(* phone (lwIP.c:159-211).                                                 *)
THEOREM OnboardingNoRogueDhcp == Spec => []NoRogueDhcp
<1>1. Inv => NoRogueDhcp
  BY DEF Inv
<1>2. QED
  BY <1>1, OnboardingInv, PTL

(* Only SaveWrite writes a network, and its credentials are the ones of    *)
(* the last link that came up (lan.c:60-64, wifi_conn.c:261-267).          *)
THEOREM OnboardingSavedNetWasLinked == Spec => SavedNetWasLinked
<1> DEFINE Step == (flash' # flash /\ flash' \in Saved) => flash' = Stored(lastUp)
<1>1. Inv /\ [Next]_vars => [Step]_vars
  <2> SUFFICES ASSUME Inv, Next, flash' # flash, flash' \in Saved PROVE flash' = Stored(lastUp)
    OBVIOUS
  <2>1. SaveErase \/ SaveWrite \/ ResetSave
    BY DEF Next, Application, SysMgmt, BootFromConfig, DirectConnect, ConnConfigure,
       ConnPoll, Connected, Broadcasted, Failed, SoftAPConfigure, BootDirect, LanConfig,
       DirectDone, ResetChip, PowerCycle, SysLinkUp, SysDhcpStops, SysDhcpDone, SysLinkDown,
       SysJoinFail, SysOther, JoinOk, JoinFails, LinkLost, DhcpAck
  <2>2. Blank \notin Saved /\ NoNet \notin Saved
    BY NetAssumption DEF Saved
  <2>3. SaveWrite /\ flash' = Stored(ssid)
    BY <2>1, <2>2 DEF SaveErase, SaveWrite, ResetSave
  <2>4. lastUp = ssid
    BY <2>3 DEF SaveWrite, Inv, Attempt
  <2>5. QED
    BY <2>3, <2>4
<1>2. QED
  BY <1>1, OnboardingInv, PTL DEF Spec, SavedNetWasLinked
=============================================================================
