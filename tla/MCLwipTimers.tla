---------------------------- MODULE MCLwipTimers ----------------------------
(* Four timers with short intervals; two ticks of two milliseconds are a   *)
(* second.                                                                 *)
EXTENDS LwipTimers
MCInterval == [ip |-> 2, arp |-> 5, tcp |-> 2, tick |-> 3]
=============================================================================
