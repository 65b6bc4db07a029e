---------------------------- MODULE MCTcpServer ----------------------------
(* As in the firmware, lwIP has one socket more than the table has slots   *)
(* once the two servers have theirs, and -1 shares the bit of the last.    *)
EXTENDS TcpServer
=============================================================================
