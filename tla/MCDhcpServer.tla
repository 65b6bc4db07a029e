---------------------------- MODULE MCDhcpServer ----------------------------
(* DhcpServer on a small pool, with more clients than addresses. *)
EXTENDS DhcpServer
=============================================================================
