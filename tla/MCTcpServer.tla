---------------------------- MODULE MCTcpServer ----------------------------
(* One tcp_client_process and one client that sends without waiting, lines  *)
(* that fit the buffer of three bytes twice, once or not at all.            *)
EXTENDS TcpServer

CONSTANTS c1, c2

MCClients == {c1, c2}
MCImpatient == {c2}
MCLengths == {2, 3}
MCLongLengths == {1, 3, 5}
=============================================================================
