---------------------------- MODULE MCDiscovery ----------------------------
(* Two interfaces, lo and one more.  Cameras on localhost, on the machine   *)
(* itself, in the interface's subnet and outside it; a datagram that is no  *)
(* acknowledge and one that is too short.                                   *)
EXTENDS Discovery

MCWanted == <<1, 2>>
MCDatagrams ==
    {[from |-> a, kind |-> "ack"] : a \in {<<0, 1>>, <<1, 1>>, MCWanted, <<2, 2>>}}
    \cup {[from |-> MCWanted, kind |-> "other"], [from |-> <<1, 3>>, kind |-> "short"]}
=============================================================================
