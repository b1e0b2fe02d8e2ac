---------------------------- MODULE MCMessenger ----------------------------
(* One client that makes up to two connections and enters up to four lines; *)
(* a connection's buffer holds one line and a half.  A line without         *)
(* keywords may be taken for any command.                                   *)
EXTENDS Messenger

MCLines ==
    {[words |-> w, addr |-> TRUE] : w \in {{"CONNECT"}, {"STOP"}, {}}}
    \cup {[words |-> {"STOP", "QUIT"}, addr |-> FALSE]}
=============================================================================
