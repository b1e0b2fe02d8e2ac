----------------------------- MODULE Messenger -----------------------------
(***************************************************************************)
(* messenger/src/messenger.c with examples/client.c and server.c: a client *)
(* and a server, two processes of two threads each.                        *)
(*                                                                         *)
(*   client   the main thread (tcp_client_process) reads the user's lines, *)
(*            connects, and writes a line to a connection; event_thread    *)
(*            waits in epoll_pwait and deletes connections that have ended *)
(*   server   the listen thread (tcp_server_process) accepts, reads and    *)
(*            executes; the main thread polls exit_flag and destroys       *)
(*                                                                         *)
(* SIGUSR2 is blocked in every thread except inside epoll_pwait, where it  *)
(* ends the wait.  Both connection lists are shared without a lock: where  *)
(* a freed connection is used or the list is changed by two threads at     *)
(* once, the process may crash or may go on.  The server never writes:     *)
(* send_replies_callback is not called by anyone.                          *)
(*                                                                         *)
(* A line is the set of keywords in it and whether it has an address; on a *)
(* connection it is its text and its newline, which reads may separate.    *)
(***************************************************************************)
EXTENDS Integers, Sequences, FiniteSets, FiniteSetsExt

CONSTANTS Lines,        \* what the user may enter: records of words and addr
          MaxLines,     \* bound: lines entered
          MaxConn,      \* bound: connections made
          BufCap        \* texts and newlines that fit a connection's buffer: a line does

Conns == 1 .. MaxConn

ASSUME MessengerAssumption ==
    /\ MaxLines \in Nat /\ MaxConn \in Nat /\ BufCap \in Nat \ {0, 1}
    /\ \A l \in Lines : l.addr \in BOOLEAN

VARIABLES
    cpc, line, cmd, target,     \* the client's main thread
    epc, ebatch,                \* its event thread, and the events it has to handle
    cexit, csig, clist, cwatch, \* exit_flag, SIGUSR2 pending, the list, the epoll set
    spc,                        \* the server's main thread
    lpc, batch,                 \* its listen thread, and the events it has to handle
    sexit, slist, swatch, sbuf, \* exit_flag, the list, the epoll set, the buffers
    backlog, flight,            \* connections to accept, what is on its way to the server
    cOpen, sOpen,               \* the ends of a connection that are open
    nlines,
    misread                     \* connections whose STOP was once taken for something else

mainVars == <<cpc, line, cmd, target, nlines>>
eventVars == <<epc, ebatch>>
clientVars == <<cexit, csig, clist, cwatch>>
listenVars == <<lpc, batch>>
serverVars == <<sexit, slist, swatch, sbuf, misread>>
netVars == <<backlog, flight, cOpen, sOpen>>
clientSide == <<mainVars, eventVars, clientVars>>
serverSide == <<spc, listenVars, serverVars>>
vars == <<clientSide, serverSide, netVars>>

Cmds == {"QUIT", "STATUS", "SET", "GET", "START", "STOP", "CONFIG", "CONNECT"}
Sent == {"STOP", "START", "SET", "GET"}

\* A later keyword wins.  Without one msg->cmd is what malloc left in it.
KeywordOrder == <<"CONNECT", "START", "STOP", "STATUS", "SET", "GET", "CONFIG", "QUIT">>
parse_api_request(words) ==
    LET found == {k \in 1 .. 8 : KeywordOrder[k] \in words}
    IN IF found = {} THEN Cmds ELSE {KeywordOrder[Max(found)]}

\* The server's copy of a line (strncpy of strlen characters) has no zero at its
\* end: whatever malloc left behind it is searched for keywords as well, and the
\* one that counts most there may win over those of the line.
Leftovers == {{}} \cup {{w} : w \in Cmds}
parse_unterminated(words) == UNION {parse_api_request(words \cup left) : left \in Leftovers}

Init ==
    /\ cpc = "start" /\ line = [words |-> {}, addr |-> FALSE] /\ cmd = "QUIT"
    /\ target = 0 /\ nlines = 0
    /\ epc = "none" /\ ebatch = {}
    /\ cexit = FALSE /\ csig = FALSE /\ clist = {} /\ cwatch = {}
    /\ spc = "poll" /\ lpc = "start" /\ batch = {}
    /\ sexit = FALSE /\ slist = {} /\ swatch = {} /\ sbuf = [c \in Conns |-> << >>]
    /\ misread = {} /\ backlog = << >> /\ flight = [c \in Conns |-> << >>]
    /\ cOpen = {} /\ sOpen = {}

Made == cOpen \cup sOpen \cup slist \cup clist \cup {c \in Conns : flight[c] # << >> \/ sbuf[c] # << >>}

ClientRuns == cpc \notin {"ended", "crashed"}
ServerRuns == spc \notin {"ended", "crashed"}
Listening == ServerRuns /\ lpc \notin {"start", "failed", "ended"}

\* The end of a process closes its connections.
ClientDown(how) == cpc' = how /\ cOpen' = {}
ServerDown(how) == spc' = how /\ sOpen' = {} /\ backlog' = << >>

\* Mutant: epoll_wait (#if 0), which a blocked signal does not end.
NotInterrupted(signal) == FALSE

\* epoll_pwait unblocks the signal.
Interrupted(signal) == signal

-----------------------------------------------------------------------------
(* The client's main thread.                                               *)

\* client_create and the beginning of tcp_client_process.  Without an epoll
\* descriptor it returns.
ClientStart ==
    /\ cpc = "start"
    /\ \/ cpc' = "loop" /\ epc' = "test"
       \/ cpc' = "destroy" /\ epc' = epc
    /\ UNCHANGED <<line, cmd, target, nlines, ebatch, clientVars, serverSide, netVars>>

ClientLoop ==
    /\ cpc = "loop"
    /\ cpc' = IF cexit THEN "join" ELSE "read"
    /\ UNCHANGED <<line, cmd, target, nlines, eventVars, clientVars, serverSide, netVars>>

\* default_read_action and parse_api_request.  An empty line is not taken from
\* the input: it is read again and again as a line without keywords.
ReadLine ==
    /\ cpc = "read" /\ nlines < MaxLines
    /\ nlines' = nlines + 1
    /\ line' \in Lines /\ cmd' \in parse_api_request(line'.words)
    /\ cpc' = "exec"
    /\ UNCHANGED <<target, eventVars, clientVars, serverSide, netVars>>

ExecuteQuit ==
    /\ cpc = "exec" /\ cmd = "QUIT"
    /\ cexit' = TRUE /\ cpc' = "kill"
    /\ UNCHANGED <<line, cmd, target, nlines, eventVars, csig, clist, cwatch, serverSide, netVars>>

KillEventThread ==
    /\ cpc = "kill"
    /\ csig' = TRUE /\ cpc' = "loop"
    /\ UNCHANGED <<line, cmd, target, nlines, eventVars, cexit, clist, cwatch, serverSide, netVars>>

\* Status, an unknown command, or msg_get_connect_information finds no address.
ExecuteNothing ==
    /\ cpc = "exec"
    /\ cmd \in {"STATUS", "CONFIG"} \/ (cmd \in Sent \cup {"CONNECT"} /\ ~line.addr)
    /\ cpc' = "loop"
    /\ UNCHANGED <<line, cmd, target, nlines, eventVars, clientVars, serverSide, netVars>>

\* connection_get: the first connection to that address.
connection_get ==
    /\ cpc = "exec" /\ cmd \in Sent /\ line.addr
    /\ target' = IF clist = {} THEN 0 ELSE Min(clist)
    /\ cpc' = IF clist = {} THEN "connect" ELSE "write"
    /\ UNCHANGED <<line, cmd, nlines, eventVars, clientVars, serverSide, netVars>>

BeginConnect ==
    /\ cpc = "exec" /\ cmd = "CONNECT" /\ line.addr
    /\ cpc' = "connect"
    /\ UNCHANGED <<line, cmd, target, nlines, eventVars, clientVars, serverSide, netVars>>

\* client_add_connection up to connect.
Connect ==
    /\ cpc = "connect"
    /\ \/ /\ cpc' = "loop" /\ UNCHANGED <<target, netVars>>
       \/ /\ Listening /\ Made # Conns
          /\ target' = Min(Conns \ Made) /\ cpc' = "add"
          /\ cOpen' = cOpen \cup {target'} /\ sOpen' = sOpen \cup {target'}
          /\ backlog' = Append(backlog, target') /\ flight' = flight
    /\ UNCHANGED <<line, cmd, nlines, eventVars, clientVars, serverSide>>

\* connection_add
AddToList ==
    /\ cpc = "add"
    /\ clist' = clist \cup {target} /\ cpc' = "watch"
    /\ UNCHANGED <<line, cmd, target, nlines, eventVars, cexit, csig, cwatch, serverSide, netVars>>

\* epoll_ctl.  If it fails the connection is freed twice.  After a reconnect the
\* null pointer of connection_get is used.
AddToEpoll ==
    /\ cpc = "watch"
    /\ \/ cmd = "CONNECT" /\ cpc' = "loop" /\ cwatch' = cwatch \cup {target} /\ cOpen' = cOpen
       \/ ClientDown("crashed") /\ cwatch' = cwatch
    /\ UNCHANGED <<line, cmd, target, nlines, eventVars, cexit, csig, clist, serverSide,
                   backlog, flight, sOpen>>

client_add_connection == Connect \/ AddToList \/ AddToEpoll

Text(words) == [nl |-> FALSE, words |-> words]
Newline == [nl |-> TRUE, words |-> {}]

\* write.  If the event thread has deleted the connection meanwhile, freed
\* memory says where to; if the server has closed it, SIGPIPE may end the client.
WriteLine ==
    /\ cpc = "write"
    /\ IF target \in clist /\ target \in sOpen
       THEN /\ flight' = [flight EXCEPT ![target] = @ \o <<Text(line.words), Newline>>]
            /\ cpc' = "loop" /\ cOpen' = cOpen
       ELSE /\ flight' = flight
            /\ (cpc' = "loop" /\ cOpen' = cOpen) \/ ClientDown("crashed")
    /\ UNCHANGED <<line, cmd, target, nlines, eventVars, clientVars, serverSide, backlog, sOpen>>

client_execute_callback ==
    ExecuteQuit \/ KillEventThread \/ ExecuteNothing \/ connection_get \/ BeginConnect \/ WriteLine

JoinEventThread ==
    /\ cpc = "join" /\ epc = "ended"
    /\ cpc' = "destroy"
    /\ UNCHANGED <<line, cmd, target, nlines, eventVars, clientVars, serverSide, netVars>>

client_destroy ==
    /\ cpc = "destroy"
    /\ ClientDown("ended") /\ clist' = {} /\ cwatch' = {}
    /\ UNCHANGED <<line, cmd, target, nlines, eventVars, cexit, csig, serverSide,
                   backlog, flight, sOpen>>

ClientStep ==
    \/ ClientStart \/ ClientLoop
    \/ client_execute_callback \/ client_add_connection
    \/ JoinEventThread \/ client_destroy

tcp_client_process == ReadLine \/ ClientStep

-----------------------------------------------------------------------------
(* event_thread                                                            *)
ClientReady == {c \in cwatch : c \notin sOpen}

EventTest ==
    /\ epc = "test"
    /\ epc' = IF cexit THEN "ended" ELSE "wait"
    /\ UNCHANGED <<mainVars, ebatch, clientVars, serverSide, netVars>>

\* The wait ends with a signal or with all the events there are.
EventWait ==
    /\ epc = "wait"
    /\ \/ Interrupted(csig) /\ csig' = FALSE /\ epc' = "woken" /\ ebatch' = {}
       \/ ClientReady # {} /\ csig' = csig /\ epc' = "woken" /\ ebatch' = ClientReady
    /\ UNCHANGED <<mainVars, cexit, clist, cwatch, serverSide, netVars>>

\* An error that is not EINTR: the thread returns.
EventWaitFails ==
    /\ epc = "wait"
    /\ epc' = "ended"
    /\ UNCHANGED <<mainVars, ebatch, clientVars, serverSide, netVars>>

EventWoken ==
    /\ epc = "woken"
    /\ epc' = IF cexit THEN "ended" ELSE "batch"
    /\ UNCHANGED <<mainVars, ebatch, clientVars, serverSide, netVars>>

\* Mutant: the descriptor of a deleted connection stays open.
DeleteWithoutClose(list, watch, open, c) ==
    /\ list' = list \ {c} /\ watch' = watch /\ open' = open

\* connection_delete: a closed descriptor leaves the epoll set.
connection_delete(list, watch, open, c) ==
    /\ list' = list \ {c} /\ watch' = watch \ {c} /\ open' = open \ {c}

\* The only event there is: the server's end is closed.  The main thread may be
\* adding to the list at that moment.
EventHandle(c) ==
    /\ epc = "batch" /\ c \in ebatch
    /\ ebatch' = ebatch \ {c}
    /\ connection_delete(clist, cwatch, cOpen, c) /\ cpc' = cpc
    /\ UNCHANGED <<line, cmd, target, nlines, epc, cexit, csig, serverSide, backlog, flight, sOpen>>

EventRace ==
    /\ epc = "batch" /\ ebatch # {} /\ (cpc = "add" \/ (cpc = "exec" /\ cmd \in Sent))
    /\ ClientDown("crashed")
    /\ UNCHANGED <<line, cmd, target, nlines, eventVars, clientVars, serverSide, backlog, flight, sOpen>>

EventBatchEnd ==
    /\ epc = "batch" /\ ebatch = {}
    /\ epc' = "test"
    /\ UNCHANGED <<mainVars, ebatch, clientVars, serverSide, netVars>>

EventStep ==
    \/ EventTest \/ EventWait \/ EventWoken \/ EventBatchEnd
    \/ \E c \in Conns : EventHandle(c)

event_thread == EventStep \/ EventWaitFails \/ EventRace

-----------------------------------------------------------------------------
(* tcp_server_process, the listen thread.                                  *)
Listen == 0        \* the event of the listening socket

ServerReady ==
    {c \in swatch : flight[c] # << >> \/ c \notin cOpen}
    \cup {e \in {Listen} : backlog # << >>}

\* The sockets are set up, or the thread returns and nobody notices.
ListenStart ==
    /\ lpc = "start"
    /\ lpc' \in {"test", "failed"}
    /\ UNCHANGED <<clientSide, spc, batch, serverVars, netVars>>

ListenTest ==
    /\ lpc = "test"
    /\ lpc' = IF sexit THEN "close" ELSE "wait"
    /\ UNCHANGED <<clientSide, spc, batch, serverVars, netVars>>

\* SIGUSR2 is sent to the listen thread by itself only, with exit_flag set: it
\* is never waiting when it comes.
ListenWait ==
    /\ lpc = "wait" /\ ServerReady # {}
    /\ batch' = ServerReady
    /\ lpc' = IF sexit THEN "close" ELSE "batch"
    /\ UNCHANGED <<clientSide, spc, serverVars, netVars>>

CloseListening == sOpen' = sOpen \ Range(backlog) /\ backlog' = << >>

\* An error that is not EINTR: the thread returns, and again nobody notices.
ListenWaitFails ==
    /\ lpc = "wait"
    /\ lpc' = "failed"
    /\ CloseListening
    /\ UNCHANGED <<clientSide, spc, batch, serverVars, flight, cOpen>>

\* accept and server_add_connection, which frees twice if epoll_ctl fails.
server_add_connection ==
    /\ lpc = "batch" /\ Listen \in batch
    /\ batch' = batch \ {Listen}
    /\ \/ /\ slist' = slist \cup {Head(backlog)} /\ swatch' = swatch \cup {Head(backlog)}
          /\ backlog' = Tail(backlog) /\ UNCHANGED <<spc, sOpen>>
       \/ ServerDown("crashed") /\ UNCHANGED <<slist, swatch>>
    /\ UNCHANGED <<clientSide, lpc, sexit, sbuf, misread, flight, cOpen>>

\* accept fails: that connection is gone.
AcceptFails ==
    /\ lpc = "batch" /\ Listen \in batch
    /\ batch' = batch \ {Listen}
    /\ sOpen' = sOpen \ {Head(backlog)} /\ backlog' = Tail(backlog)
    /\ UNCHANGED <<clientSide, spc, lpc, serverVars, flight, cOpen>>

\* read_connection_data: the buffer is full, or the client has gone.
ServerCloses(c) ==
    /\ lpc = "batch" /\ c \in batch \cap slist
    /\ Len(sbuf[c]) >= BufCap \/ (flight[c] = << >> /\ c \notin cOpen)
    /\ batch' = batch \ {c}
    /\ connection_delete(slist, swatch, sOpen, c)
    /\ UNCHANGED <<clientSide, spc, lpc, sexit, sbuf, misread, backlog, flight, cOpen>>

\* Mutant: STOP sends the signal only.
ExecuteSignalOnly(c) == sexit' = sexit

\* server_execute_callback
server_execute_callback(c) == sexit' = (sexit \/ c = "STOP")

\* connection_extract_message: the first newline becomes a zero and the message
\* is the text in front of the first zero.  Nothing is taken from the buffer, so
\* that the first line of a connection is executed with every line after it.
\* Without a newline a null pointer plus one is moved from.
Newlines(buf) == {k \in 1 .. Len(buf) : buf[k].nl /\ buf[k].words = {}}
Zero == [nl |-> TRUE, words |-> {"0"}]

SaysStop(buf) == parse_api_request(buf[1].words) = {"STOP"}

connection_extract_message(c, buf) ==
    IF Newlines(buf) = {}
    THEN ServerDown("crashed") /\ UNCHANGED <<sexit, sbuf, misread>>
    ELSE /\ sbuf' = [sbuf EXCEPT ![c] = [buf EXCEPT ![Min(Newlines(buf))] = Zero]]
         /\ \E m \in parse_unterminated(buf[1].words) :
              /\ server_execute_callback(m)
              /\ misread' = misread \cup {d \in {c} : m # "STOP" /\ SaysStop(buf)}
         /\ UNCHANGED <<spc, sOpen, backlog>>

ServerReads(c) ==
    /\ lpc = "batch" /\ c \in batch \cap slist
    /\ \E n \in 1 .. Min({Len(flight[c]), BufCap - Len(sbuf[c])}) :
        /\ flight' = [flight EXCEPT ![c] = SubSeq(@, n + 1, Len(@))]
        /\ connection_extract_message(c, sbuf[c] \o SubSeq(flight[c], 1, n))
    /\ batch' = batch \ {c}
    /\ UNCHANGED <<clientSide, lpc, slist, swatch, cOpen>>

\* The main thread has freed the connection, or is at the list as well.
ListenRace(e) ==
    /\ lpc = "batch" /\ e \in batch
    /\ spc = "destroy" \/ (spc = "join" /\ e \notin slist \cup {Listen})
    /\ \/ ServerDown("crashed") /\ batch' = batch
       \/ batch' = batch \ {e} /\ UNCHANGED <<spc, sOpen, backlog>>
    /\ UNCHANGED <<clientSide, lpc, serverVars, flight, cOpen>>

ListenBatchEnd ==
    /\ lpc = "batch" /\ batch = {}
    /\ lpc' = "test"
    /\ UNCHANGED <<clientSide, spc, batch, serverVars, netVars>>

ListenClose ==
    /\ lpc = "close"
    /\ lpc' = "ended"
    /\ CloseListening
    /\ UNCHANGED <<clientSide, spc, batch, serverVars, flight, cOpen>>

ListenStep ==
    \/ ListenStart \/ ListenTest \/ ListenWait
    \/ server_add_connection \/ AcceptFails \/ ListenBatchEnd \/ ListenClose
    \/ \E c \in Conns : ServerCloses(c) \/ ServerReads(c)
    \/ \E e \in batch : ListenRace(e)

tcp_server_process == ListenStep \/ ListenWaitFails

-----------------------------------------------------------------------------
(* The server's main thread.                                               *)
PollExitFlag ==
    /\ spc = "poll" /\ sexit
    /\ spc' = "destroy"
    /\ UNCHANGED <<clientSide, listenVars, serverVars, netVars>>

\* server_destroy: the connections are freed while the listen thread may still
\* have events for them; then it is joined, without a signal.
DestroyConnection(c) ==
    /\ spc = "destroy" /\ c \in slist
    /\ connection_delete(slist, swatch, sOpen, c)
    /\ UNCHANGED <<clientSide, spc, listenVars, sexit, sbuf, misread, backlog, flight, cOpen>>

ListIsEmpty ==
    /\ spc = "destroy" /\ slist = {}
    /\ spc' = "join"
    /\ UNCHANGED <<clientSide, listenVars, serverVars, netVars>>

JoinListenThread ==
    /\ spc = "join" /\ lpc = "ended"
    /\ ServerDown("ended")
    /\ UNCHANGED <<clientSide, listenVars, serverVars, flight, cOpen>>

server_destroy == ListIsEmpty \/ JoinListenThread \/ \E c \in Conns : DestroyConnection(c)

ClientMain == ClientRuns /\ tcp_client_process
ClientEvents == ClientRuns /\ event_thread
ServerListens == ServerRuns /\ tcp_server_process
ServerMain == ServerRuns /\ (PollExitFlag \/ server_destroy)

Next == ClientMain \/ ClientEvents \/ ServerListens \/ ServerMain

\* Every thread that can run runs.  The user need not enter anything, and no
\* wait has to fail.
Spec ==
    /\ Init /\ [][Next]_vars
    /\ WF_vars(ClientRuns /\ ClientStep) /\ WF_vars(ClientRuns /\ EventStep)
    /\ WF_vars(ServerRuns /\ ListenStep) /\ WF_vars(ServerMain)

-----------------------------------------------------------------------------
\* An event waiting to be handled points to a connection that exists: deleting
\* one while others of the batch are still to come leaves no pointer behind.
\* Only server_destroy breaks this, after the STOP that let it run.
EventsPointToConnections ==
    /\ ClientRuns => ebatch \subseteq clist
    /\ ServerRuns /\ ~sexit => batch \ {Listen} \subseteq slist

\* QUIT ends the client, wherever its event thread is when the signal comes:
\* about to wait, waiting or handling events.
QuitEnds == cexit ~> ~ClientRuns

\* A STOP that is the first line of an accepted connection ends the server,
\* whatever other connections do and whatever else is in its buffers, unless the
\* text that lies behind the copy of the line makes another command of it: main
\* sees exit_flag, and the listen thread it joins without a signal is not waiting.
StopSent(c) == c \in slist /\ sbuf[c] = << >> /\ Len(flight[c]) > 1 /\ SaysStop(flight[c])
StopEnds ==
    /\ \A c \in Conns : (ServerRuns /\ StopSent(c)) ~> (~ServerRuns \/ lpc = "failed" \/ c \in misread)
    /\ (ServerRuns /\ sexit) ~> (~ServerRuns \/ lpc = "failed")
=============================================================================
