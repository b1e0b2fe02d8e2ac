----------------------------- MODULE TcpServer -----------------------------
(***************************************************************************)
(* tcp/src/tcp_process.c: tcp_server_process, a single thread that serves  *)
(* all connections with select and finds lines in their byte streams, and  *)
(* tcp_client_process, which sends a line and waits for the reply.  Other  *)
(* clients (Impatient) send when they like, without waiting, also lines    *)
(* that do not fit the server's buffer, and leave when they like.          *)
(*                                                                         *)
(* Byte <<k, j>> is the j-th byte of line k of its client; its last byte   *)
(* is the newline.  TCP delivers bytes in order, any number at a time.  A  *)
(* reply is two pieces, its text and its newline.                          *)
(***************************************************************************)
EXTENDS Naturals, Sequences, FiniteSets

CONSTANTS Clients,
          Impatient,      \* those that are not tcp_client_process
          BufSize,        \* MAX_BUFFER_SIZE
          Lengths,        \* of the lines of tcp_client_process, the newline included
          LongLengths,    \* of the lines of the others
          MaxLines        \* bound: lines a client sends

ASSUME TcpAssumption ==
    /\ Impatient \subseteq Clients
    /\ BufSize \in Nat \ {0} /\ MaxLines \in Nat
    /\ Lengths \subseteq 1 .. BufSize
    /\ LongLengths \subseteq Nat \ {0}

VARIABLES
    srv, exit_flag,           \* tcp_server_process
    conns,                    \* srv.connection_list
    rfds, todo,               \* what select reported; what the loop has not looked at yet
    request,                  \* connection->request, request_used bytes of it
    handled,                  \* the lines given to the reciever
    client, lines,            \* each client; the lines it has sent, [len, stop]
    up, down                  \* the byte streams to and from the server

serverVars == <<srv, exit_flag, conns, rfds, todo>>
vars == <<serverVars, request, handled, client, lines, up, down>>

Listener == "listener"        \* the descriptor that is ready when a client connects
ASSUME ListenerAssumption == Listener \notin Clients

SX == INSTANCE SequencesExt
Patient == Clients \ Impatient

Line(c, k) == [j \in 1 .. lines[c][k].len |-> <<k, j>>]
IsNewline(c, b) == b[2] = lines[c][b[1]].len

\* A client's own end: "left" is closed.
Connected(c) == client[c] \in {"idle", "sent", "astray"}
InList(c) == \E i \in 1 .. Len(conns) : conns[i] = c

-----------------------------------------------------------------------------
Init ==
    /\ srv = "select" /\ exit_flag = FALSE
    /\ conns = << >> /\ rfds = {} /\ todo = << >>
    /\ request = [c \in Clients |-> << >>]
    /\ handled = [c \in Clients |-> 0]
    /\ client = [c \in Clients |-> "new"]
    /\ lines = [c \in Clients |-> << >>]
    /\ up = [c \in Clients |-> << >>]
    /\ down = [c \in Clients |-> << >>]

-----------------------------------------------------------------------------
(* The clients.                                                            *)
Running == srv \notin {"ended", "killed"}

Connect(c) ==
    /\ client[c] = "new" /\ Running
    /\ client' = [client EXCEPT ![c] = "connecting"]
    /\ UNCHANGED <<serverVars, request, handled, lines, up, down>>

Send(c, len, stop) ==
    /\ client[c] = "idle"
    /\ Len(lines[c]) < MaxLines
    /\ lines' = [lines EXCEPT ![c] = Append(@, [len |-> len, stop |-> stop])]
    /\ up' = [up EXCEPT ![c] = @ \o [j \in 1 .. len |-> <<Len(lines[c]) + 1, j>>]]
    /\ client' = [client EXCEPT ![c] = IF c \in Impatient THEN "idle" ELSE "sent"]
    /\ UNCHANGED <<serverVars, request, handled, down>>

\* tcp_client_process reads the reply.  If the newline has not come yet it
\* goes on with a null pointer: undefined, "astray".
ReadReply(c) ==
    /\ client[c] = "sent"
    /\ \E n \in 1 .. Len(down[c]) :
          /\ down' = [down EXCEPT ![c] = SubSeq(@, n + 1, Len(@))]
          /\ client' = [client EXCEPT ![c] =
                IF \E i \in 1 .. n : down[c][i] = "newline" THEN "idle" ELSE "astray"]
    /\ UNCHANGED <<serverVars, request, handled, lines, up>>

\* The server has closed the connection: read returns nothing more.
ReadEnd(c) ==
    /\ client[c] = "sent" /\ down[c] = << >>
    /\ ~InList(c)
    /\ client' = [client EXCEPT ![c] = "left"]
    /\ UNCHANGED <<serverVars, request, handled, lines, up, down>>

tcp_client_process(c) == c \in Patient /\ (ReadReply(c) \/ ReadEnd(c))

\* A client leaves, with the replies read or not; tcp_client_process does so before its first line when its
\* exit_flag, which is not initialised, happens to be set.
Leave(c) ==
    /\ client[c] = "idle"
    /\ c \in Impatient \/ lines[c] = << >>
    /\ client' = [client EXCEPT ![c] = "left"]
    /\ down' \in {down, [down EXCEPT ![c] = << >>]}
    /\ UNCHANGED <<serverVars, request, handled, lines, up>>

-----------------------------------------------------------------------------
(* tcp_server_process                                                      *)
Readable(c) == up[c] # << >> \/ client[c] = "left"
Waiting == {c \in Clients : client[c] = "connecting"}

Select ==
    /\ srv = "select" /\ ~exit_flag
    /\ rfds' = {c \in Clients : InList(c) /\ Readable(c)}
               \cup (IF Waiting # {} THEN {Listener} ELSE {})
    /\ rfds' # {}
    /\ srv' = "accept"
    /\ UNCHANGED <<exit_flag, conns, todo, request, handled, client, lines, up, down>>

\* accept and connection_add; the loop over the connections begins.
Accept ==
    /\ srv = "accept"
    /\ srv' = "serve"
    /\ \/ /\ Listener \in rfds
          /\ \E c \in Waiting :
                /\ conns' = Append(conns, c)
                /\ client' = [client EXCEPT ![c] = "idle"]
       \/ /\ Listener \notin rfds
          /\ UNCHANGED <<conns, client>>
    /\ todo' = conns'
    /\ UNCHANGED <<exit_flag, rfds, request, handled, lines, up, down>>

\* Mutant: the loop does not ask whether select has reported the connection.
IsSetAny(c) == TRUE

IsSet(c) == c \in rfds

\* Mutant: one byte more than the buffer has.
RemainderOffByOne(c) == BufSize + 1 - Len(request[c])

Remainder(c) == BufSize - Len(request[c])

\* Mutant: a full buffer ends the round.
SkipRest ==
    /\ srv = "serve" /\ ~exit_flag /\ todo # << >>
    /\ ~IsSet(Head(todo)) \/ Remainder(Head(todo)) <= 0
    /\ todo' = IF IsSet(Head(todo)) THEN << >> ELSE Tail(todo)
    /\ UNCHANGED <<srv, exit_flag, conns, rfds, request, handled, client, lines, up, down>>

\* A connection without data, or with a full buffer, is passed over.
Skip ==
    /\ srv = "serve" /\ ~exit_flag /\ todo # << >>
    /\ ~IsSet(Head(todo)) \/ Remainder(Head(todo)) <= 0
    /\ todo' = Tail(todo)
    /\ UNCHANGED <<srv, exit_flag, conns, rfds, request, handled, client, lines, up, down>>

Reading(c) ==
    /\ srv = "serve" /\ ~exit_flag /\ todo # << >>
    /\ c = Head(todo) /\ IsSet(c) /\ Remainder(c) > 0

\* read returns 0, or an error when the client has left with replies unread.
Delete(c) ==
    /\ Reading(c)
    /\ client[c] = "left"
    /\ up[c] = << >> \/ down[c] # << >>
    /\ \E i \in 1 .. Len(conns) : conns[i] = c /\ conns' = SX!RemoveAt(conns, i)
    /\ todo' = Tail(todo)
    /\ UNCHANGED <<srv, exit_flag, rfds, request, handled, client, lines, up, down>>

\* Mutant: what follows the line is thrown away with it.
RestDropped(buf, endl) == << >>

\* memmove: what follows the line moves to the front.
Rest(buf, endl) == SubSeq(buf, endl + 1, Len(buf))

\* Mutant: the stop command is only answered.
RecieverNoStop(stop) == exit_flag

\* The reciever raises the flag at STOP, QUIT and EXIT.
Reciever(stop) == exit_flag \/ stop

\* A second write to a client that has left raises SIGPIPE, which nobody
\* handles.
WriteKills(c) == client[c] = "left" /\ down[c] # << >>

\* read n bytes; the first line in the buffer, if any, is given to the
\* reciever and answered.
Serve(c, n) ==
    /\ Reading(c)
    /\ n <= Remainder(c) /\ n <= Len(up[c])
    /\ up' = [up EXCEPT ![c] = SubSeq(@, n + 1, Len(@))]
    /\ todo' = Tail(todo)
    /\ LET buf == request[c] \o SubSeq(up[c], 1, n)
           ends == {i \in 1 .. Len(buf) : IsNewline(c, buf[i])}
       IN \/ /\ ends = {}
             /\ request' = [request EXCEPT ![c] = buf]
             /\ UNCHANGED <<srv, exit_flag, handled, down>>
          \/ \E endl \in ends :
             /\ \A i \in ends : endl <= i
             /\ request' = [request EXCEPT ![c] = Rest(buf, endl)]
             /\ handled' = [handled EXCEPT ![c] = @ + 1]
             /\ exit_flag' = Reciever(lines[c][buf[endl][1]].stop)
             /\ down' = [down EXCEPT ![c] =
                            IF c \in Impatient THEN <<"text">> ELSE @ \o <<"text", "newline">>]
             /\ srv' = IF WriteKills(c) THEN "killed" ELSE srv
    /\ UNCHANGED <<conns, rfds, client, lines>>

EndOfRound ==
    /\ srv = "serve"
    /\ exit_flag \/ todo = << >>
    /\ srv' = "select"
    /\ todo' = << >> /\ rfds' = {}
    /\ UNCHANGED <<exit_flag, conns, request, handled, client, lines, up, down>>

\* close and server_destroy; clients that are not accepted are refused.
server_destroy ==
    /\ srv = "select" /\ exit_flag
    /\ srv' = "ended"
    /\ conns' = << >>
    /\ client' = [c \in Clients |-> IF c \in Waiting THEN "left" ELSE client[c]]
    /\ UNCHANGED <<exit_flag, rfds, todo, request, handled, lines, up, down>>

\* The kernel closes what a killed server had open.
Killed ==
    /\ srv = "killed" /\ conns # << >>
    /\ conns' = << >>
    /\ UNCHANGED <<srv, exit_flag, rfds, todo, request, handled, client, lines, up, down>>

tcp_server_process ==
    \/ Select \/ Accept \/ Skip \/ EndOfRound \/ server_destroy \/ Killed
    \/ \E c \in Clients : Delete(c) \/ \E n \in 1 .. BufSize : Serve(c, n)

-----------------------------------------------------------------------------
Next ==
    \/ tcp_server_process
    \/ \E c \in Clients : Connect(c) \/ tcp_client_process(c) \/ Leave(c)
    \/ \E c \in Patient, len \in Lengths, stop \in BOOLEAN : Send(c, len, stop)
    \/ \E c \in Impatient, len \in LongLengths, stop \in BOOLEAN : Send(c, len, stop)

(* The server is scheduled, and so is a client that waits for its reply.   *)
Fairness ==
    /\ WF_vars(tcp_server_process)
    /\ \A c \in Clients : WF_vars(tcp_client_process(c))

Spec == Init /\ [][Next]_vars /\ Fairness

-----------------------------------------------------------------------------
TypeOK ==
    /\ srv \in {"select", "accept", "serve", "ended", "killed"}
    /\ exit_flag \in BOOLEAN
    /\ conns \in Seq(Clients) /\ todo \in Seq(Clients)
    /\ rfds \subseteq Clients \cup {Listener}
    /\ \A c \in Clients :
          /\ Len(request[c]) <= BufSize
          /\ handled[c] \in 0 .. Len(lines[c])
          /\ client[c] \in {"new", "connecting", "idle", "sent", "astray", "left"}
          /\ \A i \in 1 .. Len(down[c]) : down[c][i] \in {"text", "newline"}

\* However the stream is cut into reads, what is in the buffer and still on
\* its way is exactly the lines not handled yet: none is lost, joined with
\* another, handled twice or out of order.
StreamIntact ==
    \A c \in Clients :
        request[c] \o up[c] =
            SX!FlattenSeq([i \in 1 .. Len(lines[c]) - handled[c] |-> Line(c, handled[c] + i)])

\* The server never sleeps in read() on one client while the others wait.
NeverBlocksInRead ==
    \A c \in Clients : Reading(c) => Readable(c)

\* tcp_client_process is not left waiting for ever: it has its reply, or the
\* end of the connection, also while another client's buffer is full.
ClientAnswered ==
    \A c \in Patient : client[c] = "sent" ~> client[c] # "sent"

\* A server that has handled STOP does not go on serving.
ServerStops ==
    (\E c \in Clients : \E k \in 1 .. handled[c] : lines[c][k].stop) ~> ~Running
=============================================================================
