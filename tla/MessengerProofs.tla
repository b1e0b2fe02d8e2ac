-------------------------- MODULE MessengerProofs --------------------------
(***************************************************************************)
(* EventsPointToConnections of Messenger, for any number of connections    *)
(* and of lines.  Neither list is protected by a lock, so that the         *)
(* argument is about what each thread may find when it runs again:         *)
(*   client   what is watched is in the list, except for the one           *)
(*            connection the main thread is adding, and that one is not    *)
(*            watched yet, so the event thread cannot have an event for it *)
(*   server   the main thread frees nothing before exit_flag is set, and   *)
(*            up to then the listen thread alone changes list and batch    *)
(***************************************************************************)
EXTENDS Messenger, WellFoundedInduction, TLAPS

\* What the client's two threads rely on.
WatchedIsListed ==
    ClientRuns =>
        /\ ebatch \subseteq cwatch /\ cwatch \subseteq clist
        /\ cpc \in {"add", "watch"} => target \notin cwatch
        /\ cpc = "watch" => target \in clist

\* What the server's listen thread relies on.
ServerListed ==
    /\ spc \in {"poll", "destroy", "join", "ended", "crashed"}
    /\ spc \in {"destroy", "join"} => sexit
    /\ ServerRuns /\ ~sexit => batch \ {Listen} \subseteq slist /\ swatch \subseteq slist

\* Connections have numbers, and accept is called only when there is a
\* connection to accept: the listen thread is the only one that takes from
\* backlog.
Numbered ==
    /\ cOpen \subseteq Conns /\ sOpen \subseteq Conns /\ slist \subseteq Conns
    /\ clist \subseteq Conns /\ swatch \subseteq Conns
    /\ batch \subseteq Conns \cup {Listen}
    /\ backlog \in Seq(Conns)
    /\ cpc = "add" => target \in Conns
    /\ ServerRuns /\ lpc = "batch" /\ Listen \in batch => backlog # << >>

MessengerInv == Numbered /\ WatchedIsListed /\ ServerListed

-----------------------------------------------------------------------------
\* The number of a new connection (Connect) is one of those that are free:
\* Min of a nonempty set of numbers is in the set.
LEMMA MinIsMember ==
    ASSUME NEW S \in SUBSET Nat, S # {}
    PROVE  Min(S) \in S
<1>1. IsWellFoundedOn(OpToRel(<, Nat), Nat)
  BY NatLessThanWellFounded
<1>2. PICK x \in S : \A y \in S : ~(<<y, x>> \in OpToRel(<, Nat))
  BY <1>1, WFMin
<1>3. \A y \in S : x <= y
  <2> TAKE y \in S
  <2>1. y \in Nat /\ x \in Nat OBVIOUS
  <2>2. y < x => <<y, x>> \in OpToRel(<, Nat) BY <2>1 DEF OpToRel
  <2>3. ~(y < x) BY <1>2, <2>2
  <2> QED BY <2>1, <2>3
<1> QED BY <1>3 DEF Min

\* A new connection has a number of its own, and nobody watches it yet.
LEMMA NewConnection ==
    ASSUME Numbered, WatchedIsListed, ClientRuns,
           Made # Conns
    PROVE  Min(Conns \ Made) \in Conns \ cwatch
<1>1. Made \subseteq Conns BY DEF Numbered, Made
<1>2. Conns \ Made # {} BY <1>1
<1>3. Conns \ Made \in SUBSET Nat BY MessengerAssumption DEF Conns
<1>4. Min(Conns \ Made) \in Conns \ Made BY <1>2, <1>3, MinIsMember
<1>5. cwatch \subseteq Made BY DEF WatchedIsListed, Made
<1> QED BY <1>4, <1>5

\* Listen is the number of no connection.
LEMMA ListenIsNone == Listen \notin Conns
BY MessengerAssumption DEF Listen, Conns

-----------------------------------------------------------------------------
\* The client's main thread keeps the invariant.
LEMMA ClientMainStep ==
    ASSUME MessengerInv, ClientMain
    PROVE  MessengerInv'
<1> USE DEF MessengerInv, ClientMain
<1>1. ClientRuns /\ tcp_client_process OBVIOUS
<1>2. CASE \/ ClientStart \/ ClientLoop \/ ReadLine \/ ExecuteQuit \/ KillEventThread
           \/ ExecuteNothing \/ connection_get \/ BeginConnect \/ JoinEventThread
  <2>1. UNCHANGED <<ebatch, clist, cwatch, serverSide, netVars>>
    BY <1>2 DEF ClientStart, ClientLoop, ReadLine, ExecuteQuit, KillEventThread, ExecuteNothing,
                connection_get, BeginConnect, JoinEventThread, clientVars, eventVars
  <2>2. cpc' \notin {"add", "watch"}
    BY <1>2 DEF ClientStart, ClientLoop, ReadLine, ExecuteQuit, KillEventThread, ExecuteNothing,
                connection_get, BeginConnect, JoinEventThread
  <2>3. Numbered' BY <2>1, <2>2 DEF Numbered, ServerRuns, serverSide, listenVars, serverVars, netVars
  <2>4. WatchedIsListed' BY <1>1, <2>1, <2>2 DEF WatchedIsListed, ClientRuns
  <2>5. ServerListed' BY <2>1 DEF ServerListed, ServerRuns, serverSide, listenVars, serverVars
  <2> QED BY <2>3, <2>4, <2>5
<1>3. CASE Connect
  <2>1. UNCHANGED <<ebatch, clist, cwatch, serverSide>>
    BY <1>3 DEF Connect, clientVars, eventVars
  <2>2. ServerListed' BY <2>1 DEF ServerListed, ServerRuns, serverSide, listenVars, serverVars
  <2>3. CASE cpc' = "loop" /\ UNCHANGED <<target, netVars>>
    <3>1. Numbered' BY <2>1, <2>3 DEF Numbered, ServerRuns, serverSide, listenVars, serverVars, netVars
    <3>2. WatchedIsListed' BY <1>1, <2>1, <2>3 DEF WatchedIsListed, ClientRuns
    <3> QED BY <2>2, <3>1, <3>2
  <2>4. CASE /\ Made # Conns /\ target' = Min(Conns \ Made) /\ cpc' = "add"
             /\ cOpen' = cOpen \cup {target'} /\ sOpen' = sOpen \cup {target'}
             /\ backlog' = Append(backlog, target')
    <3>1. target' \in Conns \ cwatch BY <1>1, <2>4, NewConnection
    <3>2. backlog' \in Seq(Conns) /\ backlog' # << >> BY <2>4, <3>1 DEF Numbered
    <3>3. Numbered'
      BY <2>1, <2>4, <3>1, <3>2 DEF Numbered, ServerRuns, serverSide, listenVars, serverVars
    <3>4. WatchedIsListed' BY <1>1, <2>1, <2>4, <3>1 DEF WatchedIsListed, ClientRuns
    <3> QED BY <2>2, <3>3, <3>4
  <2> QED BY <1>3, <2>3, <2>4 DEF Connect
<1>4. CASE AddToList
  <2>1. UNCHANGED <<ebatch, cwatch, target, serverSide, netVars>> /\ cpc = "add" /\ cpc' = "watch"
        /\ clist' = clist \cup {target}
    BY <1>4 DEF AddToList, eventVars
  <2>2. Numbered' BY <2>1 DEF Numbered, ServerRuns, serverSide, listenVars, serverVars, netVars
  <2>3. WatchedIsListed' BY <1>1, <2>1 DEF WatchedIsListed, ClientRuns
  <2>4. ServerListed' BY <2>1 DEF ServerListed, ServerRuns, serverSide, listenVars, serverVars
  <2> QED BY <2>2, <2>3, <2>4
<1>5. CASE AddToEpoll
  <2>1. UNCHANGED <<ebatch, clist, serverSide, backlog, sOpen>> /\ cpc = "watch"
    BY <1>5 DEF AddToEpoll, eventVars
  <2>2. \/ cpc' = "loop" /\ cwatch' = cwatch \cup {target} /\ cOpen' = cOpen
        \/ cpc' = "crashed" /\ cOpen' = {} /\ cwatch' = cwatch
    BY <1>5 DEF AddToEpoll, ClientDown
  <2>3. Numbered' BY <2>1, <2>2 DEF Numbered, ServerRuns, serverSide, listenVars, serverVars
  <2>4. WatchedIsListed' BY <1>1, <2>1, <2>2 DEF WatchedIsListed, ClientRuns
  <2>5. ServerListed' BY <2>1 DEF ServerListed, ServerRuns, serverSide, listenVars, serverVars
  <2> QED BY <2>3, <2>4, <2>5
<1>6. CASE WriteLine
  <2>1. UNCHANGED <<ebatch, clist, cwatch, serverSide, backlog, sOpen>>
    BY <1>6 DEF WriteLine, eventVars, clientVars
  <2>2. (cpc' = "loop" /\ cOpen' = cOpen) \/ (cpc' = "crashed" /\ cOpen' = {})
    BY <1>6 DEF WriteLine, ClientDown
  <2>3. Numbered' BY <2>1, <2>2 DEF Numbered, ServerRuns, serverSide, listenVars, serverVars
  <2>4. WatchedIsListed' BY <1>1, <2>1, <2>2 DEF WatchedIsListed, ClientRuns
  <2>5. ServerListed' BY <2>1 DEF ServerListed, ServerRuns, serverSide, listenVars, serverVars
  <2> QED BY <2>3, <2>4, <2>5
<1>7. CASE client_destroy
  <2>1. UNCHANGED <<ebatch, serverSide, backlog, sOpen>> /\ cpc' = "ended" /\ cOpen' = {}
        /\ clist' = {}
    BY <1>7 DEF client_destroy, ClientDown, eventVars
  <2>2. Numbered' BY <2>1 DEF Numbered, ServerRuns, serverSide, listenVars, serverVars
  <2>3. WatchedIsListed' BY <2>1 DEF WatchedIsListed, ClientRuns
  <2>4. ServerListed' BY <2>1 DEF ServerListed, ServerRuns, serverSide, listenVars, serverVars
  <2> QED BY <2>2, <2>3, <2>4
<1> QED
  BY <1>1, <1>2, <1>3, <1>4, <1>5, <1>6, <1>7
  DEF tcp_client_process, ClientStep, client_execute_callback, client_add_connection

\* The client's event thread keeps the invariant: it deletes only connections
\* it has an event for, never the one that is being added.
LEMMA ClientEventsStep ==
    ASSUME MessengerInv, ClientEvents
    PROVE  MessengerInv'
<1> USE DEF MessengerInv, ClientEvents
<1>1. ClientRuns /\ event_thread OBVIOUS
<1>2. ServerListed'
  <2>1. UNCHANGED serverSide
    BY <1>1 DEF event_thread, EventStep, EventTest, EventWait, EventWoken, EventBatchEnd,
                EventWaitFails, EventHandle, EventRace
  <2> QED BY <2>1 DEF ServerListed, ServerRuns, serverSide, listenVars, serverVars
<1>3. CASE EventTest \/ EventWait \/ EventWaitFails \/ EventWoken \/ EventBatchEnd
  <2>1. UNCHANGED <<mainVars, clist, cwatch, serverSide, netVars>>
    BY <1>3 DEF EventTest, EventWait, EventWaitFails, EventWoken, EventBatchEnd, clientVars
  <2>2. ebatch' \in {ebatch, {}, ClientReady}
    BY <1>3 DEF EventTest, EventWait, EventWaitFails, EventWoken, EventBatchEnd
  <2>3. ebatch' \subseteq cwatch BY <1>1, <2>2 DEF WatchedIsListed, ClientReady
  <2>4. Numbered'
    BY <2>1 DEF Numbered, ServerRuns, serverSide, listenVars, serverVars, netVars, mainVars
  <2>5. WatchedIsListed' BY <1>1, <2>1, <2>3 DEF WatchedIsListed, ClientRuns, mainVars
  <2> QED BY <1>2, <2>4, <2>5
<1>4. ASSUME NEW c \in Conns, EventHandle(c) PROVE MessengerInv'
  <2>1. /\ c \in ebatch /\ ebatch' = ebatch \ {c} /\ clist' = clist \ {c} /\ cwatch' = cwatch \ {c}
        /\ cOpen' = cOpen \ {c} /\ UNCHANGED <<cpc, target, serverSide, backlog, sOpen>>
    BY <1>4 DEF EventHandle, connection_delete
  <2>2. Numbered' BY <2>1 DEF Numbered, ServerRuns, serverSide, listenVars, serverVars
  <2>3. WatchedIsListed' BY <1>1, <2>1 DEF WatchedIsListed, ClientRuns
  <2> QED BY <1>2, <2>2, <2>3
<1>5. CASE EventRace
  <2>1. cpc' = "crashed" /\ cOpen' = {} /\ UNCHANGED <<clist, serverSide, backlog, sOpen>>
    BY <1>5 DEF EventRace, ClientDown, clientVars
  <2>2. Numbered' BY <2>1 DEF Numbered, ServerRuns, serverSide, listenVars, serverVars
  <2>3. WatchedIsListed' BY <2>1 DEF WatchedIsListed, ClientRuns
  <2> QED BY <1>2, <2>2, <2>3
<1> QED BY <1>1, <1>3, <1>4, <1>5 DEF event_thread, EventStep

-----------------------------------------------------------------------------
\* A step of the server keeps what the client's threads rely on.
LEMMA ClientUntouched ==
    ASSUME WatchedIsListed, UNCHANGED clientSide
    PROVE  WatchedIsListed'
BY DEF WatchedIsListed, ClientRuns, clientSide, mainVars, eventVars, clientVars

\* The listen thread keeps the invariant.
LEMMA ServerListensStep ==
    ASSUME MessengerInv, ServerListens
    PROVE  MessengerInv'
<1> USE DEF MessengerInv, ServerListens
<1>1. ServerRuns /\ tcp_server_process OBVIOUS
<1>2. UNCHANGED clientSide
  BY <1>1 DEF tcp_server_process, ListenStep, ListenStart, ListenTest, ListenWait, ListenWaitFails,
              server_add_connection, AcceptFails, ServerCloses, ServerReads, ListenRace,
              ListenBatchEnd, ListenClose
<1>3. WatchedIsListed' BY <1>2, ClientUntouched
<1>4. cpc' = cpc /\ target' = target /\ clist' = clist
  BY <1>2 DEF clientSide, mainVars, clientVars
<1>5. CASE ListenStart \/ ListenTest \/ ListenBatchEnd
  <2>1. UNCHANGED <<spc, batch, serverVars, netVars>>
    BY <1>5 DEF ListenStart, ListenTest, ListenBatchEnd
  <2>2. lpc' # "batch" BY <1>5 DEF ListenStart, ListenTest, ListenBatchEnd
  <2>3. Numbered' BY <1>4, <2>1, <2>2 DEF Numbered, ServerRuns, serverVars, netVars
  <2>4. ServerListed' BY <2>1 DEF ServerListed, ServerRuns, serverVars
  <2> QED BY <1>3, <2>3, <2>4
<1>6. CASE ListenWait
  <2>1. batch' = ServerReady /\ UNCHANGED <<spc, serverVars, netVars>>
    BY <1>6 DEF ListenWait
  <2>2. batch' \subseteq swatch \cup {Listen} BY <2>1 DEF ServerReady
  <2>3. Listen \in batch' => backlog # << >>
    BY <2>1, ListenIsNone DEF ServerReady, Numbered
  <2>4. Numbered' BY <1>4, <2>1, <2>2, <2>3 DEF Numbered, serverVars, netVars
  <2>5. ServerListed' BY <2>1, <2>2 DEF ServerListed, ServerRuns, serverVars
  <2> QED BY <1>3, <2>4, <2>5
<1>7. CASE ListenWaitFails \/ ListenClose
  <2>1. UNCHANGED <<spc, batch, serverVars, cOpen>> /\ lpc' # "batch"
        /\ sOpen' \subseteq sOpen /\ backlog' = << >>
    BY <1>7 DEF ListenWaitFails, ListenClose, CloseListening
  <2>2. Numbered' BY <1>4, <2>1 DEF Numbered, serverVars
  <2>3. ServerListed' BY <2>1 DEF ServerListed, ServerRuns, serverVars
  <2> QED BY <1>3, <2>2, <2>3
<1>8. CASE server_add_connection
  <2>1. /\ lpc = "batch" /\ Listen \in batch /\ batch' = batch \ {Listen}
        /\ UNCHANGED <<sexit, cOpen>>
    BY <1>8 DEF server_add_connection
  <2>2. backlog # << >> BY <1>1, <2>1 DEF Numbered
  <2>3. Head(backlog) \in Conns /\ Tail(backlog) \in Seq(Conns) BY <2>2 DEF Numbered
  <2>4. CASE /\ slist' = slist \cup {Head(backlog)} /\ swatch' = swatch \cup {Head(backlog)}
             /\ backlog' = Tail(backlog) /\ UNCHANGED <<spc, sOpen>>
    <3>1. Numbered' BY <1>4, <2>1, <2>3, <2>4 DEF Numbered
    <3>2. ServerListed' BY <2>1, <2>4 DEF ServerListed, ServerRuns
    <3> QED BY <1>3, <3>1, <3>2
  <2>5. CASE ServerDown("crashed") /\ UNCHANGED <<slist, swatch>>
    <3>1. Numbered' BY <1>4, <2>1, <2>5 DEF Numbered, ServerDown
    <3>2. ServerListed' BY <2>5 DEF ServerListed, ServerRuns, ServerDown
    <3> QED BY <1>3, <3>1, <3>2
  <2> QED BY <1>8, <2>4, <2>5 DEF server_add_connection
<1>9. CASE AcceptFails
  <2>1. /\ lpc = "batch" /\ Listen \in batch /\ batch' = batch \ {Listen}
        /\ backlog' = Tail(backlog) /\ sOpen' = sOpen \ {Head(backlog)}
        /\ UNCHANGED <<spc, serverVars, cOpen>>
    BY <1>9 DEF AcceptFails
  <2>2. backlog # << >> BY <1>1, <2>1 DEF Numbered
  <2>3. Tail(backlog) \in Seq(Conns) BY <2>2 DEF Numbered
  <2>4. Numbered' BY <1>4, <2>1, <2>3 DEF Numbered, serverVars
  <2>5. ServerListed' BY <2>1 DEF ServerListed, ServerRuns, serverVars
  <2> QED BY <1>3, <2>4, <2>5
<1>10. ASSUME NEW c \in Conns, ServerCloses(c) PROVE MessengerInv'
  <2>1. /\ batch' = batch \ {c} /\ slist' = slist \ {c} /\ swatch' = swatch \ {c}
        /\ sOpen' = sOpen \ {c} /\ UNCHANGED <<spc, lpc, sexit, backlog, cOpen>>
    BY <1>10 DEF ServerCloses, connection_delete
  <2>2. Numbered' BY <1>4, <2>1 DEF Numbered, ServerRuns
  <2>3. ServerListed' BY <2>1 DEF ServerListed, ServerRuns
  <2> QED BY <1>3, <2>2, <2>3
<1>11. ASSUME NEW c \in Conns, ServerReads(c) PROVE MessengerInv'
  <2>1. batch' = batch \ {c} /\ UNCHANGED <<lpc, slist, swatch, cOpen>>
    BY <1>11 DEF ServerReads
  <2>2. PICK buf : connection_extract_message(c, buf) BY <1>11 DEF ServerReads
  <2>3. CASE ServerDown("crashed") /\ UNCHANGED sexit
    <3>1. Numbered' BY <1>4, <2>1, <2>3 DEF Numbered, ServerRuns, ServerDown
    <3>2. ServerListed' BY <2>3 DEF ServerListed, ServerRuns, ServerDown
    <3> QED BY <1>3, <3>1, <3>2
  <2>4. CASE /\ UNCHANGED <<spc, sOpen, backlog>>
             /\ \E m \in parse_unterminated(buf[1].words) : server_execute_callback(m)
    <3>1. sexit => sexit'
      BY <2>4 DEF server_execute_callback
    <3>2. Numbered' BY <1>4, <2>1, <2>4 DEF Numbered, ServerRuns
    <3>3. ServerListed' BY <2>1, <2>4, <3>1 DEF ServerListed, ServerRuns
    <3> QED BY <1>3, <3>2, <3>3
  <2> QED BY <2>2, <2>3, <2>4 DEF connection_extract_message
<1>12. ASSUME NEW e \in batch, ListenRace(e) PROVE MessengerInv'
  <2>1. UNCHANGED <<lpc, serverVars, cOpen>> BY <1>12 DEF ListenRace
  <2>2. CASE ServerDown("crashed") /\ batch' = batch
    <3>1. Numbered' BY <1>4, <2>1, <2>2 DEF Numbered, ServerRuns, ServerDown, serverVars
    <3>2. ServerListed' BY <2>1, <2>2 DEF ServerListed, ServerRuns, ServerDown, serverVars
    <3> QED BY <1>3, <3>1, <3>2
  <2>3. CASE batch' = batch \ {e} /\ UNCHANGED <<spc, sOpen, backlog>>
    <3>1. Numbered' BY <1>4, <2>1, <2>3 DEF Numbered, ServerRuns, serverVars
    <3>2. ServerListed' BY <2>1, <2>3 DEF ServerListed, ServerRuns, serverVars
    <3> QED BY <1>3, <3>1, <3>2
  <2> QED BY <1>12, <2>2, <2>3 DEF ListenRace
<1> QED
  BY <1>1, <1>5, <1>6, <1>7, <1>8, <1>9, <1>10, <1>11, <1>12 DEF tcp_server_process, ListenStep

\* The server's main thread keeps the invariant: it frees connections only
\* after exit_flag has been set.
LEMMA ServerMainStep ==
    ASSUME MessengerInv, ServerMain
    PROVE  MessengerInv'
<1> USE DEF MessengerInv, ServerMain
<1>1. ServerRuns /\ (PollExitFlag \/ server_destroy) OBVIOUS
<1>2. UNCHANGED clientSide
  BY <1>1 DEF PollExitFlag, server_destroy, ListIsEmpty, JoinListenThread, DestroyConnection
<1>3. WatchedIsListed' BY <1>2, ClientUntouched
<1>4. cpc' = cpc /\ target' = target /\ clist' = clist
  BY <1>2 DEF clientSide, mainVars, clientVars
<1>5. CASE PollExitFlag \/ ListIsEmpty
  <2>1. /\ UNCHANGED <<listenVars, serverVars, netVars>>
        /\ \/ sexit /\ spc' = "destroy"
           \/ spc = "destroy" /\ spc' = "join"
    BY <1>5 DEF PollExitFlag, ListIsEmpty
  <2>2. Numbered' BY <1>1, <1>4, <2>1 DEF Numbered, listenVars, serverVars, netVars
  <2>3. ServerListed' BY <2>1 DEF ServerListed, serverVars
  <2> QED BY <1>3, <2>2, <2>3
<1>6. CASE JoinListenThread
  <2>1. /\ UNCHANGED <<listenVars, serverVars, cOpen>>
        /\ spc' = "ended" /\ sOpen' = {} /\ backlog' = << >>
    BY <1>6 DEF JoinListenThread, ServerDown
  <2>2. Numbered' BY <1>4, <2>1 DEF Numbered, ServerRuns, listenVars, serverVars
  <2>3. ServerListed' BY <2>1 DEF ServerListed, ServerRuns, serverVars
  <2> QED BY <1>3, <2>2, <2>3
<1>7. ASSUME NEW c \in Conns, DestroyConnection(c) PROVE MessengerInv'
  <2>1. /\ spc = "destroy" /\ slist' = slist \ {c} /\ swatch' = swatch \ {c} /\ sOpen' = sOpen \ {c}
        /\ UNCHANGED <<spc, listenVars, sexit, backlog, cOpen>>
    BY <1>7 DEF DestroyConnection, connection_delete
  <2>2. Numbered' BY <1>4, <2>1 DEF Numbered, ServerRuns, listenVars
  <2>3. ServerListed' BY <2>1 DEF ServerListed
  <2> QED BY <1>3, <2>2, <2>3
<1> QED BY <1>1, <1>5, <1>6, <1>7 DEF server_destroy

-----------------------------------------------------------------------------
\* The lists, the watched sets and the batches of the two processes stay
\* consistent in every interleaving of the four threads of messenger.c.
THEOREM MessengerInvariance == Spec => []MessengerInv
<1>1. Init => MessengerInv
  BY DEF Init, MessengerInv, Numbered, WatchedIsListed, ServerListed, ClientRuns, ServerRuns
<1>2. MessengerInv /\ [Next]_vars => MessengerInv'
  <2> SUFFICES ASSUME MessengerInv, [Next]_vars PROVE MessengerInv' OBVIOUS
  <2>1. CASE UNCHANGED vars
    BY <2>1 DEF MessengerInv, Numbered, WatchedIsListed, ServerListed, ClientRuns, ServerRuns, vars,
                clientSide, serverSide, mainVars, eventVars, clientVars, listenVars, serverVars, netVars
  <2> QED
    BY <2>1, ClientMainStep, ClientEventsStep, ServerListensStep, ServerMainStep DEF Next
<1> QED BY <1>1, <1>2, PTL DEF Spec

\* EventsPointToConnections: neither the event thread nor, before a STOP, the
\* listen thread ever handles an event of a connection that has been freed.
THEOREM EventsAreLive == Spec => []EventsPointToConnections
<1>1. MessengerInv => EventsPointToConnections
  BY DEF MessengerInv, WatchedIsListed, ServerListed, EventsPointToConnections
<1> QED BY <1>1, MessengerInvariance, PTL
=============================================================================
