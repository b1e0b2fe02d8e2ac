----------------------------- MODULE Discovery -----------------------------
(***************************************************************************)
(* Finding cameras: capture/src/interface.c and device.c, and the older    *)
(* copies of the same code in tools/capture.c and tools/finddevices.c.     *)
(*                                                                         *)
(* A socket is bound to every usable interface and broadcasts a discovery  *)
(* command; after a second of sleep the sockets are emptied one after the  *)
(* other, without waiting, and closed.  Who answers, with what and when is *)
(* up to the network.  The callers differ in what they do with an answer:  *)
(*   udpcapture   device_find: the first answer of the address asked for   *)
(*   library      devices_discovery: every answer, handed to a callback    *)
(*   oldcapture   every answer; the first device is connected to           *)
(*   finddevices  the first answer of every interface                      *)
(* An address is a pair of its /24 subnet and the host in it.              *)
(***************************************************************************)
EXTENDS Integers, Sequences, FiniteSets

CONSTANTS NIf,          \* interfaces of the machine, the first is lo
          Datagrams,    \* what may arrive: records of from and kind
          Wanted,       \* the address device_find is asked for
          SocketCap,    \* datagrams that fit SO_RCVBUF
          MaxAnswers    \* bound: datagrams that arrive

Interfaces == 1 .. NIf
Kinds == {"ack", "other", "short"}      \* short: less than a header

ASSUME DiscoveryAssumption ==
    /\ NIf \in Nat \ {0} /\ SocketCap \in Nat /\ MaxAnswers \in Nat
    /\ \A d \in Datagrams : d.kind \in Kinds

VARIABLES
    caller, usable,     \* the program, and the interfaces getifaddrs shows as up
    phase, cur,         \* the phase, and the interface it has come to
    fd,                 \* the socket of an interface
    inbox,              \* what waits in it
    devs, result,       \* the device list, and the devices handed to the caller
    arrived,            \* datagrams so far
    early, broken       \* history: what waited when the sleep ended; failed reads

discoveryVars == <<caller, usable, phase, cur, fd, inbox, devs, result, arrived, early, broken>>

Programs == {"udpcapture", "library", "oldcapture", "finddevices"}
Library == caller \in {"udpcapture", "library"}

\* lo is 127.0.0.1, the one address of its subnet.
Addr(i) == <<i - 1, 1>>
Localhost == Addr(1)

DiscoveryInit ==
    /\ caller \in Programs /\ usable \in SUBSET Interfaces
    /\ phase = "getifaddrs" /\ cur = 1
    /\ fd = [i \in Interfaces |-> "none"]
    /\ inbox = [i \in Interfaces |-> << >>]
    /\ devs = << >> /\ result = << >> /\ arrived = 0
    /\ early = inbox /\ broken = {}

Over == phase \in {"ended", "crashed"}

-----------------------------------------------------------------------------
(* prepare_interfaces_list; the tools have it in main.                     *)

\* The library returns -1 as a pointer, which its caller follows.
Getifaddrs ==
    /\ phase = "getifaddrs"
    /\ phase' \in {"open", IF Library THEN "crashed" ELSE "ended"}
    /\ UNCHANGED <<caller, usable, cur, fd, inbox, devs, result, arrived, early, broken>>

\* What may become of the socket: it is kept if it could be bound, and never
\* closed if it could not be.  The tools' function is the same.
send_broadcast_discovery == {"open", "failed", "leaked"}
connect_to_interface_for_discovery == send_broadcast_discovery

interface_add ==
    /\ phase = "open" /\ cur \in usable
    /\ \E outcome \in IF Library THEN send_broadcast_discovery
                                  ELSE connect_to_interface_for_discovery :
        fd' = [fd EXCEPT ![cur] = outcome]
    /\ cur' = cur + 1
    /\ UNCHANGED <<caller, usable, phase, inbox, devs, result, arrived, early, broken>>

SkipInterface ==
    /\ phase = "open" /\ cur \in Interfaces \ usable
    /\ cur' = cur + 1
    /\ UNCHANGED <<caller, usable, phase, fd, inbox, devs, result, arrived, early, broken>>

\* freeifaddrs and sleep(1).
Sleep ==
    /\ phase = "open" /\ cur > NIf
    /\ phase' = "read" /\ cur' = 1
    /\ early' = inbox
    /\ UNCHANGED <<caller, usable, fd, inbox, devs, result, arrived, broken>>

prepare_interfaces_list == Getifaddrs \/ interface_add \/ SkipInterface

-----------------------------------------------------------------------------
(* listen_discovery_answer, for the interface cur.                         *)

\* The library ignores cameras on this machine, other than on localhost, and
\* replies from another subnet.  The tools take every datagram with a header.
Accepts(i, d) ==
    /\ d.kind # "short"
    /\ Library => /\ d.from # Addr(i) \/ d.from = Localhost
                  /\ d.from[1] = Addr(i)[1]

NextInterface ==
    /\ cur' = cur + 1
    /\ phase' = phase

\* select finds nothing, or the interface is not in the list.
ListenNothing ==
    /\ phase = "read" /\ cur \in Interfaces
    /\ fd[cur] = "none" \/ (fd[cur] = "open" /\ inbox[cur] = << >>)
    /\ NextInterface
    /\ UNCHANGED <<caller, usable, fd, inbox, devs, result, arrived, early, broken>>

\* Descriptor -1: FD_SET aborts where the build checks it, or select finds nothing.
ListenNoSocket ==
    /\ phase = "read" /\ cur \in Interfaces /\ fd[cur] \in {"failed", "leaked"}
    /\ cur' = cur + 1
    /\ phase' \in {phase, "crashed"}
    /\ UNCHANGED <<caller, usable, fd, inbox, devs, result, arrived, early, broken>>

\* recvfrom fails.
ListenFails ==
    /\ phase = "read" /\ cur \in Interfaces /\ fd[cur] = "open" /\ inbox[cur] # << >>
    /\ broken' = broken \cup {cur}
    /\ NextInterface
    /\ UNCHANGED <<caller, usable, fd, inbox, devs, result, arrived, early>>

\* Mutant: a datagram that is no answer ends the listening on its interface.
ListenGivesUp(d) ==
    /\ ~Accepts(cur, d)
    /\ NextInterface
    /\ UNCHANGED <<devs, result>>

\* continue: the next datagram is looked at.
ListenIgnores(d) ==
    /\ ~Accepts(cur, d)
    /\ UNCHANGED <<cur, phase, devs, result>>

\* Only a discovery acknowledge has the names of a device; any other datagram
\* makes a nameless one.
gvcp_discovery_ack(d) == d.kind = "ack"
device_create(d) == [ip |-> d.from, iface |-> cur, named |-> gvcp_discovery_ack(d)]

\* The tools' device_add.  That of finddevices also connects to the device, by a
\* socket that devices_destroy closes again.
device_add(d) == device_create(d)

device_find(d) ==
    /\ caller = "udpcapture" /\ devs' = devs
    /\ IF d.from = Wanted
       THEN result' = <<device_create(d)>> /\ phase' = "close" /\ cur' = cur
       ELSE UNCHANGED <<result, phase, cur>>

prepare_devices_list(d) ==
    /\ caller = "library"
    /\ devs' = Append(devs, device_create(d))
    /\ UNCHANGED <<result, phase, cur>>

\* main of capture.c takes every answer of an interface, that of finddevices one.
EveryDevice(d) ==
    /\ caller = "oldcapture"
    /\ devs' = Append(devs, device_add(d))
    /\ UNCHANGED <<result, phase, cur>>

OneDevice(d) ==
    /\ caller = "finddevices"
    /\ devs' = Append(devs, device_add(d))
    /\ result' = result
    /\ NextInterface

listen_discovery_answer ==
    /\ phase = "read" /\ cur \in Interfaces /\ fd[cur] = "open" /\ inbox[cur] # << >>
    /\ LET d == Head(inbox[cur])
       IN \/ ListenIgnores(d)
          \/ Accepts(cur, d) /\ (\/ device_find(d) \/ prepare_devices_list(d)
                             \/ EveryDevice(d) \/ OneDevice(d))
    /\ inbox' = [inbox EXCEPT ![cur] = Tail(@)]
    /\ UNCHANGED <<caller, usable, fd, arrived, early, broken>>

ListRead ==
    /\ phase = "read" /\ cur > NIf
    /\ phase' = "close"
    /\ UNCHANGED <<caller, usable, cur, fd, inbox, devs, result, arrived, early, broken>>

-----------------------------------------------------------------------------
\* interface_delete for every interface: a socket and what waits in it are gone.
ifaces_destroy ==
    /\ phase = "close"
    /\ fd' = [i \in Interfaces |-> IF fd[i] = "open" THEN "closed" ELSE fd[i]]
    /\ inbox' = [i \in Interfaces |-> << >>]
    /\ phase' = IF caller \in {"udpcapture", "finddevices"} THEN "ended" ELSE "use"
    /\ UNCHANGED <<caller, usable, cur, devs, result, arrived, early, broken>>

\* The callback, for one device after the other.
devices_discovery ==
    /\ phase = "use" /\ caller = "library"
    /\ IF Len(result) < Len(devs)
       THEN result' = Append(result, devs[Len(result) + 1]) /\ phase' = phase
       ELSE result' = result /\ phase' = "ended"
    /\ UNCHANGED <<caller, usable, cur, fd, inbox, devs, arrived, early, broken>>

\* main of capture.c connects to the first device (OldCapture).  If the list is
\* empty what it takes for the device is the list's head, whatever follows.
FirstDevice ==
    /\ phase = "use" /\ caller = "oldcapture"
    /\ IF devs # << >> THEN result' = <<devs[1]>> /\ phase' = "ended"
                       ELSE result' = result /\ phase' \in {"ended", "crashed"}
    /\ UNCHANGED <<caller, usable, cur, fd, inbox, devs, arrived, early, broken>>

Arrive ==
    /\ ~Over /\ arrived < MaxAnswers /\ arrived' = arrived + 1
    /\ \E i \in Interfaces, d \in Datagrams :
        /\ fd[i] = "open" /\ Len(inbox[i]) < SocketCap
        /\ inbox' = [inbox EXCEPT ![i] = Append(@, d)]
    /\ UNCHANGED <<caller, usable, phase, cur, fd, devs, result, early, broken>>

Listen == ListenNothing \/ ListenNoSocket \/ ListenFails \/ listen_discovery_answer \/ ListRead

library == prepare_interfaces_list \/ Sleep \/ Listen \/ ifaces_destroy \/ devices_discovery
capture_main == prepare_interfaces_list \/ Sleep \/ Listen \/ ifaces_destroy \/ FirstDevice
finddevices_main == prepare_interfaces_list \/ Sleep \/ Listen \/ ifaces_destroy

Run ==
    \/ Library /\ library
    \/ caller = "oldcapture" /\ capture_main
    \/ caller = "finddevices" /\ finddevices_main

DiscoveryNext == Run \/ Arrive
DiscoverySpec == DiscoveryInit /\ [][DiscoveryNext]_discoveryVars

-----------------------------------------------------------------------------
\* The answers an interface had up to the a-th datagram, and the devices found
\* on it up to the l-th of the list.
AnswersUpTo(i, a) == {b \in 1 .. a : Accepts(i, early[i][b])}
ListedUpTo(i, l) == {m \in 1 .. l : devs[m].iface = i}

\* The answer has its device, as far back among the interface's devices as it
\* is among its answers.
Listed(i, a) ==
    \E l \in ListedUpTo(i, Len(devs)) :
        /\ devs[l].ip = early[i][a].from
        /\ Cardinality(ListedUpTo(i, l)) = Cardinality(AnswersUpTo(i, a))

\* What the caller makes of the answer; finddevices takes the first only.
PutToUse(i, a) ==
    CASE caller = "udpcapture" -> early[i][a].from = Wanted => result # << >>
      [] caller = "finddevices" -> AnswersUpTo(i, a) = {a} => Listed(i, a)
      [] OTHER -> Listed(i, a)

\* When the sockets are closed, every answer that had come in before the end of
\* the sleep and could be read has been put to use, whatever else was waiting
\* in front of it: the lists hold them all in their order (finddevices the first
\* of each interface), and device_find returns a device whenever the address it
\* was asked for was among them (device.c, listen_discovery_answer).
EarlyAnswersFound ==
    phase \in {"use", "ended"} =>
        \A i \in usable \ broken :
            \A a \in AnswersUpTo(i, Len(early[i])) : PutToUse(i, a)
=============================================================================
