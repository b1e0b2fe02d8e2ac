# Verification of the multiprocessor pipeline

TLA+ models of the programs in `src/`, checked with TLC on small instances. Every
safety property a run checks is also proved with TLAPS, for every number of modules,
buffers, callers, clients, lines, interfaces, images or packets; what TLC alone
answers for is progress.

## 1. The system

`multiprocessor` moves data (camera frames, in the tests lines of text) through
a chain of processes. One *server* process owns a shared memory: a table of
`process_info` entries and `data_cnt` data buffers. For every module of the
chain the server runs a thread and starts a *child* process; thread and child
meet in one `process_info`, neighbouring threads in one `struct module`. Only
offsets into the shared memory travel, the data itself stays where it is. Free
buffers wait in a ring.

```
  data_ring --> source_thread --> process_thread --> ... --> finalization_thread --> data_ring
                   |  ^               |  ^   \ drop                                     ^
            sem_job|  |sem_result     |  |    `----------------------------------------'
                   v  |               v  |
                 child 0            child 1
```

A second thread of the server takes commands (INIT, CONFIG, STOP, ...) from TCP
clients and starts and stops a pipeline. Other programs of the repository feed a
pipeline (cameras over GigE Vision, files) or carry its results (messenger).

### Inventory

| Component | State | Operations | Meets others through | What makes it correct |
|---|---|---|---|---|
| `misc/ring_buffer` | mutex, semaphore, `used`, `start`, `buffer[]` | create, pop, push, destroy | called by source, processors, finalization, command server | indices in bounds; no offset lost or doubled; FIFO; the semaphore counts the items |
| `pipeline/pipeline_server` | `exit_flag`, modules with a one-place slot and two semaphores each | init, destroy, `pipeline_thread`, three kinds of module thread | slots, `process_info`, ring | no slot overwritten; every buffer in one place; order kept; stop behind all data; destroy returns |
| `pipeline/pipeline_client` | the child's loop | wait, act, report | `process_info` | works only on its thread's buffer |
| `streamer` | as the pipeline, run by the main thread, flag raised by a signal | `test_streamer` | the same | the same, and ends on SIGTERM |
| `command_server` | ring of commands, semaphore, `exit_flag`, `pdesc` | put, pop, execute, destroy | TCP callback, pipeline | commands in order, each once; pipeline shut down once; server ends |
| `pmngr/process_mngr` | `process_cnt`, table | init, start, kill_all, cleanup, destroy | fork/exec, pipeline | a distinct live entry per child; failure reported |
| `pmngr/signal_reaction` | exit flag, thread | init, destroy | signals | flag raised once, thread ends |
| `shmem` | a mapping and its layout | create, open, destroy | children find it by name | table and data do not overlap |
| `model` | copy of `pipeline_server.c` under other names, children with the loop in their own main | the same | the same | the same |
| `tcp` | connections with a line buffer | accept, receive, send, close | select, callbacks | every complete line handled once, none beyond the buffer |
| `messenger` | client and server, each with a list of connections, an epoll set and an exit flag | connect, send, accept, extract a line, execute, delete, destroy | epoll, SIGUSR2, two threads each | no event names a freed connection; QUIT and STOP end |
| `capture/interface`, `device` | a socket per interface, list of devices | broadcast, listen, find, list | datagrams | an answer that is there is used |
| `capture/gvcp` | one request under way | read and write register, the sequences of init, start, watchdog, stop | datagrams | an answer belongs to its request; the camera is stopped in the end |
| `capture/camera` | frame under assembly, state, thread | init, test, destroy, `gvsp_thread` | datagrams, two threads, callback | a frame has its own blocks in order |
| `capture/tools` | the same in one file (`capture.c`), discovery alone (`finddevices.c`), the library's user (`test_capture.c`) | | | the same |
| `cvcamera` | generator (`fd`, `curr`, images) and collector of frames | serve, send; collect, detect | TCP, a thread per client | frames stay aligned with the stream |
| `streamer/pipeline.c`, `capture/source.c` | an older pipeline, an older capture thread | | | |
| `config`, `api`, `filereader`, `storage_interface`, `cvfilter`, `pysharedmem`, `dbpg`, tools, `arvcamera` | none, or that of an external library | | | |

What is hard here: two semaphores per shared record and no lock; a stop command
that travels with the data; buffers that leave the chain in the middle; children
that fail at any point; shutdown that waits for everybody; a ring without an
overflow check; datagrams that are lost or overtake each other; streams that are
cut anywhere; lists that two threads change without a lock. The full list, each at its line, is under `hazards`
in `PROJECT.json`.

## 2. The modules

| Module | Models | Composition |
|---|---|---|
| `FreeList` | what the ring promises: an atomic FIFO of offsets | abstract |
| `RingBuffer` | `misc/src/ring_buffer.c`, statement by statement | implements `FreeList` |
| `Pipeline` | `pipeline_server.c` with `pipeline_client.c` and the part of `process_mngr.c` they use | uses the ring as `FreeList` describes it |
| `Conveyor` | what a pipeline promises: order kept, drops allowed | abstract |
| `PipelineOrder` | `Pipeline` seen as a `Conveyor` | refinement |
| `Streamer` | `streamer/src/streamer.c` and its example programs | the steps of `Pipeline` with another control thread |
| `CommandServer` | `command_server.c` with `pipeline/components/server.c` | relies on `Pipeline`'s `ShutdownCompletes` and `ProcessManager`'s `SinglePipelineEnds` |
| `ProcessManager` | `process_mngr.c`, `signal_reaction.c` and the name of the shared memory: start and end of several pipelines | abstracts what `Pipeline` does with an entry |
| `TcpServer` | `tcp_process.c`: the server's select loop, `tcp_client_process`, other clients | delivers the commands of `CommandServer` |
| `Model` | `model.c` and its children | the steps of `Pipeline` under `model.c`'s names; takes `Pipeline`'s place in `PipelineOrder` |
| `GigeCamera` | `gvcp.c`, `camera.c`, `test_capture.c`, with the camera and the network around them | |
| `OldCapture` | `tools/capture.c` after the discovery | extends `GigeCamera`: the same camera, another script and another data thread |
| `Discovery` | `interface.c`, `device.c`, and their copies in `capture.c` and `finddevices.c` | what happens before `GigeCamera` and `OldCapture` begin |
| `Messenger` | `messenger.c` with its example client and server | |
| `CvCamera` | `cvgenerator.cpp`, `cvcollector.cpp`, `cvserver.cpp`, `cvclient.cpp` | |
| `SharedMemory` | `shared_memory_map.h`: where the map, the table and the buffers lie | operators; what entry i and buffer k of `Pipeline` stand for |
| `RingProofs` | theorems about `RingBuffer` | |
| `PipelineProofs` | theorems about `Pipeline`, and that `Pipeline` and `Model` implement `Conveyor` | |
| `ProcessProofs` | theorems about `ProcessManager` and `SharedMemory` | |
| `CaptureProofs` | theorems about `OldCapture` (and with it `GigeCamera`) and `Discovery` | |
| `CommandProofs`, `TcpProofs`, `MessengerProofs`, `CvProofs` | theorems about `CommandServer`, `TcpServer`, `Messenger`, `CvCamera` | |
| `MCRingBuffer`, `MCPipeline`, `MCStreamer`, `MCTcpServer`, `MCCapture`, `MCDiscovery`, `MCMessenger`, `MCCvCamera` | constants for TLC | |

### Correspondence

*RingBuffer.* The fields of `struct ring_buffer` are variables; `pc`, `reg` and
`pos` are each caller's program counter and locals. Every C line that touches the
ring is a step, so the post-increment of `start`, its wrap and the decrement of
`used` are seen apart. `out` holds the offsets callers have popped: a caller
pushes only those, which is how the pipeline uses the ring (and what
`PipelineProofs` proves of it). `capture/src/ring_buffer.c` is the same code.

*Pipeline.* A step is one semaphore operation or one access to memory another
thread or process may also access. `m_cmd, m_off, new_cmd, result` are
`struct module`; `i_cmd, i_offs, i_result, sem_job, sem_result` are
`struct process_info`; `cmd` and `off` are a thread's locals; `cpc` and `data` are
the child's. The labels of `pc` name the statement that comes next; the labels
that start with `stop_` are the code behind a thread's loop. Entry i of the table
belongs to module i: `process_start` hands out distinct ids under its mutex, and
which module gets which does not matter. Buffer k stands for the offset
`k * data_size`. `InitialCmds` is what `module->cmd` may hold when the threads
start: `pipeline_server.c:277` sets JOB; in the streamer nobody sets it.
`failed` records children that went without being told to (a fault, or status
-1); it only says for which behaviours a progress property is claimed.

*Streamer.* `pt` is `test_streamer`, `main` the signal thread and then the main
function. The actions are those of `Pipeline` under the streamer's names; the
children are the example's capturer (never fails) and filter.

*CommandServer.* The main thread puts commands, `command_thread` executes them.
The ring is created with `empty = 0` although nothing is in it, so the positions
of `ring_buffer.c` are kept, and so are the words behind the last slot. A command
is named by its number; one that is executed after it was freed may read as
anything. CONFIG asks for a file name at the server's terminal, on the thread that
executes the commands (`ConfigInput`). A pipeline that was told to stop has to end
only where that is shown: it is the only one the server has started
(`ProcessManager`), and no call failed and no child died in it (`Pipeline`,
`faulty`). A second INIT may be refused the entries its threads need, since
`process_cnt` is never set back, so `pipeline_destroy` may return then or not.
`ServerEnds` is said of the servers with one pipeline at most, and of operators who
answer CONFIG's question.

*ProcessManager.* A task is a module thread with its child. Where `Pipeline`
takes for granted that thread i and child i meet, this module shows what that
rests on: an index handed out by `process_start` under its mutex, and the memory
that has the name `shmpath` when the child opens it. The server of
`pipeline/components` starts a pipeline at every INIT, each under the same name;
the server of `streamer/examples` starts one and has a signal thread. `Init`
chooses which of the two it is. A thread that gets -1 from `process_start` goes on
with an entry before the table; that is undefined, and the model says nothing
more of it (`astray`). A child whose `exec` fails is a copy of the server that
does the same. A child that finds no memory of that name is no fault of its own but
an outcome of the order in which the server unlinks it, so `SinglePipelineEnds`,
which excludes faults, shows that it does not happen to a single pipeline.

*TcpServer.* One step per system call that another party can see: `select`, `accept`,
and for each connection a `read` with the handling and the answer of the first line
it completes. A byte is named by its line and its place in it, so that a lost,
doubled or moved byte shows. `read` returns any number of bytes. Clients are either
`tcp_client_process`, which waits for its reply, or send and leave when they like.
Undefined behaviour of the client (a reply without its newline) is `astray`; its
`exit_flag` is not initialised, so it may leave at once. A second write to a client
that has left kills the server (SIGPIPE is not handled). The text of a reply is
abstracted and taken to fit the reply buffer.

*Model.* `model.c` differs from `pipeline_server.c` in names and in its children.
Each of its functions is defined as the steps of `Pipeline` it is made of, and each
child with the statuses its own main can return.

*GigeCamera, OldCapture.* The main thread of a capture program is a straight line
of register accesses, so it is a *script*: the sequence of its steps, `pc` the one
it has come to. The functions of the library (`gvcp_init`, `gvcp_start`, ...) are
pieces of the script, in the variant that is compiled (`#if`), each register access
a request and the wait for its answer. `Rounds` stands for the 10 and 15 rounds of
the watchdog loops. The wait takes the next datagram for the answer; the id in the
header is compared by nobody (and `capture.c` passes it by value, so that it never
advances). The camera is external: it grants the privilege, refuses writes
without it, streams from Start to Stop, and drops both when its heartbeat expires,
which can happen only while the program sleeps. A refusal is shorter than the
twelve bytes the program waits for, so the wait goes on; an undelivered request
makes `recvfrom` fail, and the caller goes on as if answered (`bounced`). The data
thread does not look at `packet_id`: `n_packets` stays 0, so the tests for
duplicates and gaps do nothing, and a frame is handed over when another id comes
(the last one never is). `gvsp_thread` starts a frame at any other id,
`capture.c` at a greater one, which is what the comment at `camera.c:112` says of
the library as well: the run shows the difference, since only `capture.c` keeps
`SavedForward` when packets overtake each other.

*Discovery.* One machine for four callers of the same steps: open a socket per
interface, sleep, empty the sockets, close them. What they do with an answer is
an action each. A socket that could not be bound is left open (`leaked`) and read
as descriptor -1, which `FD_SET` may abort on. A failing `getifaddrs` makes the
library return -1 as a pointer. Any datagram with a header makes a device, named
or not. `EarlyAnswersFound` pairs answers with devices by rank: the n-th answer an
interface had when the sleep ended is the n-th device listed of it.

*Messenger.* `cpc`, `epc` are the client's main and event thread, `spc`, `lpc` the
server's main and listen thread; the batches are the events `epoll_wait` has
returned and the loop has not reached. A line is the set of keywords in it: the
last test of `parse_api_request` that matches decides, and without a keyword `cmd`
is what `malloc` left (any). The server's copy of a line has no zero at its end
(`strncpy` of `strlen` characters into memory from `malloc`), so a keyword of older
text behind it counts as well (`parse_unterminated`), and may win over STOP:
`misread` records for which connections it did. On a connection a line is its text and its newline.
The server executes the first line of the buffer again with every later one,
closes a connection whose buffer is full, and crashes when a buffer without a
newline is moved; all of this is in the model. Where a freed connection may be
used the process may crash or go on.

*CvCamera.* Bytes of a connection are pairs of image and position. The generator's
threads share `curr` and read `fd` when they start, so two clients may get one
stream; a closed descriptor is used again. `next_image` starts at -1: the first
image lies before the buffer and is anything, a size that makes `write` fail
and unmapped memory included. In the collector `buf` is what `iov_base` holds,
`rest` is `remaining_len`; a read returns any number of bytes. `clean` records
that a connection met none of the four things the code does not survive: a header
cut in two, bytes from before the buffer, two writers, and a thread still in the
middle of an image for a closed connection whose descriptor this one was given (the
rest of that image then comes first).

*SharedMemory.* The functions of the header as operators on the `memory_map`, and
the two places that index with them: an entry of the table (`pipeline_client.c:56`)
and a buffer (`pipeline_server.c:269`). `MCPipeline` has TLC evaluate the layout for
sizes on either side of a multiple of 256.

## 3. The runs

| Run | Instance | Shows | Distinct states |
|---|---|---|---|
| `ring_buffer` | 3 callers, 2 slots, created full or empty | indices in bounds, semaphore exact, each offset in one place, `FreeList` implemented; no deadlock | 31 257 |
| `pipeline_faults` | source, processor, finalization; 2 buffers; children return -1, 0 or 1 and may die anywhere | exclusive hand-over, one owner per buffer, no leak, no overflow, clean shutdown; without a fault, destroy returns and buffers come back | 94 065 |
| `pipeline_chain` | `model.c` with two processors | delivery in order (`Conveyor` implemented), stop behind all data | 241 882 |
| `streamer_exit` | capturer, filter, destination | **violated**: the server does not always end (finding 1) | |
| `command_server` | at most as many commands as slots (4) | executed in order and once, pipeline shut down once; a server with one pipeline at most, no fault in it and CONFIG answered ends | 10 249 |
| `command_overflow` | 6 commands, at most 2 waiting | **violated**: push stores behind the ring (finding 2) | |
| `process_manager` | 2 pipelines of 2 children, a table of 3 entries, 1 fault anywhere | no thread meets another's child; a server with a single pipeline and no fault ends, and no child of it opens the memory too late; exited children are reaped | 345 368 |
| `capture` | both programs, 2 frames of 2 blocks, a socket of 2 packets, 2 rounds of the watchdog, 1 lost register datagram, 1 overtaking | frames faithful unless a packet overtook another; `capture.c` never goes back; an answer is its request's; the camera stopped in the end; the program ends unless a register datagram is lost | 1 770 375 |
| `discovery` | 4 callers, 2 interfaces, 6 kinds of datagram, sockets of 2, 3 arrivals | no answer that was there when the sleep ended is passed over, whatever stands before it | 489 609 |
| `messenger` | 2 connections, 4 lines, buffers of a line and a half | no event names a freed connection, QUIT ends the client, STOP the server unless it is misread | 549 484 |
| `cvcamera` | 2 clients, header and image of 2 bytes, socket of 2, 3 images, 1 fault | a clean stream is delivered image by image, within the buffer | 1 308 439 |
| `tcp_server` | a waiting client and one that does not wait, buffer of 3 bytes, lines of 1, 2, 3 and 5, 2 lines each | streams intact, never blocked in read, the waiting client answered, stop ends the server | 380 043 |

*Why the bounds are enough.* Two slots and three callers make both indices wrap,
the ring run full and empty, and a caller wait for the mutex while two others are
inside. A chain of three modules has one of each kind; four has two neighbouring
processors, so that a slot between equals is exercised and data stands in several
stages at once. With two buffers the source starves, buffers are recycled in an
order other than 0, 1 and a drop races with the finalization's push. The
invariants of `pipeline_faults` do not depend on the bounds: they are proved. In
the command server `MaxCommands` and `MaxPending` are bounds on what clients
send; four slots instead of `COMMAND_QUEUE_SIZE` keep the ratio of commands to
slots within reach on both sides of the point where the positions run over.
With two pipelines of two children the table of `pipeline_init` (three
entries) runs full while threads of both are between check and increment, and the
name changes hands while children are on their way to open it; `MaxFaults` bounds
the failing calls and dying children.
In the TCP run a buffer of three bytes holds several lines, exactly one, part of
one, or is filled by a line that never ends.
In the capture run two frames make one hand-over, a lost leader, trailer or block in
every combination, and a packet of the next frame that comes before the last of
this one; two rounds let the heartbeat expire between two accesses and be renewed.
Three arrivals on sockets of two make a socket overflow, and put a useless datagram
before a useful one. Two connections are enough for a batch with two events and for
STOP on one while the other has half a line; four lines for CONNECT, CONNECT,
STOP, QUIT. A line without keywords may be taken for any command, by the client as
by the server, so START, SET and GET need no lines of their own. Two clients share everything the generator's threads share. The third
image is the first that follows a complete one in a stream that began before the
buffer; with a fourth, which wraps around the images, the run takes 9.6 million
states and holds as well. The fourth of the things `clean` excludes takes a third
client, so the run does not meet it: it was found by the proof of `FramesAligned`, and
apart from the run TLC confirmed the property for three clients (7 273 262 states with
three images and no fault, 3 350 706 with two images and one fault).

*Deadlock* is checked for the ring. The others may stop: a server that has ended,
a pipeline whose child died, a TCP server without clients, a program that waits for
an acknowledge that was lost, a user who enters nothing.

*Fairness.* Each thread and process is scheduled by the kernel, so a step it can
take is eventually taken: weak fairness per thread. This is enough for semaphores
because each has a single waiter (the ring of the pipeline too: only the source
pops), so an enabled wait is not disabled by anyone else. A child's action ends;
for the source of the examples this means the input is typed in, as the README of
the repository tells the user to. Nobody is obliged to call `pipeline_destroy`,
to send a command or a signal, and no child is obliged to die. `process_mutex` has
several waiters, but each asks for it once, and a TCP client that waits for its
reply is scheduled like any process. In `capture` the main thread, the data thread
and the camera's answer to a request that reached it are fair; no packet has to
come, and no heartbeat to expire. In `messenger` the four threads are fair, except
that no call has to fail and no line to be entered. In `command_server` nobody has to
answer CONFIG's question (`ServerEnds` says so in its hypothesis), and a pipeline ends
by fairness only where `MustEnd` holds. `discovery` and `cvcamera` claim
no progress.

### Findings

1. `streamer.c:88` reads `modules[i].cmd`, which nobody sets. If the stack holds
   0 (STOP) the capturer leaves after its first job; the second job is never
   answered, and the server waits for ever although `src/README.md:24` says all
   processes are "killed by exit".
2. `command_server.c:133` creates its ring as full. After a lap `start + used`
   passes twice the size and one subtraction leaves a position behind the buffer,
   with hardly a command waiting. `ring_buffer.c:52` says of this: "should not
   happen".

Other behaviour the models have and no promise of the repository denies: a lost
register datagram blocks a capture program for ever (no timeout), and so does a
refused write; `test_capture.c:51` frees the device a second time; `capture.c`
takes the head of an empty list for a device; the messenger's connection lists are
changed by two threads without a lock; the first image of `cvserver` comes from
before its buffer; a header of `cvclient` cut in two leads behind its image;
text left in memory behind a line may turn the messenger's STOP into SET or QUIT; a
server that was told INIT twice may hang in `pipeline_destroy`, and one that was told
CONFIG waits at its terminal, STOP or not; `cvclient` ends only after a failed read *and* an object, since it tests the flag
after the semaphore.

## 4. The proofs

Every theorem holds for all values of the constants under the assumption the
component's module names, and under nothing else except where it says so. Each
proof module has the same three layers: the inductive invariant, one lemma per
action (or per conjunct, where many actions disturb it), and the theorems at
the end.

| Module | Assumption | Proved of every behaviour |
|---|---|---|
| `RingProofs` | `RingAssumption`: at least one slot, as many offsets as slots, finitely many callers | `TypeOK`, `IndexInBounds`, `SemaphoreCountsItems`, `EachOffsetInOnePlace`, and that the ring implements `FreeList` |
| `PipelineProofs` | `PipelineAssumption`: at least one module before the finalization and one buffer; commands and statuses among the code's | `TypeOK`, `NoCommandOverwritten`, `ProcessInfoExclusive`, `ChildWorksOnOwnBuffer`, `OneOwner`, `NoLeak`, `NoRingOverflow`, `StopIsLast`, `CleanShutdown` |
| | the same; for `model.c` also `0, 1 \in Statuses` | `DeliveredInOrder` of `Pipeline` and of `Model`, `StopIsLast` of `Model` |
| `CommandProofs` | `CommandServerAssumption`; for the order also `MaxCommands <= QueueSize` | `TypeOK`, `PipelineShutDownOnce`; `ExecutedInOrder` |
| `ProcessProofs` | `ProcessManagerAssumption` | `TypeOK`, `OwnChildOnly` |
| | none | `LayoutOf` every `memory_map` |
| `TcpProofs` | `TcpAssumption`, `ListenerAssumption`: the listening socket is no client | `TypeOK`, `StreamIntact`, `NeverBlocksInRead` |
| `CaptureProofs` | `CameraAssumption` | `AckMatchesRequest`, `SavedForward`, `FramesFaithful`, `StoppedWhenDone` |
| | `DiscoveryAssumption`: at least one interface; datagrams of the three kinds | `EarlyAnswersFound` |
| `MessengerProofs` | `MessengerAssumption` | `EventsPointToConnections` |
| `CvProofs` | `CvCameraAssumption`: a header of at least two bytes, an image of at least one, at least two images | `FramesAligned` |

*RingProofs.* `Holder` (one caller between lock and unlock) and `Indices` (what
`start`, `used` and the position of a push are at each statement in between)
carry the rest. Lemma `Effects` says that a step of the program keeps the queue
in the live slots, takes its oldest offset or adds one behind the newest; the
semaphore, the ownership of offsets and the refinement of `FreeList` are three
short arguments over these three cases. The step that counts is the change of
`used`, not the access to the buffer: a popped offset is in the caller's
register before, a pushed one in its slot only after.

*PipelineProofs.* For the hand-overs (first part) none of the properties is
inductive. `IInv` adds

- `Places`: which labels a source, a processor and the finalization can be at,
  and that no thread runs before the setup;
- `SlotToken`: for each slot exactly one of "free" (`result`), "full"
  (`new_cmd`), "being written" by the thread before, "being read" by its own;
- `JobToken`: for each `process_info` at most one of a job not yet taken, a child
  at work, a result not yet taken, and only while the thread waits; at most,
  because a child that dies takes the token with it;
- `Handover`: what stands in a slot that is full, or in a `process_info` with a
  job, is a real buffer, the one the writer held.

For ownership (second part) lemma `Movements` shows that every step of the
program moves at most one buffer, in one of five ways: it keeps all in place,
pops, pushes, puts into a slot, takes out of a slot. Ownership is preserved by
five small arguments instead of thirty. `RingDoesNotOverflow` is a pigeonhole
argument: the ring holds distinct offsets, and the one about to be pushed is not
among them.

For the shutdown (third part) the invariant adds that a module which has seen
the stop command, in its slot, its local or its loop's end, is preceded only by
modules that have passed it on (`StopOrder`), that nothing comes into its slot
behind the command (`StopDrained`), that a thread leaves `stop_wait_result` only
when its child has left its loop (`ChildLeaves`), and that the ring is destroyed
only when all threads are done (`Joined`). With all modules done no one holds a
buffer and no slot is full, so `NoLeak` puts every buffer into the ring.

The fourth part shows the refinement. `Conveyor`'s belt is the stages of the pipeline
put together with `FlattenSeq`. By `Movements` a step changes one stage or two neighbouring ones;
`ReplaceOne` and `ReplaceTwo` say that the whole then changes at that place
only, and `TakeOut` that a drop leaves a subsequence. They rest on what
`FlattenSeq` is, which needs an induction on the number of stages: the induction
theorems of the library cannot be used, so the proof takes the least number for
which the claim fails (the order on the naturals is well-founded) and refutes
it. `ModelSpec` takes only steps of `Pipeline`, so `model.c` inherits both
theorems; its children answer 0 and 1, which must be among the statuses of the
pipeline it is compared with.

*CommandProofs.* The counters are exact (`Counted`) and clients leave room for
the STOP of `command_server_destroy` (`Budget`); from there the proof follows
the pipeline in charge from INIT or CONFIG to its one `pipeline_destroy`. This does not
look at the ring's words, so `PipelineShutDownOnce` holds also when the ring
runs over. `ExecutedInOrder` needs `FifoInv`: command k stands in word
k - 1 until it is popped. The hypothesis `MaxCommands <= QueueSize` is exact: with one
command more than slots TLC finds `ExecutedInOrder` violated, because the ring is
created as full (finding 2), so the theorem says up to where the code is right.

*ProcessProofs.* The entries handed out are distinct and below the counter, and
what a thread checked is still true when it increments, because it holds the
mutex. It is the counter that is never set back which keeps a child that opened
the wrong memory from answering a thread of the other pipeline. `LayoutIsSafe` is
about the memory itself: entries and buffers of any number and size lie inside it and
share no byte, so that entry i and buffer k may be spoken of as things of their own.

*TcpProofs.* `StreamCut` says that what the server's buffer and the socket hold
of a client can be cut into its lines not handled yet. A read moves bytes from
one to the other and no cut; handling takes the first piece away, whatever
else has arrived; sending adds one. That a stream with cuts is the sequence
`StreamIntact` names is again proved by the least number for which it is not.
`NeverBlocksInRead` rests on the list of connections having no duplicates: the
loop reads once per connection and `select`, so data that `select` saw is there.

*CaptureProofs.* Four independent invariants of the capture programs. `Dialogue`: one
datagram at most is on its way, the request of the step at hand or its answer; this is what makes
it harmless that nobody compares the id. `StreamOrder`: every packet on
its way comes after all that has been gathered, in the order of the camera, as
long as none has overtaken another; for `capture.c` the files are in order even
then. `RequestIsStep`: the request on its way is that of the script. `Settled`:
what the last steps of the script achieve lasts, since no step behind them
starts the camera or the thread again. The heads of the scripts matter only in
that no step of them is one of the last.

Of the discovery the invariant `Listening` says for each interface that a beginning
of its early datagrams has been taken (`Taken`): the others stand at the front of the
socket in their order, those taken have been put to use, and, until all are taken,
the interface has as many devices as answers were taken. The last is what makes the
ranks agree when the next answer is listed (`TakesNext`); it is given up once the
early datagrams are through, since late answers are listed too. An answer put to use
stays so because the list only grows at its end (`RanksStay`, `PutStays`).
`device_find` and `finddevices` leave before all is taken, and are done then
(`FoundIsEnough`, `FirstIsEnough`).

*MessengerProofs.* No lock protects the lists, so the invariant says what each
thread may find when it runs again: what the client watches is in its list
except for the connection its main thread is just adding, which has no event yet
(`WatchedIsListed`); until `exit_flag` is set the server's listen thread is the only one
that changes its list and its batch (`ServerListed`).

*CvProofs.* The bytes of a connection are counted from its first one. `Consumed` is
how far the collector has come, in whole images delivered and in the one it puts
together; so every byte on its way has a place, and `InTransit` says that it is the
byte of that place in the images sent. `Assembly` says that what has been gathered is
the beginning of the image whose turn it is. `Written` says how much has been sent: whole
images, except for what the one thread in the middle of an image has still to write.
A read moves the border between consumed and on its way, a write adds the next
byte, and neither changes what lies between. All this holds while `clean`
does. The fourth thing `clean` excludes (section 2) is a finding of this proof: with
only three of them `Written` is not preserved by `Accept`.

*Only model-checked:* everything about progress (`ShutdownCompletes`,
`BuffersComeBack`, `ServerEnds`, `SinglePipelineEnds`, `ZombiesReaped`,
`ClientAnswered`, `ServerStops`, `CaptureEnds`, `QuitEnds`, `StopEnds`), which needs
fairness and `ENABLED` and is out of this prover's reach. Every other property a run
checks is a theorem.


## 5. Not modelled

- `pthread_create`, `sem_init`, `malloc` and mapping failures; logging; pixels; JSON
  parsing (its result, the chain, is a constant).
- Capture: duplicated datagrams; `epoll_create` and `epoll_wait` failing while an
  acknowledge is awaited; a camera that reports the packet size 0; error packets,
  which the threads treat like a leader; the size of a frame against
  `MAX_FRAME_SIZE`; the moment in which `gvsp_thread` runs before its callback is
  set.
- TCP server: a blocking `write` to a client that never reads and whose socket is
  full, which would stop the server's only thread.
- Messenger: the proxy; `server_send_replies_callback`, which nothing calls;
  addresses and names.
- cvcamera: `generator_destroy`, which nothing calls; the contents of images and
  `findRadius`, whose result is any.
- `process_kill_all`, which nothing calls; the fault handler of `signal_reaction`.
- `streamer/src/pipeline.c` and `capture/src/source.c` are not built (the second does
  not compile); what they do is done by `pipeline_server.c`, `camera.c` and
  `capture.c`.
- Programs that are thin layers over a library (Aravis, OpenCV, storage, Python,
  PostgreSQL) have no state of their own; `api`, `config` and `filereader` are
  sequential input.

The reason for each component is in `PROJECT.json`.

## 6. Plan

Done: 1. `FreeList`, `RingBuffer`. 2. `Pipeline`, `Conveyor`, `PipelineOrder`.
3. `Streamer`. 4. `CommandServer`. 5. `ProcessManager`. 6. `TcpServer`. 7. `Model`.
8. `GigeCamera`, `OldCapture`, `Discovery`. 9. `Messenger`. 10. `CvCamera`.
11. `PipelineProofs`, `ProcessProofs`. 12. `RingProofs`. 13. The refinement of
`Conveyor`. 14. `CommandProofs`. 15. `TcpProofs`. 16. `CaptureProofs`.
17. `MessengerProofs`. 18. `CvProofs`. 19. The discovery in `CaptureProofs`.
20. `SharedMemory`.

Nothing of the plan is open. What would come next is the capture source and the
Aravis camera, should they be built again.
