# Darwin Streaming Server in TLA+

A verification development of the C++ sources in
`src/DarwinStreamingSrvr5.5.5-Source` (Darwin Streaming Server 5.5.5): TLA+
models of its concurrent core, TLC configurations that check them, and proofs
checked by TLAPS.  The code is the reference; the documents in `Documentation/`
were read with it, and where the two disagree the models follow the code.

Contents

1. The system
2. The plan
3. The modules and the code they model
4. The runs, their bounds, and the fairness they assume
5. The proofs
6. Where code and comments disagree, and other observations
7. What is not modelled
8. Running the checks

`PROJECT.json` lists the components, the runs, for every property a slip in a
modelled operation that the property notices, the source lines of every
definition, the hazards and the theorems.

## 1. The system

The server is one process.  An *event thread* waits in `select()`; a handful of
*task threads* run small objects (`Task`) that never block; an *idle thread* and a
*timeout thread* signal tasks when time has passed.  An RTSP connection
(`RTSPSession`) is a task that parses requests and calls modules through their
roles.  A client session (`RTPSession`) is a task that sends media and outlives the
connection that made it.  A movie is read from files (QTSSFileModule), a live stream
is reflected from a broadcaster to viewers (QTSSReflectorModule).

    event thread --Signal--> Task <--Signal-- idle / timeout threads, other tasks
                              |
              task thread: queue, timer heap, Run() under the global RW lock
                              |
             RTSPSession --finds by name (OSRefTable)--> RTPSession --> RTPStream
                  |  counts holders (fObjectHolders) <---------'           |
                  '--RequestEvent--> select() sets <--- closes --- UDP pair / interleaved

Directories: `C` = `CommonUtilitiesLib`, `S` = `Server.tproj`, `A` = `APIModules`,
`R` = `RTSPClientLib` and the programs beside the server.

### 1.1 Scheduling and shared data (C)

**Read/write lock** (`OSMutexRW`).
- *State*: `fState` (-1, 0, or the number of readers), the numbers of waiting
  readers and writers, one mutex and two conditions.
- *Operations*: LockRead, LockWrite, both Try variants, Unlock.  The scheduler holds
  it for reading around every `Run()` and for writing around a run that was asked
  for with `CallLocked`.
- *Hard*: timed waits, which of two conditions to signal, the order of arrival.
- *Correct if*: a writer excludes everybody; counts are exact; nobody sleeps on a
  lock that nobody will release; a writer gets in.

**Task scheduler** (`Task`, `TaskThread`, `TaskThreadPool`).
- *State*: `fEvents` of a task with the bit kAlive, `fUseThisThread`, `fWriteLock`;
  a blocking queue and a heap of timers for each thread; a round-robin counter.
- *Operations*: Signal, GetEvents, ForceSameThread, CallLocked, WaitForTask, Entry.
- *Hard*: the word of events is changed by atomic operations only, so every
  interleaving of several signallers with the running thread matters.
- *Correct if*: a task is held by exactly one queue, heap or thread while kAlive is
  set and by none otherwise; it never runs twice at a time; no event is lost; it
  gets the thread and the lock it asked for; every event is delivered.
- *Further hazards*: due timers go before the queue and a task that returns 0 with
  bits set keeps its thread (Task.cpp:213); RemoveThreads deletes threads that
  others can still signal (Task.cpp:266).

**Reference table** (`OSRef`, `OSRefTable`, `OSHashTable`).
- *State*: a hash table from names to references, a counter for each, one mutex.
- *Operations*: Register, RegisterOrResolve, Resolve, Release, UnRegister (waits for
  the other users), TryUnRegister, Swap.  Used for RTP sessions, reflector sessions,
  open files, tunnels and the contexts of the event thread.
- *Hard*: UnRegister waits with the entry still in the table.
- *Correct if*: one object for each name; an object is deleted only when nobody else
  can reach it; the waiter is always woken.

**Timer heap** (`OSHeap`).
- *State*: an array that grows, marks in the elements.
- *Operations*: Insert, ExtractMin, Remove.  Sequential.  Correct if it is a
  priority queue.

**Timers** (`IdleTask`, `TimeoutTask`).
- *State*: a heap of idle tasks with its mutex and condition; a list of timeout
  tasks scanned once a minute or sooner.
- *Operations*: SetIdleTimer, CancelTimeout, the idle thread's Entry, ~IdleTask;
  SetTimeout, RefreshTimeout, the scan.
- *Hard*: SetIdleTimer tests and writes before it locks (IdleTask.cpp:10); the idle
  thread signals a task it has extracted while the task's destructor cancels the
  timer (IdleTask.cpp:44); a 64-bit time is written without the mutex
  (TimeoutTask.cpp:42); the next scan's time depends on the order of the list
  (TimeoutTask.cpp:69).
- *Correct if*: a set timer fires once, not early, and never for a deleted task.

**Event loop and listener** (`ev.cpp`, `EventContext`, `EventThread`,
`TCPListenerSocket`).
- *State*: the read and the write set, the sets `select()` returned, the largest
  descriptor, an id for each descriptor, the descriptors to close, a pipe; a
  reference table from ids to contexts.
- *Operations*: RequestEvent, Cleanup, SnarfEventContext; select_modwatch,
  select_removeevent, select_waitevent; the event thread's Entry; accepting.
- *Hard*: the sets are changed while the event thread copies them, waits on them or
  scans them; a descriptor's number is reused by the next connection.
- *Correct if*: the event thread never waits on, or closes, somebody else's
  descriptor; an event reaches the context that owns the descriptor; nobody who
  asked is forgotten; every change ends the wait that does not know of it.

**UDP sockets** (`UDPSocketPool`, `UDPDemuxer`, `RTCPTask`).
- *State*: pairs of sockets with reference counts, for each a map from remote
  addresses to streams.
- *Operations*: GetUDPSocketPair, ReleaseUDPSocketPair, RegisterTask,
  UnregisterTask, the RTCP task's Run.
- *Hard*: an address is tested under the pool's mutex and registered later
  (UDPSocketPool.cpp:17); the RTCP task uses a stream while others delete it
  (RTCPTask.cpp:95); half a pair may fail to open or to bind (UDPSocketPool.cpp:71).
- *Correct if*: no two streams of a pair share a remote address; a stream is not
  deleted while a packet is delivered to it; no socket leaks.

### 1.2 Connections and sessions (S)

**RTSP request processing** (`RTSPSession::Run`).
- *State*: `fState`, the current module, the request, input and output streams.
- *Operations*: one for each state: read, filter, route, authenticate, authorize,
  preprocess, process, postprocess, send, clean up.
- *Hard*: a module may ask to be called again, later or under the global lock, and
  the state machine comes back to the same call (RTSPSession.cpp:466); interleaved
  media and answers share one connection (RTSPSessionInterface.cpp:274); channel
  numbers are eight bits (RTSPSessionInterface.cpp:224); a stream is looked up for a
  channel of a session that may belong to another connection (RTSPSession.cpp:2014).
- *Correct if*: every role is called at most once for a request and module, in
  order; answers are sent in the order of the requests; a mutex taken is given back
  on each path.

**HTTP tunnel** (`RTSPSession`, `sHTTPProxyTunnelMap`).
- *State*: a table from cookies to the half that came first.
- *Operations*: parse the GET or POST, find the other half, take over its socket and
  the rest of its input.
- *Hard*: the halves are on two connections and two threads and may meet at any time
  (RTSPSession.cpp:1226, 1308, 1365; EventContext.cpp:100).
- *Correct if*: a half that waits is found by the next one that comes; a request in
  hand keeps its input; what the client sends is read in the end, in whichever order
  the halves came.

**Lifetime of connections and sessions** (`RTSPSession`, `RTPSession`,
`RTSPSessionInterface`, `RTPSessionInterface`).
- *State*: the server's map of sessions with reference counts, the list of sessions
  and their counters, the connection a session points at, the number of sessions
  that point at a connection.
- *Operations*: find or create a session, move it to another connection, play, tear
  down, time out, kill, close, delete.
- *Hard*: two tasks that point at each other, on different threads, both of which
  may be told to go at any time.
- *Correct if*: nobody uses what has been deleted; the counters are what they count;
  what was told to go does go.

**RTP streams, thinning, overbuffering** (`RTPStream`, `RTPOverbufferWindow`).
- *State*: quality levels, times of the last change, bytes sent ahead of time.
- *Operations*: Setup, Write, UpdateQualityLevel, SendRTCPSR,
  ProcessIncomingRTCPPacket.
- *Hard*: levels from delays of several streams (RTPStream.cpp:899); Write gives up
  when the session is busy and must say when to come again (RTPStream.cpp:922).
- *Correct if*: the level stays between 0 and the number of levels; a refused packet
  is offered again; the window is not exceeded.

**Reliable UDP** (`RTPPacketResender`, `RTPBandwidthTracker`).
- *State*: an array of unacknowledged packets for each stream; congestion window,
  bytes in flight and round-trip time shared by the streams of a session.
- *Operations*: AddPacket, AckPacket, ResendDueEntries, ClearOutstandingPackets;
  FillWindow, EmptyWindow, AdjustWindowForRetransmit.
- *Hard*: lost, late and doubled acknowledgements, 16-bit sequence numbers
  (RTPPacketResender.cpp:364), a window shared by streams of which one is cleared
  (RTPPacketResender.cpp:303; RTPBandwidthTracker.cpp:86, 162).
- *Correct if*: bytes in flight are the bytes of the packets in the arrays; a packet
  is acknowledged once; nothing is resent for ever.

**Server start, shutdown, statistics** (`QTSServer`, `QTSServerInterface`,
`RunServer`).
- *State*: the server's state, counters, the list of modules.  Operations:
  initialise, start tasks, KillAllRTPSessions, wait, RemoveThreads, delete; the
  statistics task.
- *Hard*: shutdown waits five seconds at most (RunServer.cpp:651); bytes are read
  and subtracted in two steps (QTSServerInterface.cpp:392).

**Module API** (`QTSSCallbacks`, `QTSSModule`, `QTSSDictionary`, preferences).
Mostly lookup.  The callbacks that change control flow (RequestLockedCallback,
RequestEvent, SetIdleTimer) act on the thread's current task; `UnlockGlobalLock`
casts an OSThread to a Task (QTSSCallbacks.cpp:765).

### 1.3 Media (A, R, QTFileLib)

**Reflector** (`QTSSReflectorModule`).
- *State*: for each stream a queue of packets and a free list, outputs in buckets
  with a bookmark; a table of broadcasts with reference counts.
- *Hard*: a bookmark may point at a packet that is freed and used again
  (ReflectorOutput.h:119, ReflectorStream.cpp:1170); an output gets the same bucket
  in every stream or none (ReflectorSession.cpp:322); the last viewer deletes the
  session while another arrives (QTSSReflectorModule.cpp:2117, 1987).
- *Correct if*: every viewer gets each packet at most once and in order; a freed
  packet is in no bookmark; an output sits in the same bucket of every stream; a
  broadcast is deleted when, and only when, nobody uses it.

**Movie files** (`OSFileSource`, `OSBufferPool`, QTFileLib, `QTSSFileModule`).
- *State*: a map of blocks, an LRU list.
- *Hard*: a block is entered before it is read (OSFileSource.cpp:267); a full pool
  takes a block from its place (OSFileSource.cpp:138); positions beyond 4 GB
  (OSFileSource.cpp:347).
- *Correct if*: a read returns the bytes of the file or an error.

**Relay and splitter**, **access control, spam and flow control, logs, admin**,
**RTSP client library** (ClientSession.cpp:791: acknowledgement masks across the
16-bit wrap), **playlist broadcaster** (PlaylistPicker.cpp:338: the list of recent
movies may be as long as the playlist), **parsers and text utilities** and the
**layer over the operating system** complete the list; section 7 says why each of
them comes late or not at all.

## 2. The plan

The order is that of what everything else rests on: first the scheduler and its
lock, then the structures all tasks share, then the life of connections and
sessions, then what single subsystems do.

| step | modules | models | state |
|---|---|---|---|
| 1 | `RWLock`, `OSMutexRW`, `OSMutexRW_proofs` | the lock, and what it promises | checked, proved |
| 2 | `TaskScheduler`, `TaskScheduler_proofs` | Task.cpp on `OSMutexRW` (`INSTANCE`) | checked, safety proved |
| 3 | `OSRefTable`, `Containers_proofs` | finding and deleting by name | checked, proved |
| 4 | `PriorityQueue`, `OSHeap`, `MCOSHeap`, `Containers_proofs` | timer heap, and what it promises | checked, proved |
| 5 | `SessionLifetime`, `SessionLifetime_proofs` | RTSPSession, RTPSession, their map and counters | checked, safety proved |
| 6 | `EventLoop`, `EventLoop_proofs` | select(), contexts, listener | checked, safety proved |
| 7 | `RTSPRequests`, `RTSPRequests_proofs` | the states of a request, the two halves of an HTTP tunnel | checked, safety proved |
| 8 | `ReliableUDP`, `ReliableUDP_proofs` | resender, congestion window, the sending task, a lossy network | checked, safety proved |
| 9 | `ReflectorSessions`, `ReflectorSessions_proofs` | broadcasts, viewers, buckets of outputs | checked, safety proved |
| 10 | `ReflectorQueue` | packets, bookmarks and the time they are kept | open |
| 11 | `UDPSockets` | pairs, demuxer, RTCP task | open |
| 12 | `Timers` | IdleTask on the heap, TimeoutTask's scan | open |
| 13 | `FileCache`, `Shutdown`, `ClientAcks`, the playlist picker | block cache; the end of the server; two programs beside it | open |

Compositions: `TaskScheduler` contains the lock as an instance, so that the lock's
assumption on its callers meets the code that calls it.  The modules of steps 5 to 9
use what 1 to 4 establish as the atomicity of their steps: a method of the reference
table is one step there, a task that was signalled runs in the end and on one thread
at a time, and a run that asked for the global lock is alone.  `RTSPRequests` takes
up the scheduler's flag `fWriteLock` again, because what a module is told depends on
it, and leaves the counting of holders to `SessionLifetime`.

## 3. The modules and the code they model

Conventions.  Variables and operators have the names of the source.  `pc`, `at` and
`stage` say where a thread, a connection or a session is between two steps. A
history variable (`undelivered`, `owed` in the scheduler, `asked` in the event loop)
only remembers what a property speaks of.  A definition `<operation>_<slip>` is the
operation with a plausible mistake (a dropped test, a missing reset, a swapped
order); no specification uses it: it shows which property would notice that mistake,
and PROJECT.json pairs them.

### OSMutexRW, RWLock (`C/OSMutexRW.cpp`, `.h`)

`fInternalLock` is held in every method except inside `OSCond::Wait`.  So a method
is one step up to the point where it sleeps (LockRead, LockWrite, TryLockRead,
TryLockWrite, Unlock), and another where it wakes and tests its loop again (Resume).
A wait may end without a signal, because the code waits with a timeout (WaitEnds).
`Writers` is the set of threads that may ask for exclusion: the scheduler's callers
decide how many there are, and the code is right only for one (section 6). `RWLock`
is the promise: any readers or one writer; the refinement maps `at` to the two sets
of holders.

### TaskScheduler (`C/Task.cpp`, `.h`, `C/OSQueue.cpp`)

One step is one access to shared state: the atomic_or of Signal (which decides by
the old value whether to enqueue), the enqueue, the read and the subtraction of
GetEvents, the compare_and_store when a task rests.  WaitForTask is TakeDue,
NothingDue, DeQueue, Sleep, SleepEnds; Entry is Start, WaitForLock, GetEvents,
SubtractEvents, Return, and then Delete (negative), Rest (zero) or SetTimer
(positive).  What `Run()` does is open: it may signal any task, its own included,
ask for the same thread or for the global lock, and return any of the three kinds of
timeout.  The lock is `INSTANCE OSMutexRW` with all threads as writers; which tasks
ever ask is `Lockers`. Time is abstract: a timer becomes due at any moment; timers
that are due are taken in that order.  A deleted task is never signalled: that is
the duty of its owners, and the subject of the modules below.

### OSRefTable (`C/OSRef.cpp`, `.h`, `C/OSHashTable.h`)

Every method is one step under `fMutex`; UnRegister is two (UnRegister, and its
continuation when it wakes), since it sleeps with the mutex released.  Its wait has
no timeout, so that a missing signal would be for ever.  The client's side is the
protocol all callers in the server follow: at most one reference a thread, each
given back once, none held when the thread takes an object out of the table. Swap
replaces the reference of a name by another and leaves the old one for a later
UnRegister, as SnarfEventContext does.  The hash function and the chains are not
modelled: the table is a set of references, looked up by name.

### OSHeap, PriorityQueue (`C/OSHeap.cpp`, `.h`)

The array, the free index, the size of the array with its doubling, and the marks of
the elements.  One round of a loop is one step, so that the order of the array can
be stated between rounds.  Remove is the code's search followed by Extract at the
place found.  `PriorityQueue` is the promise: a set with values and ExtractMin; an
operation takes effect in its last round.

### SessionLifetime (`S/RTSPSession.cpp`, `RTPSession.cpp`, their interfaces)

A connection goes through the places `reading`, then `registering`, `listing`,
`resolving` if it creates a session, `processing`, `postprocessing`, `joining`,
`cleaning`, `ending`, and is `dead` (waiting for its holders) or `deleted`. A
session is `unborn`, `open`, `closing` (out of the map, its closing modules run),
`unlisted`, and `unborn` again: an object that is constructed anew is a new session.

| action | code |
|---|---|
| Accept | the constructor of RTSPSession, after the accept of EventLoop |
| FindRTPSession | RTSPSession.cpp FindRTPSession; Resolve in the map |
| CreateNewRTPSession, Register, ListSession, ResolveNew | CreateNewRTPSession, RTPSession::Activate and the Resolve after it |
| Setup, Play, TeardownRequest, OtherRequest | AddStream, Play, Teardown called by a module in the processing roles |
| PostProcess, Join | UpdateRTSPSession: off the old connection, onto the new one |
| CleanupRequest | CleanupRequest: give back the reference |
| TakeEvents, ClientCloses, EndRun | the head and the end of RTSPSession::Run |
| Drop, SignalOwed | DecrementObjectHolderCount: the counter, then the signal |
| TimeoutSession, TimeoutConnection, KillAllRTPSessions, ModuleTeardown | who may ask a task to go |
| TryUnRegister, Unlist, Destroy | RTPSession::Run, ~RTPSession, ~RTPSessionInterface |

The mutex of a session makes what is done under it one step, except that the counter
and the signal of Drop are two.  `KillsWhileCreating` says whether a session may be
told to go before its creator has a reference: the code allows it, and then the rest
does not hold (section 6).  With `FALSE` the model says what holds when no timeout
(120 seconds by default) and no shutdown falls into those few instructions.

### EventLoop (`C/ev.cpp`, `EventContext.cpp`, `TCPListenerSocket.cpp`)

The event thread's `pc` goes `scan` (select_waitevent's loops over the returned
sets), `select` and `blocked` (between copying the sets, calling `select()` and its
return), `drain` and `close` (the pipe has a byte: read it, close what was given
up), `deliver`, `process`, `listening`, `release` (EventThread::Entry).
RequestEvent is two steps, the change of the sets and the write to the pipe, as in
select_modwatch; Cleanup is three: UnRegister, select_removeevent, the write.  The
kernel is four sets: open descriptors, those with data, those that take output, and
the listen queue; `accept()` returns the lowest free descriptor, as POSIX says, so
numbers are reused at once.  The listener runs on the event thread and, after
SlowDown, on a task thread; `deaf` remembers that accept() failed.  A connection's
task is reduced to what it does with its socket.  The pipe holds one bit: select()
only asks whether it can be read and 4096 bytes are read at a time.

The id of a context is the next of a counter that wraps (at 10000000 in the code).
With `ReusesIds = FALSE` a client connects only when that id is not `InUse`: no
context has it, and no event taken from the sets under it has yet to be resolved.
An id that is only absent from the reference table may still belong to a connection
inside Cleanup, which has left the table but not yet the sets.

### RTSPRequests (`S/RTSPSession.cpp`, `RTSPSessionInterface.cpp`)

One session is one connection; its task's `pc` is `idle` between two runs, `run` at
the head of the loop of `Run()`, and `registering`, `locking`, `binding`,
`releasing` or `deleting` inside the tunnel's code.  `fState` has the code's states,
with those between kRoutingRequest and kProcessingRequest taken together
(`serving`): they treat a module that waits, asks for the lock or answers alike.

| action | code |
|---|---|
| Connect, Arrive, TimeOut | what clients and the timeout thread do |
| Run, Return | TaskThread::Entry around Run: the events, and the global lock that a run was asked for |
| ReadFirstRequest | kReadingFirstRequest: a POST takes its own input apart, a GET or POST with a cookie goes to the map |
| AwaitRequest, ReadRequest, InputIsGone, HaveMessage | kReadingRequest and the two mutexes that a request keeps until CleanUp |
| CallModules, ModuleWaits, SendResponse, CleanUp | the roles; a module that is to be called again, later or under the global lock; an answer the socket does not take yet |
| Register, ReleaseOther, TryLock, BindPost, BindGet, Release, WaitToBind | PreFilterForHTTPProxyTunnel, SnarfInputSocket, the wait for the other half |
| UnRegister | ~RTSPSession: out of the map, when the entry is its own |

Every half has one cookie; other cookies would be other copies of the model.  An
OSMutex is recursive, and both mutexes of a request belong to a *thread* (the code
keeps them from one run of the task to the next).  `SharesThread` says whether a
half may run on the thread that keeps them: with `FALSE` the model says what holds
of halves on different threads.

### ReliableUDP (`S/RTPPacketResender.cpp`, `RTPBandwidthTracker.cpp`, `RTPStream.cpp`, `RTPSession.cpp`)

The arrays of packets not acknowledged yet, one for each stream, and the tracker they
share.  The session mutex is held for a whole run of the task, so a step is one
round of a loop under it: a packet cleared by PLAY, a due entry sent again or
dropped, a packet written.  ProcessIncomingRTCPPacket tries that mutex and drops the
acknowledgement when it is taken, which is a lost packet like any other.

| action | code |
|---|---|
| Play, ClearPacket, ClearStream, Pause | RTPSession::Play (ClearOutstandingPackets, SetWindowSize), Pause |
| RunPaused, RunRetransmits, RunModule, EndRetransmits | RTPSession::Run: the resend pass, then the module |
| ResendDueEntries | the loop over the array: Resend, or Expire and the hole filled with the last entry |
| ReliableRTPWrite, Write, WouldBlock, TooEarly, EndOfMovie | SendPackets of QTSSFileModule and RTPStream::Write below it |
| Ack | ProcessAckPacket, AckPacket, EmptyWindow; AddToRTTEstimate when the packet was sent once |
| Tick | time |

Time is kept as ages in ticks, cut off where no comparison tells them apart.  The
network is the freedom of Ack: any sequence number, at any time, once packets are
sent, so acknowledgements are lost, late, doubled and for another packet with the
same number.  The estimate of the round trip is any value between its limits.

### ReflectorSessions (`A/QTSSReflectorModule`: `QTSSReflectorModule.cpp`, `ReflectorSession.cpp`, `ReflectorStream.cpp`)

One path with its broadcast.  A client goes through `adding` and `undoing` (its
output is put into stream after stream, and taken out again when one has no room in
that bucket), `leaving`, `tearing` (a broadcaster that tells its viewers to go) and
`dropping` (the end of RemoveOutput).  A step is what the code does under one mutex:
that of the map, or the fBucketMutex of one stream.

| action | code |
|---|---|
| DescribeNew, Setup, SetupPush, PlayPush, Announce | DoDescribe, DoSetup, DoPlay, DoAnnounce with FindOrCreateSession |
| LoseReference | the paths that resolve a session and do not give it back: every DESCRIBE, a SETUP refused later, a second PLAY of a push |
| AddOutput, AddOutputFails, UndoOutput, Retry | ReflectorSession::AddOutput over ReflectorStream::AddOutput, FindBucket |
| CloseViewer, RemoveOutput, Leave | DestroySession, RemoveOutput |
| CloseBroadcaster, TearDownStream | DestroySession, TearDownAllOutputs |
| KillSession, KillBroadcaster | KillSession: the outputs, then the broadcaster's session |

A session object is allocated, deleted and allocated again; `unreleased` is a
history of the references that nobody will give back.  `Orderly` says whether others
keep away between a broadcaster's SETUP and its PLAY, where it has no reference, and
from a KillSession that does not have the map's mutex (section 6).

## 4. The runs, their bounds, and the fairness they assume

| run | states | shows |
|---|---|---|
| `mutexrw` | 182 | four threads, one of which may write: no lost wakeup, a writer gets in, the lock implements `RWLock` |
| `mutexrw_two_writers` | (violation) | two writers are inside together |
| `scheduler` | 76,552 | two threads, two tasks, one outside signaller, one event, a task that may ask for the lock: one holder, no event lost, thread and lock honoured, no sleep over work, delivery |
| `osref` | 88,280 | three references of two names, three threads: one object for each name, deletion alone, no lost wakeup, nothing leaves the table by itself |
| `osheap` | 13,868 | five elements, three values, one of which may be removed: order, exact members, refinement of `PriorityQueue` |
| `osheap_remove` | (violation) | Remove breaks the order |
| `sessions` | 16,962 | two connections share a session: nobody uses what is deleted, the counters of holders and players, a dead connection is deleted, a killed session goes |
| `session_created` | (violation) | a session killed while created deletes itself |
| `eventloop` | 970,545 | two connections, four descriptors, ids 1 to 3, failing accept: sets, ownership, wakeups, one event for each request |
| `reliable_udp` | 80,116 | two streams, a window of a packet and a half: bytes in flight exact, window kept, every packet acknowledged or expired |
| `reflector` | 91,852 | two viewers and a broadcaster: references exact, deletion with the last and not before, the same bucket in both streams, viewers get in and go |
| `rtsp_requests` | 163,642 | a GET and two POSTs of one tunnel: found in the map, the lock a module was told of, input undisturbed, requests read |

Why the bounds are enough to meet the hard cases:

- *mutexrw*: a writer and three readers are the least in which readers sleep, one is
  woken, another arrives, and the writer waits behind them.
- *scheduler*: a signaller outside the pool, two threads and two tasks give the
  races of Signal with GetEvents, with the rest of a task, with its timer, and with
  another signaller, and let a task be bound to one thread while another is free.
  Events are a set in the code too (bits), so one kind besides kIdleEvent is enough
  to be lost.
- *osref*: three threads let one wait in UnRegister while a second holds the
  reference and a third resolves it or registers a second object of that name.
- *osheap*: five elements give three levels, a parent with one child and a full
  array that doubles (2, 4, 8); one element may be removed from anywhere, which with
  five elements never leaves a leaf above its new parent.  Six, in `osheap_remove`,
  are the least with which it does.  Elements are interchangeable (symmetry), and
  neither the invariants nor the refinement, a safety property, tells them apart.
- *sessions*: a session moves from one connection to another while its first
  connection dies; `MaxConnections` 1 is reached; two PLAYs are counted.  The
  invariants are proved for any number of connections and sessions.
- *eventloop*: two connections beside pipe and listener, so that a descriptor in the
  middle and the largest are removed, and their numbers and ids come round again.
- *reliable_udp*: two streams share a window that takes one packet of size 2, or one
  and a half; two sequence numbers come round again while an old packet or its
  acknowledgement is about; a timeout of 0 or 1 tick lies on either side of the ages
  0 and 1 that a packet may be given.
- *reflector*: a bucket holds one output, so two viewers who come at once block each
  other in different streams and one must undo and go higher; the third client is
  the broadcaster.  One session object is enough to be deleted and used again; the
  proofs have any number.
- *rtsp_requests*: a second POST replaces the first as the input, or comes before
  the GET, or while the GET has a request in hand; each half may time out anywhere.

The model bounds `SeqNums`, `MaxUnreleased`, `Capacity`, `MaxPlays`, `NumFDs` (and a backlog of one) are
constants or guards named in the modules; none of the proofs gives them a value.

Deadlock is checked in every run: none of these systems stops.

Fairness:

- `OSMutexRW`: weak fairness of a thread's Resume and of Unlock.  A woken thread is
  scheduled and a `Run()` returns.  None of WaitEnds: the timeouts of the waits are
  not relied on.
- `TaskScheduler`: weak fairness of each thread's Entry, of a signaller that has set
  kAlive and must enqueue, and of time.  Delivered holds under ThreadsServeQueues, a
  condition stated in the property and not a fairness of the code: a task that
  returns 0 with bits set is run again by its thread before anything else, and due
  timers come before the queue, so a thread can be kept from its queue for ever.
- `SessionLifetime`: weak fairness of what a connection and a session do by
  themselves (ConnStep, SessionStep).  `TaskScheduler` delivers their events and a
  module answers in the end.  None of the clients, timeouts and kills.
- `EventLoop`: none is stated, for only safety is checked of it: SleepsSoundly and
  NobodyForgotten say in each state what keeps a wait from being for ever, and do not
  count on the 15-second timeout of `select()`, which would hide a missing wakeup.
- `ReliableUDP`: weak fairness of the task, which goes on with a run it began and is
  run when it is scheduled; strong fairness of time and of a packet whose time has
  come (the module does not find packets too early, or drop late ones, for ever).
  None of the network: no acknowledgement need ever come.
- `ReflectorSessions`: weak fairness of a client's step, of closing once it was told
  to go, of a broadcaster's PLAY after its SETUP and of the end of a KillSession;
  strong fairness of Leave, which waits for the mutex of the map.
- `RTSPRequests`: weak fairness of a run that was signalled, strong fairness of the
  steps that wait for fReadMutex, and of a GET's request: modules answer in the end.

## 5. The proofs

Each `*_proofs` module extends its component's module and proves its invariants for
every value of the constants.  Assumptions on constants are the named ASSUMEs of the
component's module (finite sets, distinct values, ranges), which TLC evaluates in
each run. The form is always the same: Init gives the invariant, each action keeps
it (one step an action, one below for each conjunct it disturbs), the property
follows, and PTL joins them.

**OSMutexRW_proofs** (under `OneWriter`: at most one thread in `Writers`). The
inductive invariant says where threads can be (only writers on the writer's side),
Exclusion and CountsAreExact.  Exclusion alone is not inductive: LockWrite tests
`fState`, so that `fState` must be what it counts.  From it: *TypeCorrect*,
*ExclusionHolds*, *CountsHold*, then *NoLostWakeupHolds*, and *Implements*: every
step of the lock is a step of `RWLock` or a stutter.  Without OneWriter all this is
false (section 6).  The step lemmas ask for less than OneWriter, OneAsks: at most one
thread is on the writers' side *at a time*, whichever it is.  That is what a composed
system can give, where a task is locked now on one thread and then on another.

**TaskScheduler_proofs**. For the tasks themselves no assumption is needed. The
invariant is TypeOK;
ThreadsOK, which ties `pc` to `theTask`; OneHolder; and EventsOK, which says that
undelivered events are in `fEvents` and that an event a thread has read is still in
the word until it subtracts.  OneHolder is what makes EventsOK inductive: one thread
subtracts at a time.  It follows that no two threads work on one task
(*RunsAloneHolds*: the assertions on `fInRunCount`), that no event is lost
(*NoEventLostHolds*) and, by OwedThreadOK, which says in which places a task with a
forced thread can be, that it runs next on that thread (*SameThreadHolds*).
*NoSleepHolds* says that the signal of EnQueue is never missed.
LockPlaces ties a thread's place in the lock to its place in Entry and to `fWriteLock`
of its task.  With it, and under `Relockers = {}`, *LockHonouredHolds*: the request of
a task stays in `fWriteLock` until a thread runs it with the lock (if a task may ask
during a locked run this is false, section 6).  Under `OneLocker` (at most one task
ever asks) the lock's lemmas, taken over with `INSTANCE OSMutexRW_proofs`, apply: a
task is in one thread's hands, so only one thread asks for exclusion.  Hence
*RunsLockedAloneHolds* and *NoThreadForgottenInLock*: the scheduler is then a caller
for which the lock is right.

**Containers_proofs** holds the proofs of the two containers that tasks share.

*Reference table* (no further assumption). The invariant adds to TableTypeOK,
OnePerName and CountsAreExact what a thread inside UnRegister knows (VictimsOK): it
is the only one with that victim, nobody can delete it, and one that is about to
delete has it out of the table with no users but itself.  This gives
*DeletesAloneHolds*; *NoLostWakeupHolds* and, of each step, *LeavesByItselfHolds*
are added on top.

*Heap*. ArrayOK (the used places hold elements marked as inside) with
ExactlyTheMembers is inductive for all operations, Remove included (*TypeCorrect*,
*MembersHold*). *SanityCheckHolds* needs `Removable = {}`: its invariant, Order,
says that while an element rises or sinks only its own edges may be wrong, and that
its children are above its parent's value.  Under the same assumption the heap
implements `PriorityQueue` (*IsAPriorityQueueHolds*): each operation is a step of the
queue in its last round and a stutter in the others.  What ExtractMin takes is a least
element because the first place with a smaller one would have a parent that is smaller
too (RootIsLeast: a least counterexample in place of an induction along the path).

**SessionLifetime_proofs** (under `~KillsWhileCreating`). Three layers, each
inductive given the one before: UseInv (who uses a session: a request that uses one
finds it open and counted, a creator is alone with its session), HoldInv (who points
at a connection, with the joining connection between off and on), CountInv (the
server's list and counters).  From them *RequestsKeepTheirSessionHolds*, *RefsHold*,
*HoldersHold*, *HeldNeverGoesAwayHolds*, *PlayingHolds*, *TypeCorrect* (no counter
goes below zero), and two that no run checks: *ClosingIsListedHolds* (the assertion
in ~RTPSession that finds the session in the list) and *NearlyMaxHolds* (the limit
is exceeded by at most one session for each connection).

**RTSPRequests_proofs**. IInv needs no assumption: TypeOK; RefsOK (a reference
count is the number of halves that resolved the entry, and only the entry of the map
is resolved); HalvesOK, which says for each place in the tunnel's code what the two
halves know of each other; and TunnelIsFound.  This gives *TypeCorrect* and
*TunnelIsFoundHolds*.  On top, under `~SharesThread`, MutexOK says which session's
run holds each fReadMutex and that a request in hand always does:
*InputUndisturbedHolds*.  On top of both, under `~Relocks`, LockOK follows the
global lock from the asking module through `fWriteLock` to the run that has it:
*LockedWhenToldHolds*.

**ReliableUDP_proofs** (no further assumption).  A packet is written only while
fewer bytes are counted than the congestion window has, that window stays between
one and the client's window whatever it is grown, halved or set by, and both start
with the first PLAY (Opened): *WithinTheWindowHolds*, *TypeCorrect*.  The arithmetic
is in lemmas on MinOf, MaxOf and Grown.  For *BytesInListHolds* the sum of the sizes
is stated as the cardinality of a set with one member for each byte, by its stream,
place and offset, so that no induction over sequences is needed; lemmas say how it
changes when a packet is added at the end or its place is filled with the last one.
While PLAY clears the arrays, where the property says nothing, the invariant is that
the streams already passed are empty.

**ReflectorSessions_proofs**.  Two invariants.  OutputsOK needs no assumption: an
output is only at its viewer's session and in the bucket chosen for it (OnlyThere),
it is in exactly the streams that the viewer's place in its loop says (Placed), no
bucket is over its size.  That FindBucket finds one is a pigeonhole argument: more
buckets are looked at than there are viewers.  From it *TypeCorrect* and
*SameBucketHolds*.  ObjectsOK, under `Orderly`, says that the map's session is the
only one allocated, who is at it, and that a broadcaster that has not sent PLAY is
alone where it is (UnplayedOK), without which a count of one would not mean one
client.  From it *CountIsHoldersHolds* and *LastOneDeletesHolds*; and
*NobodyUsesDeletedHolds* from the two together.

**EventLoop_proofs**.  Layers, each inductive given those before it.  HoldsInv: who
holds which descriptor, that it is open and not among those to close.  IdsInv: which
contexts have an id, that the table and the cookies of the descriptors agree with
them, and that an event not yet resolved names the context that has its descriptor
(EventsOK).  SetsInv: the sets hold descriptors of contexts only, up to sMaxFDPos, and
what select() waits on is open.  SleepInv: a descriptor to close, or a change after
the copy, has its byte in the pipe or about to be written.  AskedOK: a descriptor
anywhere in the sets belongs to a context that asked.  WaitedOK: a resting context is
in the sets, or *its* event, by descriptor and id, is on the way.  HoldsInv, SetsInv
and SleepInv need no assumption: *TypeCorrect*, *WatchedAreOpenHolds*,
*SleepsSoundlyHolds*.  The others need `ReusesIds = FALSE`: *OwnEventHolds*,
*NobodyForgottenHolds*, *OneEventPerRequestHolds*.

Every safety property that a passing run checks is proved, SanityCheck and
IsAPriorityQueue only without Remove (the run checks them with one element that may be
removed).  Only model-checked is what is out of the prover's reach, liveness under
fairness, which needs ENABLED: WriterGetsIn, Delivered, DeadIsDeleted, KilledGoesAway,
IsRepairedOrExpires, ViewerGetsIn, ViewersGo, RequestsAreRead.

## 6. Where code and comments disagree, and other observations

Shown by a run:

- **Two writers** (`mutexrw_two_writers`, OSMutexRW.cpp:69).  LockWrite waits while
  there are readers and never looks for a writer.  The header says "only one".  It
  matters as soon as two tasks ask for the global lock at once; the theorems hold
  for one.
- **Remove breaks the heap** (`osheap_remove`, OSHeap.cpp:84).  Extract lets the
  last leaf sink but never rise.  After CancelTimeout a timer can fire after later
  ones.
- **A session killed while it is created** (`session_created`,
  RTSPSession.cpp:1747).  The comment says the session is locked down; the lock
  taken is not one that its Run looks at, and the creator has no reference yet.

Seen while modelling, and not shown by a run: a constant or the wording of a
property leaves the case out, so that the runs say what holds of the rest.

- A task that asks for the global lock during a locked run loses the request,
  because Entry clears the flag after the run (Task.cpp:125, RTSPSession.cpp:466):
  `Relockers` is empty in the run.
- Every PLAY is counted but only one is taken off (RTPSession.cpp:288, 138): the
  counter may be too large, and PlayingNotUndercounted states the direction that
  holds.
- After an error of accept() other than EAGAIN, EMFILE and ENFILE the listener does
  not ask again (TCPListenerSocket.cpp:107, 91): NobodyForgotten leaves it out once
  it is `deaf`.
- The id of a context wraps at 10000000 and the result of Register is ignored
  (EventContext.cpp:132, 123): `ReusesIds` is FALSE in the runs, and a hypothesis of
  the theorems on ids.
- The limit on connections is tested with ">" and before the session is counted
  (RTSPSession.cpp:1892; QTSS.h:628 calls it a maximum): NearlyMaxConnections says
  how far it is exceeded.
- A holder is counted off, and the connection signalled, in two steps
  (RTSPSessionInterface.cpp:156, 157).  In between the connection may find zero and
  delete itself (RTSPSession.cpp:1018), or a new request may give it a holder again
  and the signal end it all the same.
- fReadMutex is recursive (OSMutex.cpp:92-98).  A POST whose task runs on the thread
  that keeps the mutex for a request in hand gets it too and replaces the request's
  input, contrary to the comment of RTSPSession.cpp:384: with `SharesThread = TRUE`
  InputUndisturbed fails.  And fReadMutex is given up between ReadRequest and the
  Lock of line 385; a POST that comes then replaces a request just read.
- With `Relocks = TRUE` (a module asks for the global lock in a locked run)
  LockedWhenTold fails, for the reason of the first item.
- When the module has sent the end of the movie it asks not to be called again, and
  the session's task does not run again until the next PLAY (RTPSession.cpp:612): packets
  lost near the end are not sent again.  IsRepairedOrExpires speaks of sessions that
  have not ended.
- Every DESCRIBE, and a SETUP refused after it found its session, keeps a reference
  to the reflector's session for good (QTSSReflectorModule.cpp:1257): such a session
  is never deleted, and its path keeps its old SDP.  CountIsHolders counts them.
- A broadcaster that closes after SETUP and before PLAY gives back a reference it
  never took (QTSSReflectorModule.cpp:2121), and the session can be deleted under a
  viewer: with `Orderly = FALSE` NobodyUsesDeleted fails.  The same constant leaves
  out that an ANNOUNCE which kills uses the session after its viewers were told to go,
  without the map's mutex (QTSSReflectorModule.cpp:1986).
- A push's SETUP builds the array of streams of a session that is found
  (ReflectorSession.cpp:164) while viewers may walk it; and when it fails later,
  fBroadcasterSession keeps the client session that goes (QTSSReflectorModule.cpp:1516).
  Both are left out of the model: the SETUPs of a broadcaster are good, and the array
  is there.

## 7. What is not modelled

In the modelled components:

- `TaskScheduler`: RemoveThreads (shutdown), UnlockGlobalLock, the tracing fields.
- `SessionLifetime`: the second test of OverMaxConnections, of the number of RTSP
  connections, and an unlimited maximum (-1); both only change when a session may be
  created.  Refused requests.
- `EventLoop`: running out of descriptors, which ends the process
  (TCPListenerSocket.cpp:85), and the event loop of Windows (`win32ev.cpp`).
- `RTSPRequests`: parsing, authentication, answers that are errors, and interleaved
  media (InterleavedWrite, channel numbers): their mutexes are those of
  `SessionLifetime` and `ReliableUDP`, their content is text.
- `ReliableUDP`: thinning and overbuffering.  Whether a packet is early or late is
  left open, so the quality level is not part of the state; it depends on clocks.
- `ReflectorSessions`: the queues of packets and the bookmarks in them, the sockets,
  RTCP, and the checks of what a broadcaster may announce.

Components without a module, with the reason in PROJECT.json; their hazards that are
worth a model first are listed there at their lines:

- Timers: when a timer fires is arithmetic of clocks.  That one may fire at any time
  is part of every module above.
- UDP sockets, the reflector's queues, the file cache, the statistics, shutdown:
  open, section 2.
- Relay and splitter: configuration and clients of the reflector.  Access control,
  logs, admin and web modules: one call without shared state.
- RTSP client library and playlist broadcaster: programs of their own, sequential.
- Parsers, formats, text utilities, movie atoms and hint tracks: pure functions over
  bytes, within the reach of unit tests.  They and the tools are the larger part of
  the repository's lines; the share of lines that this project maps is small for
  that reason, and larger in the directories of the concurrent core.
- Dictionaries and preferences: lookup and conversion.
- The operating system layer: mutexes and atomic operations are the atomicity of the
  steps; the kernel's sockets are the sets of `EventLoop`.
- Memory exhaustion, wrap of 32-bit reference counts, and the memory model of the
  processor: shared variables are read and written in one step in the order of the
  code.

## 8. Running the checks

In this directory, with TLC and TLAPS:

    tlc -workers 2 -config EventLoop.cfg EventLoop
    tlapm SessionLifetime_proofs.tla

The module and configuration of each run are in PROJECT.json.  `MCOSHeap` adds only
the symmetry of its model values.  The longest run is `rtsp_requests`, about two
minutes.  The proof modules have 9,983 obligations in all; all are proved.
