------------------------------- MODULE EventLoop -------------------------------
(* How the server waits for its sockets: ev.cpp, EventContext.cpp and       *)
(* TCPListenerSocket.cpp.  One event thread sits in select().  Other threads *)
(* change the sets it waits for under a mutex and then write to a pipe that  *)
(* is always in those sets.  A descriptor that had an event leaves the sets  *)
(* until its context asks again; a descriptor that is given up is closed by  *)
(* the event thread, between two calls of select().  The event names its     *)
(* context by an id, which is looked up in a table (see OSRefTable).         *)
(*                                                                           *)
(* A connection's task is reduced to what it does with its socket: read what *)
(* there is and ask for more, find its output blocked and ask for EV_WR, or   *)
(* go away.  The descriptors are 0 .. NumFDs - 1: the pipe, the listening     *)
(* socket, then those of the connections.  Running out of them ends the       *)
(* process (TCPListenerSocket.cpp:85) and is left out.                        *)
(*                                                                           *)
(* Slips for the mutants: LowerMax_OneTooLow lowers sMaxFDPos below a         *)
(* descriptor in the sets, TakeEvent_KeepsMask does not disarm,               *)
(* Signal_IfResting loses the event of a running task, UnRegister_NoWait does *)
(* not wait for the event thread and CleanupRemoves_Closes closes the         *)
(* descriptor at once.                                                        *)
EXTENDS Integers, FiniteSets, FiniteSetsExt

CONSTANTS
  Conns,         \* connections: sockets that carry a task
  Restless,      \* those whose task other events run too
  Senders,       \* those whose output may be flow-controlled
  Listener,      \* the listening socket
  NumFDs,        \* number of descriptors
  WrapId,        \* 10000000 in the code
  ReusesIds,     \* may an id come round again while it is in use?
  AcceptErrors,  \* may accept() fail with another error than EAGAIN?
  None           \* no context

Contexts == Conns \union {Listener}
FDs == 0 .. NumFDs - 1
kPipe == 0
kListenFD == 1
ConnFDs == FDs \ {kPipe, kListenFD}
kInvalidFileDesc == -1
Ids == 1 .. WrapId
NoId == 0
Actors == {"event", "task"}    \* the threads that run the listener

ASSUME EventLoopAssumption ==
  /\ IsFiniteSet(Conns)
  /\ Restless \subseteq Conns /\ Senders \subseteq Conns
  /\ Listener \notin Conns
  /\ None \notin Contexts
  /\ NumFDs \in Nat /\ NumFDs > 2
  /\ WrapId \in Nat /\ WrapId > 2
  /\ ReusesIds \in BOOLEAN
  /\ AcceptErrors \in BOOLEAN

VARIABLES
  sReadSet, sWriteSet,      \* what to wait for
  sReturnedReadSet, sReturnedWriteSet,   \* what select() returned, unscanned
  selecting,                \* the kernel's copy of the sets while it waits
  sCookieArray,             \* the id to report for a descriptor
  sFDsToCloseArray,         \* descriptors given up and not closed yet
  sMaxFDPos, sCurrentFDPos, sInReadSet,
  fdsLeft,                  \* sNumFDsBackFromSelect - sNumFDsProcessed
  pipe,                     \* is there a byte in the pipe?
  sUniqueID, fRefTable,     \* the last id, the context registered under an id
  fFileDesc, fUniqueID,     \* of every context
  event,                    \* the event the event thread works on
  resolved,                 \* the context it has a reference to
  pc,                       \* of the event thread
  listener, newConn,        \* ProcessEvent of the listener, by thread
  listenerTimer,            \* is the listener waiting for its idle timer?
  task, signalled,          \* a connection's task, those with a kReadEvent
  open, readable, writable, \* the descriptors, in the kernel
  backlog,                  \* clients in the listen queue
  asked,                    \* history: contexts that asked since their event
  deaf                      \* history: has accept() failed?

fdsets == <<sReadSet, sWriteSet, sMaxFDPos, sCookieArray>>
returned == <<sReturnedReadSet, sReturnedWriteSet>>
scan == <<sCurrentFDPos, sInReadSet, fdsLeft>>
contexts == <<sUniqueID, fRefTable, fFileDesc, fUniqueID>>
eventThread == <<event, resolved, pc>>
listening == <<listener, newConn, listenerTimer>>
tasks == <<task, signalled>>
kernel == <<open, readable, writable, backlog>>
history == <<asked, deaf>>
vars == <<fdsets, returned, selecting, sFDsToCloseArray, scan, pipe, contexts,
          eventThread, listening, tasks, kernel, history>>

Empty == [read |-> {}, write |-> {}]

(* The listener has asked for its first event (QTSServer::StartTasks).       *)
Init ==
  /\ sReadSet = {kPipe, kListenFD} /\ sWriteSet = {}
  /\ sReturnedReadSet = {} /\ sReturnedWriteSet = {}
  /\ selecting = Empty
  /\ sCookieArray = [fd \in FDs |-> IF fd = kListenFD THEN 2 ELSE NoId]
  /\ sFDsToCloseArray = {}
  /\ sMaxFDPos = kListenFD /\ sCurrentFDPos = 0 /\ sInReadSet = TRUE
  /\ fdsLeft = 0
  /\ pipe = TRUE
  /\ sUniqueID = 2
  /\ fRefTable = [id \in Ids |-> IF id = 2 THEN Listener ELSE None]
  /\ fFileDesc = [c \in Contexts |->
                    IF c = Listener THEN kListenFD ELSE kInvalidFileDesc]
  /\ fUniqueID = [c \in Contexts |-> IF c = Listener THEN 2 ELSE NoId]
  /\ event = [fd |-> kPipe, id |-> NoId] /\ resolved = None
  /\ pc = "scan"
  /\ listener = [a \in Actors |-> "idle"]
  /\ newConn = [a \in Actors |-> None]
  /\ listenerTimer = FALSE
  /\ task = [c \in Conns |-> "none"] /\ signalled = {}
  /\ open = {kPipe, kListenFD} /\ readable = {} /\ writable = {}
  /\ backlog = 0
  /\ asked = {Listener} /\ deaf = FALSE

-----------------------------------------------------------------------------
(* Changing the sets from any thread.                                        *)

(* select_modwatch, up to the end of its critical section.                   *)
ModWatch(c, id, mask) ==
  LET fd == fFileDesc[c] IN
  /\ sReadSet' = IF mask = "read" THEN sReadSet \union {fd} ELSE sReadSet \ {fd}
  /\ sWriteSet' = IF mask = "write" THEN sWriteSet \union {fd} ELSE sWriteSet \ {fd}
  /\ sMaxFDPos' = IF fd > sMaxFDPos THEN fd ELSE sMaxFDPos
  /\ sCookieArray' = [sCookieArray EXCEPT ![fd] = id]
  /\ asked' = asked \union {c}
  /\ UNCHANGED deaf

(* The write to the pipe that ends select_modwatch and select_removeevent.   *)
WakeSelect == pipe' = TRUE

NextId == IF sUniqueID = WrapId THEN 1 ELSE sUniqueID + 1

(* The first RequestEvent of a context: a new id, the table, the sets.  The  *)
(* result of OSRefTable::Register is ignored.                                *)
FirstRequestEvent(c) ==
  /\ sUniqueID' = NextId
  /\ fUniqueID' = [fUniqueID EXCEPT ![c] = NextId]
  /\ fRefTable' = IF fRefTable[NextId] = None
                  THEN [fRefTable EXCEPT ![NextId] = c]
                  ELSE fRefTable
  /\ ModWatch(c, NextId, "read")
  /\ UNCHANGED fFileDesc

(* select_removeevent: no set and no cookie mentions the descriptor any more, *)
ClearFD(fd) ==
  /\ sReadSet' = sReadSet \ {fd} /\ sWriteSet' = sWriteSet \ {fd}
  /\ sReturnedReadSet' = sReturnedReadSet \ {fd}
  /\ sReturnedWriteSet' = sReturnedWriteSet \ {fd}
  /\ sCookieArray' = [sCookieArray EXCEPT ![fd] = NoId]

(* ... sMaxFDPos goes down to the next descriptor in the sets,                *)
LowerMax_OneTooLow(fd, sets) ==
  IF fd = sMaxFDPos THEN Max({0} \union {f \in sets : f + 1 < fd}) ELSE sMaxFDPos
LowerMax(fd, sets) ==
  IF fd = sMaxFDPos THEN Max({0} \union {f \in sets : f < fd}) ELSE sMaxFDPos

(* ... and the event thread is left to close it.                              *)
RemoveEvent(fd) ==
  /\ ClearFD(fd)
  /\ sMaxFDPos' = LowerMax(fd, (sReadSet \union sWriteSet) \ {fd})
  /\ sFDsToCloseArray' = sFDsToCloseArray \union {fd}

-----------------------------------------------------------------------------
(* The event thread: select_waitevent.                                        *)

(* The loops that look for the next descriptor in a returned set: the current *)
(* position is looked at even when it is past sMaxFDPos.                       *)
Ahead(returnedSet) ==
  {fd \in returnedSet : fd = sCurrentFDPos
                          \/ (fd > sCurrentFDPos /\ fd <= sMaxFDPos)}

(* constructeventreq: no more events for the descriptor until modwatch.       *)
TakeEvent_KeepsMask(fd) ==
  /\ event' = [fd |-> fd, id |-> sCookieArray[fd]]
  /\ sCurrentFDPos' = fd + 1
  /\ fdsLeft' = fdsLeft - 1
  /\ asked' = {c \in asked : fUniqueID[c] # sCookieArray[fd]}
  /\ UNCHANGED deaf
  /\ pc' = "deliver"
  /\ UNCHANGED <<sReadSet, sWriteSet>>
TakeEvent(fd) ==
  /\ event' = [fd |-> fd, id |-> sCookieArray[fd]]
  /\ sCurrentFDPos' = fd + 1
  /\ fdsLeft' = fdsLeft - 1
  /\ sReadSet' = sReadSet \ {fd} /\ sWriteSet' = sWriteSet \ {fd}
  /\ asked' = {c \in asked : fUniqueID[c] # sCookieArray[fd]}
  /\ UNCHANGED deaf
  /\ pc' = "deliver"

ScanReads ==
  /\ pc = "scan" /\ fdsLeft > 0 /\ sInReadSet
  /\ IF Ahead(sReturnedReadSet) # {}
     THEN LET fd == Min(Ahead(sReturnedReadSet)) IN
          /\ TakeEvent(fd)
          /\ sReturnedReadSet' = sReturnedReadSet \ {fd}
          /\ UNCHANGED sInReadSet
     ELSE /\ sInReadSet' = FALSE /\ sCurrentFDPos' = 0
          /\ UNCHANGED <<sReturnedReadSet, fdsLeft, event, pc, sReadSet,
                         sWriteSet, history>>
  /\ UNCHANGED <<sReturnedWriteSet, selecting, sCookieArray, sMaxFDPos,
                 sFDsToCloseArray, pipe, contexts, resolved, listening, tasks,
                 kernel>>

ScanWrites ==
  /\ pc = "scan" /\ fdsLeft > 0 /\ ~sInReadSet
  /\ IF Ahead(sReturnedWriteSet) # {}
     THEN LET fd == Min(Ahead(sReturnedWriteSet)) IN
          /\ TakeEvent(fd)
          /\ sReturnedWriteSet' = sReturnedWriteSet \ {fd}
     ELSE /\ fdsLeft' = 0
          /\ UNCHANGED <<sReturnedWriteSet, sCurrentFDPos, event, pc, sReadSet,
                         sWriteSet, history>>
  /\ UNCHANGED <<sReturnedReadSet, sInReadSet, selecting, sCookieArray, sMaxFDPos,
                 sFDsToCloseArray, pipe, contexts, resolved, listening, tasks,
                 kernel>>

(* Every returned descriptor has been seen: start again with copies of the    *)
(* sets.                                                                      *)
CopySets ==
  /\ pc = "scan" /\ fdsLeft = 0
  /\ sCurrentFDPos' = 0 /\ sInReadSet' = TRUE
  /\ sReturnedReadSet' = sReadSet /\ sReturnedWriteSet' = sWriteSet
  /\ pc' = "select"
  /\ UNCHANGED <<fdsets, fdsLeft, selecting, sFDsToCloseArray, pipe, contexts,
                 event, resolved, listening, tasks, kernel, history>>

(* select(sMaxFDPos + 1, ...): the sets may have changed since the copy.      *)
CallSelect ==
  /\ pc = "select"
  /\ selecting' = [read |-> {fd \in sReturnedReadSet : fd <= sMaxFDPos},
                   write |-> {fd \in sReturnedWriteSet : fd <= sMaxFDPos}]
  /\ pc' = "blocked"
  /\ UNCHANGED <<fdsets, returned, sFDsToCloseArray, scan, pipe, contexts, event,
                 resolved, listening, tasks, kernel, history>>

Readable == {fd \in open : \/ fd = kPipe /\ pipe
                           \/ fd = kListenFD /\ backlog > 0
                           \/ fd \in readable}
Ready == [read |-> selecting.read \intersect Readable,
          write |-> selecting.write \intersect writable]

SelectReturns ==
  /\ pc = "blocked" /\ Ready # Empty
  /\ sReturnedReadSet' = Ready.read /\ sReturnedWriteSet' = Ready.write
  /\ fdsLeft' = Cardinality(Ready.read) + Cardinality(Ready.write)
  /\ selecting' = Empty
  /\ pc' = IF kPipe \in Ready.read THEN "drain" ELSE "scan"
  /\ UNCHANGED <<fdsets, sFDsToCloseArray, sCurrentFDPos, sInReadSet, pipe,
                 contexts, event, resolved, listening, tasks, kernel, history>>

(* After 15 seconds.                                                          *)
SelectTimesOut ==
  /\ pc = "blocked" /\ Ready = Empty
  /\ sReturnedReadSet' = {} /\ sReturnedWriteSet' = {}
  /\ selecting' = Empty
  /\ pc' = "scan"
  /\ UNCHANGED <<fdsets, sFDsToCloseArray, scan, pipe, contexts, event, resolved,
                 listening, tasks, kernel, history>>

(* selecthasdata: empty the pipe, then close what has been given up.          *)
DrainPipe ==
  /\ pc = "drain"
  /\ pipe' = FALSE
  /\ sReturnedReadSet' = sReturnedReadSet \ {kPipe}
  /\ fdsLeft' = fdsLeft - 1
  /\ pc' = "close"
  /\ UNCHANGED <<fdsets, sReturnedWriteSet, selecting, sFDsToCloseArray,
                 sCurrentFDPos, sInReadSet, contexts, event, resolved, listening,
                 tasks, kernel, history>>

CloseRemoved ==
  /\ pc = "close"
  /\ open' = open \ sFDsToCloseArray
  /\ readable' = readable \ sFDsToCloseArray
  /\ writable' = writable \ sFDsToCloseArray
  /\ sFDsToCloseArray' = {}
  /\ pc' = "scan"
  /\ UNCHANGED <<fdsets, returned, selecting, scan, pipe, contexts, event,
                 resolved, listening, tasks, backlog, history>>

-----------------------------------------------------------------------------
(* The event thread: EventThread::Entry.                                      *)

Resolve ==
  /\ pc = "deliver"
  /\ LET c == IF event.id = NoId THEN None ELSE fRefTable[event.id] IN
     /\ resolved' = c
     /\ pc' = IF c = None THEN "scan" ELSE "process"
  /\ UNCHANGED <<fdsets, returned, selecting, sFDsToCloseArray, scan, pipe,
                 contexts, event, listening, tasks, kernel, history>>

(* EventContext::ProcessEvent.                                                *)
Signal_IfResting(c) ==
  /\ signalled' = IF task[c] = "rest" THEN signalled \union {c} ELSE signalled
  /\ UNCHANGED fdsets
Signal(c) ==
  /\ signalled' = signalled \union {c}
  /\ UNCHANGED fdsets

ProcessEvent(c) ==
  /\ pc = "process" /\ resolved = c
  /\ Signal(c)
  /\ pc' = "release"
  /\ UNCHANGED <<returned, selecting, sFDsToCloseArray, scan, pipe, contexts,
                 event, resolved, listening, task, kernel, history>>

(* TCPListenerSocket::ProcessEvent, see below.                                *)
ProcessListener ==
  /\ pc = "process" /\ resolved = Listener
  /\ listener' = [listener EXCEPT !["event"] = "accept"]
  /\ pc' = "listening"
  /\ UNCHANGED <<fdsets, returned, selecting, sFDsToCloseArray, scan, pipe,
                 contexts, event, resolved, newConn, listenerTimer, tasks, kernel,
                 history>>

ListenerReturned ==
  /\ pc = "listening" /\ listener["event"] = "idle"
  /\ pc' = "release"
  /\ UNCHANGED <<fdsets, returned, selecting, sFDsToCloseArray, scan, pipe,
                 contexts, event, resolved, listening, tasks, kernel, history>>

Release ==
  /\ pc = "release"
  /\ resolved' = None
  /\ pc' = "scan"
  /\ UNCHANGED <<fdsets, returned, selecting, sFDsToCloseArray, scan, pipe,
                 contexts, event, listening, tasks, kernel, history>>

-----------------------------------------------------------------------------
(* TCPListenerSocket::ProcessEvent, on the event thread or, after its idle    *)
(* timer, on a task thread.                                                   *)

FreeFDs == FDs \ open
FreeConns == {c \in Conns : task[c] = "none"}

Becomes(a, step) == listener' = [listener EXCEPT ![a] = step]

(* accept() takes the lowest free descriptor; GetSessionTask makes the task.  *)
Accept(a) ==
  /\ listener[a] = "accept" /\ backlog > 0
  /\ FreeFDs # {}
  /\ \E c \in FreeConns :
       LET fd == Min(FreeFDs) IN
       /\ open' = open \union {fd} /\ writable' = writable \union {fd}
       /\ fFileDesc' = [fFileDesc EXCEPT ![c] = fd]
       /\ task' = [task EXCEPT ![c] = "new"]
       /\ newConn' = [newConn EXCEPT ![a] = c]
  /\ backlog' = backlog - 1
  /\ Becomes(a, "watch")
  /\ UNCHANGED <<fdsets, returned, selecting, sFDsToCloseArray, scan, pipe,
                 sUniqueID, fRefTable, fUniqueID, eventThread, listenerTimer,
                 signalled, readable, history>>

(* Any error but EAGAIN, EMFILE and ENFILE: a session is made and killed.      *)
AcceptFails(a) ==
  /\ AcceptErrors
  /\ listener[a] = "accept" /\ backlog > 0
  /\ backlog' = backlog - 1
  /\ Becomes(a, "idle")
  /\ deaf' = TRUE
  /\ UNCHANGED <<fdsets, returned, selecting, sFDsToCloseArray, scan, pipe,
                 contexts, eventThread, newConn, listenerTimer, tasks, open,
                 readable, writable, asked>>

(* EAGAIN.                                                                    *)
NothingToAccept(a) ==
  /\ listener[a] = "accept" /\ backlog = 0
  /\ Becomes(a, "rearm")
  /\ UNCHANGED <<fdsets, returned, selecting, sFDsToCloseArray, scan, pipe,
                 contexts, eventThread, newConn, listenerTimer, tasks, kernel,
                 history>>

WatchNew(a) ==
  /\ listener[a] = "watch"
  /\ FirstRequestEvent(newConn[a])
  /\ task' = [task EXCEPT ![newConn[a]] = "rest"]
  /\ newConn' = [newConn EXCEPT ![a] = None]
  /\ Becomes(a, "wakeNew")
  /\ UNCHANGED <<returned, selecting, sFDsToCloseArray, scan, pipe, eventThread,
                 listenerTimer, signalled, kernel>>

(* The rest of RequestEvent; then, above the limit of connections, the        *)
(* listener sleeps on its idle timer (SlowDown), otherwise it asks again.     *)
WakeForNew(a) ==
  /\ listener[a] = "wakeNew"
  /\ WakeSelect
  /\ \/ Becomes(a, "rearm") /\ UNCHANGED listenerTimer
     \/ Becomes(a, "idle") /\ listenerTimer' = TRUE
  /\ UNCHANGED <<fdsets, returned, selecting, sFDsToCloseArray, scan, contexts,
                 eventThread, newConn, tasks, kernel, history>>

Rearm(a) ==
  /\ listener[a] = "rearm"
  /\ ModWatch(Listener, fUniqueID[Listener], "read")
  /\ Becomes(a, "wakeSelf")
  /\ UNCHANGED <<returned, selecting, sFDsToCloseArray, scan, pipe, contexts,
                 eventThread, newConn, listenerTimer, tasks, kernel>>

WakeForSelf(a) ==
  /\ listener[a] = "wakeSelf"
  /\ WakeSelect
  /\ Becomes(a, "idle")
  /\ UNCHANGED <<fdsets, returned, selecting, sFDsToCloseArray, scan, contexts,
                 eventThread, newConn, listenerTimer, tasks, kernel, history>>

(* IdleTaskThread signals, a task thread calls TCPListenerSocket::Run.        *)
ListenerTimer ==
  /\ listenerTimer /\ listener["task"] = "idle"
  /\ listenerTimer' = FALSE
  /\ Becomes("task", "accept")
  /\ UNCHANGED <<fdsets, returned, selecting, sFDsToCloseArray, scan, pipe,
                 contexts, eventThread, newConn, tasks, kernel, history>>

-----------------------------------------------------------------------------
(* A connection's task.                                                       *)

Moves(c, from, to) ==
  /\ task[c] = from
  /\ task' = [task EXCEPT ![c] = to]

Run(c) ==
  /\ c \in signalled
  /\ Moves(c, "rest", "run")
  /\ signalled' = signalled \ {c}
  /\ UNCHANGED <<fdsets, returned, selecting, sFDsToCloseArray, scan, pipe,
                 contexts, eventThread, listening, kernel, history>>

(* Another event runs it (kUpdateEvent, kTimeoutEvent, the timer of RTCPTask).  *)
RunAnyway(c) ==
  /\ c \in Restless \ signalled
  /\ Moves(c, "rest", "run")
  /\ UNCHANGED <<fdsets, returned, selecting, sFDsToCloseArray, scan, pipe,
                 contexts, eventThread, listening, signalled, kernel, history>>

(* It reads until EAGAIN, or its client does not take what it sends.          *)
ReadsAll(c) ==
  /\ Moves(c, "run", "askRead")
  /\ readable' = readable \ {fFileDesc[c]}
  /\ UNCHANGED <<fdsets, returned, selecting, sFDsToCloseArray, scan, pipe,
                 contexts, eventThread, listening, signalled, open, writable,
                 backlog, history>>

FlowControlled(c) ==
  /\ c \in Senders
  /\ Moves(c, "run", "askWrite")
  /\ writable' = writable \ {fFileDesc[c]}
  /\ UNCHANGED <<fdsets, returned, selecting, sFDsToCloseArray, scan, pipe,
                 contexts, eventThread, listening, signalled, open, readable,
                 backlog, history>>

RequestEvent(c) ==
  /\ \/ Moves(c, "askRead", "wake") /\ ModWatch(c, fUniqueID[c], "read")
     \/ Moves(c, "askWrite", "wake") /\ ModWatch(c, fUniqueID[c], "write")
  /\ UNCHANGED <<returned, selecting, sFDsToCloseArray, scan, pipe, contexts,
                 eventThread, listening, signalled, kernel>>

WakeForTask(c) ==
  /\ Moves(c, "wake", "rest")
  /\ WakeSelect
  /\ UNCHANGED <<fdsets, returned, selecting, sFDsToCloseArray, scan, contexts,
                 eventThread, listening, signalled, kernel, history>>

(* The client left or the connection timed out: the task deletes itself.       *)
Dies(c) ==
  /\ Moves(c, "run", "dying")
  /\ UNCHANGED <<fdsets, returned, selecting, sFDsToCloseArray, scan, pipe,
                 contexts, eventThread, listening, signalled, kernel, history>>

(* EventContext::Cleanup: UnRegister waits for the event thread's reference,  *)
UnRegister_NoWait(c) ==
  /\ Moves(c, "dying", "remove")
  /\ fRefTable' = [id \in Ids |-> IF fRefTable[id] = c THEN None ELSE fRefTable[id]]
UnRegister(c) ==
  /\ Moves(c, "dying", "remove")
  /\ resolved # c
  /\ fRefTable' = [id \in Ids |-> IF fRefTable[id] = c THEN None ELSE fRefTable[id]]

CleanupStarts(c) ==
  /\ UnRegister(c)
  /\ UNCHANGED <<fdsets, returned, selecting, sFDsToCloseArray, scan, pipe,
                 sUniqueID, fFileDesc, fUniqueID, eventThread, listening,
                 signalled, kernel, history>>

(* ... then the descriptor leaves the sets,                                   *)
Forget(c) ==
  /\ fFileDesc' = [fFileDesc EXCEPT ![c] = kInvalidFileDesc]
  /\ fUniqueID' = [fUniqueID EXCEPT ![c] = NoId]
  /\ asked' = asked \ {c}
  /\ UNCHANGED deaf

CleanupRemoves_Closes(c) ==
  LET fd == fFileDesc[c] IN
  /\ Moves(c, "remove", "wakeGone")
  /\ Forget(c)
  /\ ClearFD(fd)
  /\ sMaxFDPos' = LowerMax(fd, (sReadSet \union sWriteSet) \ {fd})
  /\ open' = open \ {fd} /\ readable' = readable \ {fd} /\ writable' = writable \ {fd}
  /\ UNCHANGED <<selecting, scan, pipe, sUniqueID, fRefTable, eventThread, backlog,
                 listening, signalled, sFDsToCloseArray>>
CleanupRemoves(c) ==
  /\ Moves(c, "remove", "wakeGone")
  /\ Forget(c)
  /\ RemoveEvent(fFileDesc[c])
  /\ UNCHANGED <<selecting, scan, pipe, sUniqueID, fRefTable, eventThread,
                 listening, signalled, kernel>>

(* ... and the event thread is woken to close it.                             *)
CleanupEnds(c) ==
  /\ Moves(c, "wakeGone", "none")
  /\ WakeSelect
  /\ signalled' = signalled \ {c}
  /\ UNCHANGED <<fdsets, returned, selecting, sFDsToCloseArray, scan, contexts,
                 eventThread, listening, kernel, history>>

-----------------------------------------------------------------------------
(* Clients.  At most one waits in the listen queue, and only while there is   *)
(* an object for it and, unless ReusesIds, an id that is not in use: no        *)
(* context has it, and no event of it has yet to be resolved.                  *)

InUse(id) ==
  \/ \E c \in Contexts : fUniqueID[c] = id
  \/ pc = "deliver" /\ event.id = id

Connect ==
  /\ backlog = 0
  /\ \A a \in Actors : newConn[a] = None
  /\ FreeConns # {} /\ FreeFDs # {}
  /\ ReusesIds \/ ~InUse(NextId)
  /\ backlog' = 1
  /\ UNCHANGED <<fdsets, returned, selecting, sFDsToCloseArray, scan, pipe,
                 contexts, eventThread, listening, tasks, open, readable,
                 writable, history>>

DataArrives(fd) ==
  /\ fd \in open \ readable
  /\ readable' = readable \union {fd}
  /\ UNCHANGED <<fdsets, returned, selecting, sFDsToCloseArray, scan, pipe,
                 contexts, eventThread, listening, tasks, open, writable,
                 backlog, history>>

OutputDrains(fd) ==
  /\ fd \in open \ writable
  /\ writable' = writable \union {fd}
  /\ UNCHANGED <<fdsets, returned, selecting, sFDsToCloseArray, scan, pipe,
                 contexts, eventThread, listening, tasks, open, readable,
                 backlog, history>>

-----------------------------------------------------------------------------
Event ==
  \/ ScanReads \/ ScanWrites \/ CopySets \/ CallSelect
  \/ SelectReturns \/ DrainPipe \/ CloseRemoved
  \/ Resolve \/ (\E c \in Conns : ProcessEvent(c))
  \/ ProcessListener \/ ListenerReturned \/ Release

Listens(a) ==
  \/ Accept(a) \/ AcceptFails(a) \/ NothingToAccept(a)
  \/ WatchNew(a) \/ WakeForNew(a) \/ Rearm(a) \/ WakeForSelf(a)

Runs(c) ==
  \/ Run(c) \/ ReadsAll(c) \/ FlowControlled(c) \/ RequestEvent(c)
  \/ WakeForTask(c) \/ CleanupStarts(c) \/ CleanupRemoves(c) \/ CleanupEnds(c)

Next ==
  \/ Event \/ SelectTimesOut
  \/ ListenerTimer \/ \E a \in Actors : Listens(a)
  \/ \E c \in Conns : Runs(c) \/ RunAnyway(c) \/ Dies(c)
  \/ Connect
  \/ \E fd \in ConnFDs : DataArrives(fd) \/ OutputDrains(fd)

Spec == Init /\ [][Next]_vars

-----------------------------------------------------------------------------
TypeOK ==
  /\ sReadSet \subseteq FDs /\ sWriteSet \subseteq ConnFDs
  /\ sReturnedReadSet \subseteq FDs /\ sReturnedWriteSet \subseteq ConnFDs
  /\ selecting \in [read : SUBSET FDs, write : SUBSET ConnFDs]
  /\ sCookieArray \in [FDs -> Ids \union {NoId}]
  /\ sFDsToCloseArray \subseteq ConnFDs
  /\ sMaxFDPos \in FDs /\ sCurrentFDPos \in 0 .. NumFDs /\ sInReadSet \in BOOLEAN
  /\ fdsLeft \in 0 .. 2 * NumFDs
  /\ pipe \in BOOLEAN
  /\ sUniqueID \in Ids /\ fRefTable \in [Ids -> Contexts \union {None}]
  /\ fFileDesc \in [Contexts -> FDs \union {kInvalidFileDesc}]
  /\ fUniqueID \in [Contexts -> Ids \union {NoId}]
  /\ event \in [fd : FDs, id : Ids \union {NoId}]
  /\ resolved \in Contexts \union {None}
  /\ pc \in {"scan", "select", "blocked", "drain", "close", "deliver", "process",
             "listening", "release"}
  /\ listener \in [Actors -> {"idle", "accept", "watch", "wakeNew", "rearm",
                              "wakeSelf"}]
  /\ newConn \in [Actors -> Conns \union {None}]
  /\ listenerTimer \in BOOLEAN
  /\ task \in [Conns -> {"none", "new", "rest", "run", "askRead", "askWrite",
                         "wake", "dying", "remove", "wakeGone"}]
  /\ signalled \subseteq Conns
  /\ open \subseteq FDs /\ readable \subseteq ConnFDs /\ writable \subseteq ConnFDs
  /\ backlog \in 0 .. 1
  /\ asked \subseteq Contexts
  /\ deaf \in BOOLEAN

(* select() is never handed a descriptor that has been closed, perhaps to be  *)
(* opened again for somebody else: what select_removeevent clears at once,    *)
(* selecthasdata closes later.                                                *)
WatchedAreOpen ==
  sReadSet \union sWriteSet \union selecting.read \union selecting.write
    \subseteq open

(* The context an event is delivered to owns the descriptor that had it, and   *)
(* keeps it until ProcessEvent has returned.                                   *)
OwnEvent == resolved # None => fFileDesc[resolved] = event.fd

(* A connection that rests is waited for, or an event of it is on its way      *)
(* (EventContext::RequestEvent, constructeventreq); so is the listener, unless *)
(* a thread is in its ProcessEvent or it sleeps on its timer.  An error of     *)
(* accept() leaves it deaf for ever (TCPListenerSocket.cpp:107).               *)
WaitedFor(c) ==
  \/ fFileDesc[c] \in sReadSet \union sWriteSet
  \/ pc \in {"deliver", "process"} /\ event.fd = fFileDesc[c]
NobodyForgotten ==
  /\ \A c \in Conns :
       task[c] = "rest" /\ c \notin signalled => WaitedFor(c)
  /\ \/ WaitedFor(Listener)
     \/ \E a \in Actors : listener[a] # "idle"
     \/ listenerTimer \/ deaf

(* When the event thread sleeps on outdated sets, or on descriptors to close,  *)
(* there is a byte in the pipe or a thread about to write one.                 *)
AboutToWake ==
  \/ \E c \in Conns : task[c] \in {"wake", "wakeGone"}
  \/ \E a \in Actors : listener[a] \in {"wakeNew", "wakeSelf"}
SleepsSoundly ==
  pc = "blocked" =>
    \/ pipe /\ kPipe \in selecting.read
    \/ AboutToWake
    \/ /\ sReadSet \subseteq selecting.read
       /\ sWriteSet \subseteq selecting.write
       /\ sFDsToCloseArray = {}

(* "don't want events on this fd until modwatch is called" (ev.cpp:175): no     *)
(* context gets an event it has not asked for since the last.                   *)
TakesEventOf(c) ==
  pc = "scan" /\ pc' = "deliver" /\ event'.id # NoId /\ fUniqueID[c] = event'.id
OneEventPerRequest ==
  [][\A c \in Contexts : TakesEventOf(c) => c \in asked]_vars
=============================================================================
