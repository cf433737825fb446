---------------------------- MODULE TaskScheduler ----------------------------
(***************************************************************************)
(* CommonUtilitiesLib/Task.cpp: the cooperative scheduler on which the     *)
(* whole server runs.  A Task is run by one of a few task threads whenever *)
(* somebody signals it or its timer expires.  The word fEvents holds the   *)
(* events posted to a task and the bit kAlive, which stands for "some      *)
(* queue, timer heap or thread has this task": the signaller that sets it  *)
(* puts the task on a queue, and the thread that finds nothing else in the *)
(* word clears it.                                                         *)
(*                                                                         *)
(* One step is one access to state that several threads share.  The global *)
(* lock taken around Run() is the module OSMutexRW.  Time is abstract: a   *)
(* task in a thread's heap becomes due at any moment, and due tasks leave  *)
(* the heap in the order in which they became due.                         *)
(*                                                                         *)
(* A definition named <operation>_<slip> is that operation with a slip,    *)
(* kept to show that a property would notice it.                           *)
(***************************************************************************)
EXTENDS Integers, Sequences, FiniteSets

CONSTANTS
  Tasks,        (* the Task objects                                        *)
  NumThreads,   (* sNumTaskThreads                                         *)
  Callers,      (* threads outside the pool that signal: the event thread, *)
                (* the idle and timeout threads                            *)
  Events,       (* the events a task may be sent                           *)
  Lockers,      (* tasks whose Run() may return CallLocked()               *)
  Relockers,    (* those that may do so again from a locked run            *)
  NoTask

ASSUME SchedulerAssumption ==
  /\ NumThreads \in Nat \ {0}
  /\ NoTask \notin Tasks
  /\ Lockers \subseteq Tasks
  /\ Relockers \subseteq Lockers
  /\ Callers \intersect Int = {}
  /\ "alive" \notin Events /\ "idle" \notin Events

Threads == 0 .. NumThreads - 1
NoThread == -1
Actors == Threads \union Callers

kAlive     == "alive"
kIdleEvent == "idle"
Flags      == Events \union {kIdleEvent}

VARIABLES
  fEvents,        (* per task: the bits set                                *)
  fUseThisThread, (* per task: the thread Signal must use, or NoThread     *)
  fWriteLock,     (* per task: run it under the global lock next time      *)
  valid,          (* per task: not yet deleted                             *)
  fTaskQueue,     (* per thread: the blocking queue, head first            *)
  fHeap,          (* per thread: tasks whose timer runs                    *)
  due,            (* per thread: tasks of the heap whose time has come     *)
  sThreadPicker,  (* round robin counter, modulo the number of threads     *)
  pc,             (* per thread: where it is in Entry()                    *)
  theTask,        (* per thread: the task it works on, or NoTask           *)
  events,         (* per thread: what GetEvents has read                   *)
  theTimeout,     (* per thread: what Run() returned: -1, 0 or 1           *)
  call,           (* per actor: the task its Signal is about to enqueue    *)
  fState, fWriteWaiters, fReadWaiters, at,  (* sMutexRW                    *)
  undelivered,    (* history: events posted and not yet returned by        *)
                  (* GetEvents                                             *)
  owed            (* history: what the last Run() asked of the next one    *)

taskVars == <<fEvents, fUseThisThread, fWriteLock, valid>>
poolVars == <<fTaskQueue, fHeap, due, sThreadPicker>>
threadVars == <<pc, theTask, events, theTimeout>>
lockVars == <<fState, fWriteWaiters, fReadWaiters, at>>
history == <<undelivered, owed>>
vars == <<taskVars, poolVars, threadVars, call, lockVars, history>>

sMutexRW == INSTANCE OSMutexRW WITH Writers <- Threads

Steps == {"wait", "dequeue", "asleep", "woken", "start", "lock", "sub", "body", "done"}

TypeOK ==
  /\ fEvents \in [Tasks -> SUBSET (Flags \union {kAlive})]
  /\ fUseThisThread \in [Tasks -> Threads \union {NoThread}]
  /\ fWriteLock \in [Tasks -> BOOLEAN]
  /\ valid \in [Tasks -> BOOLEAN]
  /\ fTaskQueue \in [Threads -> Seq(Tasks)]
  /\ fHeap \in [Threads -> SUBSET Tasks]
  /\ due \in [Threads -> Seq(Tasks)]
  /\ sThreadPicker \in Threads
  /\ pc \in [Threads -> Steps]
  /\ theTask \in [Threads -> Tasks \union {NoTask}]
  /\ events \in [Threads -> SUBSET Flags]
  /\ theTimeout \in [Threads -> {-1, 0, 1}]
  /\ call \in [Actors -> Tasks \union {NoTask}]
  /\ undelivered \in [Tasks -> SUBSET Flags]
  /\ owed \in [Tasks -> [thread : Threads \union {NoThread}, locked : BOOLEAN]]

(* The pool after AddThreads: every thread looks for work, no task was     *)
(* signalled yet (RunServer starts the threads before any task).           *)
Init ==
  /\ fEvents = [t \in Tasks |-> {}]
  /\ fUseThisThread = [t \in Tasks |-> NoThread]
  /\ fWriteLock = [t \in Tasks |-> FALSE]
  /\ valid = [t \in Tasks |-> TRUE]
  /\ fTaskQueue = [th \in Threads |-> <<>>]
  /\ fHeap = [th \in Threads |-> {}]
  /\ due = [th \in Threads |-> <<>>]
  /\ sThreadPicker = 0
  /\ pc = [th \in Threads |-> "wait"]
  /\ theTask = [th \in Threads |-> NoTask]
  /\ events = [th \in Threads |-> {}]
  /\ theTimeout = [th \in Threads |-> 0]
  /\ call = [a \in Actors |-> NoTask]
  /\ sMutexRW!Init
  /\ undelivered = [t \in Tasks |-> {}]
  /\ owed = [t \in Tasks |-> [thread |-> NoThread, locked |-> FALSE]]

-----------------------------------------------------------------------------
(* Task::Signal.  Callers hold a task they know to be alive (Valid());     *)
(* tasks signal each other, and themselves, from Run().                    *)

MaySignal(a) ==
  /\ call[a] = NoTask
  /\ a \in Threads => pc[a] = "body"

Post(t, e) ==
  /\ fEvents' = [fEvents EXCEPT ![t] = @ \union {e, kAlive}]
  /\ undelivered' = [undelivered EXCEPT ![t] = @ \union {e}]
  /\ UNCHANGED <<fUseThisThread, fWriteLock, valid, poolVars, threadVars, lockVars, owed>>

Signal_AlwaysEnqueues(a, t, e) ==
  /\ MaySignal(a) /\ valid[t]
  /\ Post(t, e)
  /\ call' = [call EXCEPT ![a] = t]

(* The atomic_or: only the signaller that sets kAlive goes on to enqueue.  *)
Signal(a, t, e) ==
  /\ MaySignal(a) /\ valid[t]
  /\ Post(t, e)
  /\ call' = IF kAlive \in fEvents[t] THEN call ELSE [call EXCEPT ![a] = t]

PutOn_NoWakeup(th, t) ==
  /\ fTaskQueue' = [fTaskQueue EXCEPT ![th] = Append(@, t)]
  /\ UNCHANGED pc

(* OSQueue_Blocking::EnQueue: append, then wake the thread if it sleeps.   *)
PutOn(th, t) ==
  /\ fTaskQueue' = [fTaskQueue EXCEPT ![th] = Append(@, t)]
  /\ pc' = IF pc[th] = "asleep" THEN [pc EXCEPT ![th] = "woken"] ELSE pc

NextThread == (sThreadPicker + 1) % NumThreads

EnQueue_AnyThread(a) ==
  /\ call[a] # NoTask
  /\ call' = [call EXCEPT ![a] = NoTask]
  /\ PutOn(NextThread, call[a])
  /\ sThreadPicker' = NextThread
  /\ UNCHANGED <<taskVars, fHeap, due, theTask, events, theTimeout, lockVars, history>>

EnQueue(a) ==
  /\ call[a] # NoTask
  /\ call' = [call EXCEPT ![a] = NoTask]
  /\ IF fUseThisThread[call[a]] # NoThread
       THEN /\ PutOn(fUseThisThread[call[a]], call[a])
            /\ UNCHANGED sThreadPicker
       ELSE /\ PutOn(NextThread, call[a])
            /\ sThreadPicker' = NextThread
  /\ UNCHANGED <<taskVars, fHeap, due, theTask, events, theTimeout, lockVars, history>>

-----------------------------------------------------------------------------
(* TaskThread::WaitForTask: due timers first, then the queue, then sleep   *)
(* for at least 10 milliseconds.                                           *)

TakeDue(th) ==
  /\ pc[th] = "wait"
  /\ due[th] # <<>>
  /\ theTask' = [theTask EXCEPT ![th] = Head(due[th])]
  /\ due' = [due EXCEPT ![th] = Tail(@)]
  /\ pc' = [pc EXCEPT ![th] = "start"]
  /\ UNCHANGED <<taskVars, fTaskQueue, fHeap, sThreadPicker, events, theTimeout,
                 call, lockVars, history>>

NothingDue(th) ==
  /\ pc[th] = "wait"
  /\ due[th] = <<>>
  /\ pc' = [pc EXCEPT ![th] = "dequeue"]
  /\ UNCHANGED <<taskVars, poolVars, theTask, events, theTimeout, call, lockVars, history>>

DeQueue(th) ==
  /\ pc[th] \in {"dequeue", "woken"}
  /\ fTaskQueue[th] # <<>>
  /\ theTask' = [theTask EXCEPT ![th] = Head(fTaskQueue[th])]
  /\ fTaskQueue' = [fTaskQueue EXCEPT ![th] = Tail(@)]
  /\ pc' = [pc EXCEPT ![th] = "start"]
  /\ UNCHANGED <<taskVars, fHeap, due, sThreadPicker, events, theTimeout,
                 call, lockVars, history>>

Sleep(th) ==
  /\ pc[th] = "dequeue"
  /\ fTaskQueue[th] = <<>>
  /\ pc' = [pc EXCEPT ![th] = "asleep"]
  /\ UNCHANGED <<taskVars, poolVars, theTask, events, theTimeout, call, lockVars, history>>

(* The wait times out, or it ended and the queue is empty: look again.     *)
SleepEnds(th) ==
  /\ \/ pc[th] = "asleep" /\ pc' = [pc EXCEPT ![th] = "woken"]
     \/ /\ pc[th] = "woken" /\ fTaskQueue[th] = <<>>
        /\ pc' = [pc EXCEPT ![th] = "wait"]
  /\ UNCHANGED <<taskVars, poolVars, theTask, events, theTimeout, call, lockVars, history>>

TimerDue(th, t) ==
  /\ t \in fHeap[th]
  /\ fHeap' = [fHeap EXCEPT ![th] = @ \ {t}]
  /\ due' = [due EXCEPT ![th] = Append(@, t)]
  /\ UNCHANGED <<taskVars, fTaskQueue, sThreadPicker, threadVars, call, lockVars, history>>

-----------------------------------------------------------------------------
Start_AlwaysReads(th) ==
  /\ pc[th] = "start"
  /\ pc' = [pc EXCEPT ![th] = "lock"]
  /\ fUseThisThread' = [fUseThisThread EXCEPT ![theTask[th]] = NoThread]
  /\ sMutexRW!LockRead(th)
  /\ UNCHANGED <<fEvents, fWriteLock, valid, poolVars, theTask, events, theTimeout,
                 call, history>>

(* TaskThread::Entry: forget the thread the task asked for, lock, Run().   *)

Start(th) ==
  /\ pc[th] = "start"
  /\ pc' = [pc EXCEPT ![th] = "lock"]
  /\ fUseThisThread' = [fUseThisThread EXCEPT ![theTask[th]] = NoThread]
  /\ IF fWriteLock[theTask[th]] THEN sMutexRW!LockWrite(th) ELSE sMutexRW!LockRead(th)
  /\ UNCHANGED <<fEvents, fWriteLock, valid, poolVars, theTask, events, theTimeout,
                 call, history>>

WaitForLock(th) ==
  /\ sMutexRW!Resume(th) \/ sMutexRW!WaitEnds(th)
  /\ UNCHANGED <<taskVars, poolVars, threadVars, call, history>>

(* Run() begins with GetEvents, which reads the word and then subtracts    *)
(* what it read.                                                           *)
GetEvents(th) ==
  /\ pc[th] = "lock"
  /\ at[th] \in {"read", "write"}
  /\ events' = [events EXCEPT ![th] = fEvents[theTask[th]] \ {kAlive}]
  /\ pc' = [pc EXCEPT ![th] = "sub"]
  /\ UNCHANGED <<taskVars, poolVars, theTask, theTimeout, call, lockVars, history>>

SubtractEvents_ClearsAll(th) ==
  /\ pc[th] = "sub"
  /\ fEvents' = [fEvents EXCEPT ![theTask[th]] = {kAlive}]
  /\ undelivered' = [undelivered EXCEPT ![theTask[th]] = @ \ events[th]]
  /\ pc' = [pc EXCEPT ![th] = "body"]
  /\ UNCHANGED <<fUseThisThread, fWriteLock, valid, poolVars, theTask, events,
                 theTimeout, call, lockVars, owed>>

SubtractEvents(th) ==
  /\ pc[th] = "sub"
  /\ fEvents' = [fEvents EXCEPT ![theTask[th]] = @ \ events[th]]
  /\ undelivered' = [undelivered EXCEPT ![theTask[th]] = @ \ events[th]]
  /\ pc' = [pc EXCEPT ![th] = "body"]
  /\ UNCHANGED <<fUseThisThread, fWriteLock, valid, poolVars, theTask, events,
                 theTimeout, call, lockVars, owed>>

(* What Run() may do with its task before it returns: nothing, ask for     *)
(* this thread (ForceSameThread), or ask for this thread and the global    *)
(* lock (CallLocked, which returns 10).                                    *)
MayAskForLock(th) ==
  theTask[th] \in IF at[th] = "write" THEN Relockers ELSE Lockers

Requests(th) ==
  {r \in [timeout : {-1, 0, 1}, same : BOOLEAN, locked : BOOLEAN] :
     /\ r.timeout = -1 => ~r.same
     /\ r.locked => r.timeout = 1 /\ r.same /\ MayAskForLock(th)}

(* The run under the write lock ends with fWriteLock = false.              *)
LockFlag(th, request) ==
  IF at[th] = "write" THEN FALSE ELSE request.locked

Return(th, request) ==
  LET t == theTask[th]
  IN  /\ pc[th] = "body"
      /\ call[th] = NoTask
      /\ request \in Requests(th)
      /\ fUseThisThread' = [fUseThisThread EXCEPT ![t] = IF request.same THEN th ELSE @]
      /\ fWriteLock' = [fWriteLock EXCEPT ![t] = LockFlag(th, request)]
      /\ owed' = [owed EXCEPT ![t] = [thread |-> IF request.same THEN th ELSE NoThread,
                                      locked |-> request.locked]]
      /\ theTimeout' = [theTimeout EXCEPT ![th] = request.timeout]
      /\ events' = [events EXCEPT ![th] = {}]
      /\ pc' = [pc EXCEPT ![th] = "done"]
      /\ sMutexRW!Unlock(th)
      /\ UNCHANGED <<fEvents, valid, poolVars, theTask, call, undelivered>>

(* A negative timeout deletes the task.                                    *)
Delete(th) ==
  /\ pc[th] = "done" /\ theTimeout[th] < 0
  /\ valid' = [valid EXCEPT ![theTask[th]] = FALSE]
  /\ theTask' = [theTask EXCEPT ![th] = NoTask]
  /\ theTimeout' = [theTimeout EXCEPT ![th] = 0]
  /\ pc' = [pc EXCEPT ![th] = "wait"]
  /\ UNCHANGED <<fEvents, fUseThisThread, fWriteLock, poolVars, events, call, lockVars, history>>

Rest_ClearsAlive(th) ==
  LET t == theTask[th]
  IN  /\ pc[th] = "done" /\ theTimeout[th] = 0
      /\ fEvents' = [fEvents EXCEPT ![t] = @ \ {kAlive}]
      /\ theTask' = [theTask EXCEPT ![th] = NoTask]
      /\ pc' = [pc EXCEPT ![th] = "wait"]
      /\ UNCHANGED <<fUseThisThread, fWriteLock, valid, poolVars, events, theTimeout,
                     call, lockVars, history>>

(* Zero: compare_and_store(kAlive, 0); with other bits set, Run() again.   *)
Rest(th) ==
  LET t == theTask[th]
  IN  /\ pc[th] = "done" /\ theTimeout[th] = 0
      /\ IF fEvents[t] = {kAlive}
           THEN /\ fEvents' = [fEvents EXCEPT ![t] = {}]
                /\ theTask' = [theTask EXCEPT ![th] = NoTask]
                /\ pc' = [pc EXCEPT ![th] = "wait"]
           ELSE /\ pc' = [pc EXCEPT ![th] = "start"]
                /\ UNCHANGED <<fEvents, theTask>>
      /\ UNCHANGED <<fUseThisThread, fWriteLock, valid, poolVars, events, theTimeout,
                     call, lockVars, history>>

(* Positive: into this thread's heap, with kIdleEvent already posted.      *)
SetTimer(th) ==
  LET t == theTask[th]
  IN  /\ pc[th] = "done" /\ theTimeout[th] > 0
      /\ fHeap' = [fHeap EXCEPT ![th] = @ \union {t}]
      /\ fEvents' = [fEvents EXCEPT ![t] = @ \union {kIdleEvent}]
      /\ undelivered' = [undelivered EXCEPT ![t] = @ \union {kIdleEvent}]
      /\ theTask' = [theTask EXCEPT ![th] = NoTask]
      /\ theTimeout' = [theTimeout EXCEPT ![th] = 0]
      /\ pc' = [pc EXCEPT ![th] = "wait"]
      /\ UNCHANGED <<fUseThisThread, fWriteLock, valid, fTaskQueue, due, sThreadPicker,
                     events, call, lockVars, owed>>

-----------------------------------------------------------------------------
Entry(th) ==
  \/ TakeDue(th) \/ NothingDue(th) \/ DeQueue(th) \/ Sleep(th) \/ SleepEnds(th)
  \/ Start(th) \/ WaitForLock(th) \/ GetEvents(th) \/ SubtractEvents(th)
  \/ \E request \in Requests(th) : Return(th, request)
  \/ Delete(th) \/ Rest(th) \/ SetTimer(th)

Next ==
  \/ \E a \in Actors, t \in Tasks, e \in Events : Signal(a, t, e)
  \/ \E a \in Actors : EnQueue(a)
  \/ \E th \in Threads : Entry(th) \/ \E t \in Tasks : TimerDue(th, t)

Spec == Init /\ [][Next]_vars

(* A task thread never stops on its own, a signaller that set kAlive goes  *)
(* on to enqueue, and time passes.  Nothing makes a caller signal.         *)
FairSpec ==
  /\ Spec
  /\ \A th \in Threads : WF_vars(Entry(th))
  /\ \A a \in Actors : WF_vars(EnQueue(a))
  /\ \A th \in Threads, t \in Tasks : WF_vars(TimerDue(th, t))

-----------------------------------------------------------------------------
(* The places that may hold a task: a signaller about to enqueue it, and   *)
(* the queue, the heap and the current task of each thread.                *)
Kinds == {"call", "queue", "heap", "due", "thread"}

Elements(q) == {q[i] : i \in DOMAIN q}

Holds(kind, x, t) ==
  \/ kind = "call" /\ call[x] = t
  \/ /\ x \in Threads
     /\ \/ kind = "queue"  /\ t \in Elements(fTaskQueue[x])
        \/ kind = "heap"   /\ t \in fHeap[x]
        \/ kind = "due"    /\ t \in Elements(due[x])
        \/ kind = "thread" /\ theTask[x] = t

NoRepeats(q) == \A i, j \in DOMAIN q : q[i] = q[j] => i = j

(* A live task is in exactly one place if its kAlive bit is set and in     *)
(* none if it is not; a deleted task is nowhere.  It is what makes the     *)
(* unlocked use of the queue and heap elements in Task.cpp sound: two      *)
(* holders would corrupt a list, none would lose the task for ever.        *)
OneHolder ==
  /\ \A t \in Tasks, x, y \in Actors, j, k \in Kinds :
       Holds(j, x, t) /\ Holds(k, y, t) => j = k /\ x = y
  /\ \A t \in Tasks :
       (\E x \in Actors, k \in Kinds : Holds(k, x, t)) <=> valid[t] /\ kAlive \in fEvents[t]
  /\ \A th \in Threads : NoRepeats(fTaskQueue[th]) /\ NoRepeats(due[th])

(* Run() is never entered for one task by two threads: the assertions on   *)
(* fInRunCount in TaskThread::Entry.                                       *)
RunsAlone ==
  \A th, u \in Threads : theTask[th] = theTask[u] /\ th # u => theTask[th] = NoTask

(* An event posted to a task is in fEvents until GetEvents returns it, and *)
(* the task is then on its way to a thread (kAlive): neither the non-atomic *)
(* GetEvents nor the compare_and_store that puts the task to rest loses an *)
(* event that arrives at the wrong moment.                                 *)
NoEventLost ==
  \A t \in Tasks :
    valid[t] /\ undelivered[t] # {} =>
      undelivered[t] \subseteq fEvents[t] /\ kAlive \in fEvents[t]

Running(th) == pc[th] \in {"lock", "sub", "body"}

(* A task that returned after ForceSameThread(), "we are holding mutexes,  *)
(* so we need to force the same thread" (RTSPSession.cpp), is run next by  *)
(* that thread, wherever the next signal comes from.                       *)
SameThread ==
  \A th \in Threads :
    Running(th) => owed[theTask[th]].thread \in {NoThread, th}

(* A task that returned CallLocked() is run next under the write lock.     *)
LockHonoured ==
  \A th \in Threads :
    Running(th) /\ owed[theTask[th]].locked =>
      at[th] \in {"waitWrite", "wokenWrite", "write"}

(* No other task runs beside one that has the global lock.                 *)
RunsLockedAlone ==
  \A th, u \in Threads :
    at[th] = "write" /\ u # th => pc[u] \notin {"sub", "body"}

(* A thread never sleeps with work in its queue: EnQueue signals after it  *)
(* released the mutex, and DeQueueBlocking tests the length under it.      *)
NoSleepOverWork ==
  \A th \in Threads : pc[th] = "asleep" => fTaskQueue[th] = <<>>

(* As long as a thread gets round to its queue again and again, a task     *)
(* with events has them delivered (or is deleted).  The condition is not   *)
(* idle: due timers are served before the queue, and a task that returns 0 *)
(* with bits set keeps its thread.                                         *)
ThreadsServeQueues == \A th \in Threads : []<>(pc[th] \in {"dequeue", "woken"})

Delivered ==
  ThreadsServeQueues =>
    \A t \in Tasks, e \in Events :
      (valid[t] /\ e \in undelivered[t]) ~> (~valid[t] \/ e \notin undelivered[t])
=============================================================================
