------------------------- MODULE TaskScheduler_proofs -------------------------
(***************************************************************************)
(* For any number of tasks, task threads and outside signallers, the       *)
(* scheduler keeps each task in one place, never runs it on two threads,   *)
(* loses no event, and runs it on the thread it asked for.                 *)
(***************************************************************************)
EXTENDS TaskScheduler, SequenceTheorems, FiniteSetTheorems, TLAPS

Busy(th) == pc[th] \in {"start", "lock", "sub", "body", "done"}

(* Queues, seen as the sets of their elements.                             *)
LEMMA AppendElements ==
  ASSUME NEW q \in Seq(Tasks), NEW t \in Tasks
  PROVE  /\ Append(q, t) \in Seq(Tasks)
         /\ Elements(Append(q, t)) = Elements(q) \union {t}
         /\ NoRepeats(q) /\ t \notin Elements(q) => NoRepeats(Append(q, t))
<1>1. /\ Append(q, t) \in Seq(Tasks)
      /\ Len(Append(q, t)) = Len(q) + 1
      /\ \A i \in 1 .. Len(q) : Append(q, t)[i] = q[i]
      /\ Append(q, t)[Len(q) + 1] = t
  BY AppendProperties
<1>2. /\ DOMAIN q = 1 .. Len(q) /\ Len(q) \in Nat
      /\ DOMAIN Append(q, t) = 1 .. Len(q) + 1
  BY <1>1, LenProperties
<1>3. QED
  BY <1>1, <1>2 DEF Elements, NoRepeats

LEMMA TailElements ==
  ASSUME NEW q \in Seq(Tasks), q # <<>>, NoRepeats(q)
  PROVE  /\ Tail(q) \in Seq(Tasks) /\ NoRepeats(Tail(q))
         /\ Head(q) \in Elements(q) /\ Head(q) \in Tasks
         /\ Elements(Tail(q)) = Elements(q) \ {Head(q)}
<1>1. /\ Tail(q) \in Seq(Tasks) /\ Head(q) \in Tasks
      /\ Len(Tail(q)) = Len(q) - 1 /\ Head(q) = q[1]
      /\ \A i \in 1 .. Len(Tail(q)) : Tail(q)[i] = q[i + 1]
  BY HeadTailProperties
<1>2. /\ DOMAIN q = 1 .. Len(q) /\ Len(q) \in Nat /\ Len(q) > 0
      /\ DOMAIN Tail(q) = 1 .. Len(q) - 1
  BY <1>1, LenProperties, EmptySeq
<1>3. NoRepeats(Tail(q)) /\ Head(q) \in Elements(q)
  BY <1>1, <1>2 DEF Elements, NoRepeats
<1>4. ASSUME NEW x \in Elements(Tail(q))
      PROVE  x \in Elements(q) \ {Head(q)}
  <2>1. PICK i \in 1 .. Len(q) - 1 : x = q[i + 1]
    BY <1>1, <1>2, <1>4 DEF Elements
  <2>2. QED
    BY <1>1, <1>2, <2>1 DEF Elements, NoRepeats
<1>5. ASSUME NEW x \in Elements(q), x # Head(q)
      PROVE  x \in Elements(Tail(q))
  <2>1. PICK i \in 2 .. Len(q) : x = q[i]
    BY <1>1, <1>2, <1>5 DEF Elements
  <2>2. i - 1 \in 1 .. Len(q) - 1 /\ Tail(q)[i - 1] = x
    BY <1>1, <1>2, <2>1
  <2>3. QED
    BY <1>2, <2>2 DEF Elements
<1>6. QED
  BY <1>1, <1>3, <1>4, <1>5

LEMMA NextThreadOK == ASSUME sThreadPicker \in Threads PROVE NextThread \in Threads
BY SchedulerAssumption DEF Threads, NextThread

-----------------------------------------------------------------------------
(* A thread has a task exactly from the moment it takes one until it is    *)
(* done with it, and only a thread inside Run() is inside Signal.          *)
ThreadsOK ==
  \A th \in Threads :
    /\ theTask[th] = NoTask <=> ~Busy(th)
    /\ call[th] # NoTask => pc[th] = "body"

(* Every variable keeps its type.                                          *)
LEMMA InitTypeOK == Init => TypeOK /\ ThreadsOK
BY SchedulerAssumption
DEF Init, TypeOK, Threads, NoThread, Steps, Flags, kAlive, kIdleEvent, ThreadsOK, Busy, Actors

LEMMA NextTypeOK ==
  ASSUME TypeOK, ThreadsOK, OneHolder, [Next]_vars
  PROVE  TypeOK' /\ ThreadsOK'
<1> USE SchedulerAssumption
    DEF TypeOK, ThreadsOK, Busy, taskVars, poolVars, threadVars, history, Steps
<1>a. Threads \subseteq Actors /\ NoThread \notin Threads
  BY DEF Actors, Threads, NoThread
<1>1. ASSUME NEW a \in Actors, NEW t \in Tasks, NEW e \in Events, Signal(a, t, e)
      PROVE  TypeOK' /\ ThreadsOK'
  <2>1. fEvents' \in [Tasks -> SUBSET (Flags \union {kAlive})]
    BY <1>1 DEF Signal, Post, Flags
  <2>2. undelivered' \in [Tasks -> SUBSET Flags]
    BY <1>1 DEF Signal, Post, Flags
  <2>3. call' \in [Actors -> Tasks \union {NoTask}] /\ \A b \in Actors \ {a} : call'[b] = call[b]
    BY <1>1 DEF Signal
  <2>4. ThreadsOK'
    BY <1>1, <1>a, <2>3 DEF Signal, Post, MaySignal
  <2>5. QED
    BY <1>1, <2>1, <2>2, <2>3, <2>4 DEF Signal, Post
<1>2. ASSUME NEW a \in Actors, EnQueue(a)
      PROVE  TypeOK' /\ ThreadsOK'
  <2>1. PICK th \in Threads : PutOn(th, call[a])
    BY <1>2, NextThreadOK DEF EnQueue
  <2>2. call[a] \in Tasks
    BY <1>2 DEF EnQueue
  <2>3. fTaskQueue' \in [Threads -> Seq(Tasks)]
    BY <2>1, <2>2, AppendElements DEF PutOn
  <2>4. /\ sThreadPicker' \in Threads
        /\ call' \in [Actors -> Tasks \union {NoTask}]
        /\ \A b \in Actors : call'[b] # NoTask => call[b] # NoTask
    BY <1>2, NextThreadOK DEF EnQueue
  <2>5. /\ pc' \in [Threads -> Steps]
        /\ \A u \in Threads : pc'[u] = pc[u] \/ (pc[u] = "asleep" /\ pc'[u] = "woken")
    <3>1. CASE pc[th] = "asleep"
      <4>1. pc' = [pc EXCEPT ![th] = "woken"]
        BY <2>1, <3>1 DEF PutOn
      <4>2. pc' \in [Threads -> Steps]
        BY <4>1
      <4>3. QED
        BY <3>1, <4>1, <4>2
    <3>2. CASE pc[th] # "asleep"
      <4>1. pc' = pc
        BY <2>1, <3>2, Zenon DEF PutOn
      <4>2. QED
        BY <4>1
    <3>3. QED
      BY <3>1, <3>2
  <2>6. QED
    BY <1>2, <1>a, <2>3, <2>4, <2>5 DEF EnQueue
<1>3. ASSUME NEW th \in Threads, TakeDue(th)
      PROVE  TypeOK' /\ ThreadsOK'
  <2>1. Head(due[th]) \in Tasks /\ Tail(due[th]) \in Seq(Tasks)
    BY <1>3, TailElements DEF TakeDue, OneHolder
  <2>2. QED
    BY <1>3, <1>a, <2>1 DEF TakeDue
<1>4. ASSUME NEW th \in Threads, DeQueue(th)
      PROVE  TypeOK' /\ ThreadsOK'
  <2>1. Head(fTaskQueue[th]) \in Tasks /\ Tail(fTaskQueue[th]) \in Seq(Tasks)
    BY <1>4, TailElements DEF DeQueue, OneHolder
  <2>2. QED
    BY <1>4, <1>a, <2>1 DEF DeQueue
<1>5. ASSUME NEW th \in Threads, NothingDue(th) \/ Sleep(th) \/ SleepEnds(th)
      PROVE  TypeOK' /\ ThreadsOK'
  <2>1. CASE NothingDue(th)
    BY <2>1, <1>a DEF NothingDue
  <2>2. CASE Sleep(th)
    BY <2>2, <1>a DEF Sleep
  <2>3. CASE SleepEnds(th)
    BY <2>3, <1>a DEF SleepEnds
  <2>4. QED
    BY <1>5, <2>1, <2>2, <2>3
<1>6. ASSUME NEW th \in Threads, NEW t \in Tasks, TimerDue(th, t)
      PROVE  TypeOK' /\ ThreadsOK'
  BY <1>6, AppendElements DEF TimerDue
<1>7. ASSUME NEW th \in Threads, Start(th) \/ WaitForLock(th)
      PROVE  TypeOK' /\ ThreadsOK'
  BY <1>7, <1>a DEF Start, WaitForLock
<1>8. ASSUME NEW th \in Threads, GetEvents(th) \/ SubtractEvents(th)
      PROVE  TypeOK' /\ ThreadsOK'
  <2>1. CASE GetEvents(th)
    BY <2>1, <1>a, Zenon DEF GetEvents
  <2>2. CASE SubtractEvents(th)
    BY <2>2, <1>a DEF SubtractEvents
  <2>3. QED
    BY <1>8, <2>1, <2>2
<1>9. ASSUME NEW th \in Threads, NEW request \in Requests(th), Return(th, request)
      PROVE  TypeOK' /\ ThreadsOK'
  <2>1. request \in [timeout : {-1, 0, 1}, same : BOOLEAN, locked : BOOLEAN]
    BY DEF Requests
  <2>2. theTask[th] \in Tasks
    BY <1>9 DEF Return
  <2>3. LockFlag(th, request) \in BOOLEAN
    BY <2>1 DEF LockFlag
  <2>4. owed' \in [Tasks -> [thread : Threads \union {NoThread}, locked : BOOLEAN]]
    BY <1>9, <2>1, <2>2 DEF Return
  <2>5. QED
    BY <1>9, <1>a, <2>1, <2>2, <2>3, <2>4 DEF Return
<1>10. ASSUME NEW th \in Threads, Delete(th) \/ Rest(th)
       PROVE  TypeOK' /\ ThreadsOK'
  <2>1. CASE Delete(th)
    BY <2>1, <1>a DEF Delete
  <2>2. CASE Rest(th)
    <3>1. CASE fEvents[theTask[th]] = {kAlive}
      <4>1. /\ fEvents' = [fEvents EXCEPT ![theTask[th]] = {}]
            /\ theTask' = [theTask EXCEPT ![th] = NoTask]
            /\ pc' = [pc EXCEPT ![th] = "wait"]
            /\ pc[th] = "done"
        BY <2>2, <3>1, Zenon DEF Rest
      <4>2. UNCHANGED <<fUseThisThread, fWriteLock, valid, poolVars, events, theTimeout,
                        call, lockVars, history>>
        BY <2>2, Zenon DEF Rest
      <4>3. QED
        BY <4>1, <4>2, <1>a
    <3>2. CASE fEvents[theTask[th]] # {kAlive}
      BY <2>2, <3>2, <1>a DEF Rest
    <3>3. QED
      BY <3>1, <3>2
  <2>3. QED
    BY <1>10, <2>1, <2>2
<1>11. ASSUME NEW th \in Threads, SetTimer(th)
       PROVE  TypeOK' /\ ThreadsOK'
  BY <1>11, <1>a DEF SetTimer, Flags
<1>12. CASE UNCHANGED vars
  BY <1>12 DEF vars
<1>13. QED
  BY <1>1, <1>2, <1>3, <1>4, <1>5, <1>6, <1>7, <1>8, <1>9, <1>10, <1>11, <1>12 DEF Next, Entry

-----------------------------------------------------------------------------
(* One holder.  A step moves no task, moves one task to a place, or takes  *)
(* one task out of the scheduler.                                          *)
Alive(t) == valid[t] /\ kAlive \in fEvents[t]

QueuesOK == \A th \in Threads : NoRepeats(fTaskQueue[th]) /\ NoRepeats(due[th])

LEMMA OnlyHolder ==
  ASSUME OneHolder, NEW t \in Tasks, NEW k \in Kinds, NEW x \in Actors, Holds(k, x, t)
  PROVE  /\ \A j \in Kinds, y \in Actors : Holds(j, y, t) <=> j = k /\ y = x
         /\ Alive(t)
BY DEF OneHolder, Alive

LEMMA NobodyMoves ==
  ASSUME OneHolder, QueuesOK',
         \A t \in Tasks, k \in Kinds, x \in Actors : Holds(k, x, t)' <=> Holds(k, x, t),
         \A t \in Tasks : Alive(t)' <=> Alive(t)
  PROVE  OneHolder'
BY DEF OneHolder, QueuesOK, Alive

LEMMA OneMoves ==
  ASSUME OneHolder, QueuesOK', NEW t \in Tasks, NEW k \in Kinds, NEW x \in Actors,
         \A u \in Tasks \ {t}, j \in Kinds, y \in Actors : Holds(j, y, u)' <=> Holds(j, y, u),
         \A u \in Tasks \ {t} : Alive(u)' <=> Alive(u),
         \A j \in Kinds, y \in Actors : Holds(j, y, t)' <=> j = k /\ y = x,
         Alive(t)'
  PROVE  OneHolder'
BY DEF OneHolder, QueuesOK, Alive

LEMMA OneLeaves ==
  ASSUME OneHolder, QueuesOK', NEW t \in Tasks,
         \A u \in Tasks \ {t}, j \in Kinds, y \in Actors : Holds(j, y, u)' <=> Holds(j, y, u),
         \A u \in Tasks \ {t} : Alive(u)' <=> Alive(u),
         \A j \in Kinds, y \in Actors : ~Holds(j, y, t)',
         ~Alive(t)'
  PROVE  OneHolder'
BY DEF OneHolder, QueuesOK, Alive

LEMMA InitOneHolder == Init => OneHolder
BY SchedulerAssumption DEF Init, OneHolder, Holds, Elements, NoRepeats, Actors

LEMMA NextOneHolder ==
  ASSUME TypeOK, ThreadsOK, OneHolder, [Next]_vars
  PROVE  OneHolder'
<1>a. Threads \subseteq Actors /\ QueuesOK
  BY DEF Actors, OneHolder, QueuesOK
<1>b. NoTask \notin Tasks
  BY SchedulerAssumption
<1>1. ASSUME NEW a \in Actors, NEW t \in Tasks, NEW e \in Events, Signal(a, t, e)
      PROVE  OneHolder'
  <2>1. /\ valid[t] /\ call[a] = NoTask
        /\ fEvents' = [fEvents EXCEPT ![t] = @ \union {e, kAlive}]
        /\ UNCHANGED <<valid, fTaskQueue, fHeap, due, theTask>>
    BY <1>1 DEF Signal, MaySignal, Post, poolVars, threadVars
  <2>2. QueuesOK' /\ Alive(t)' /\ \A u \in Tasks \ {t} : Alive(u)' <=> Alive(u)
    BY <1>a, <2>1 DEF QueuesOK, Alive, TypeOK
  <2>3. CASE kAlive \in fEvents[t]
    <3>1. call' = call
      BY <1>1, <2>3 DEF Signal
    <3>2. \A u \in Tasks, k \in Kinds, x \in Actors : Holds(k, x, u)' <=> Holds(k, x, u)
      BY <2>1, <3>1 DEF Holds
    <3>3. Alive(t)
      BY <2>1, <2>3 DEF Alive
    <3>4. QED
      BY <2>2, <3>2, <3>3, NobodyMoves
  <2>4. CASE kAlive \notin fEvents[t]
    <3>1. call' = [call EXCEPT ![a] = t]
      BY <1>1, <2>4 DEF Signal
    <3>2. \A k \in Kinds, x \in Actors : ~Holds(k, x, t)
      BY <2>4 DEF OneHolder
    <3>3. \A k \in Kinds, x \in Actors : Holds(k, x, t)' <=> k = "call" /\ x = a
      BY <2>1, <3>1, <3>2 DEF Holds, Kinds, TypeOK
    <3>4. \A u \in Tasks \ {t}, k \in Kinds, x \in Actors : Holds(k, x, u)' <=> Holds(k, x, u)
      BY <1>b, <2>1, <3>1 DEF Holds, TypeOK
    <3>5. "call" \in Kinds
      BY DEF Kinds
    <3>6. QED
      BY <2>2, <3>3, <3>4, <3>5, OneMoves
  <2>5. QED
    BY <2>3, <2>4
<1>2. ASSUME NEW a \in Actors, EnQueue(a)
      PROVE  OneHolder'
  <2>0. PICK t \in Tasks : t = call[a]
    BY <1>2 DEF EnQueue, TypeOK
  <2>1. PICK th \in Threads : PutOn(th, t)
    BY <1>2, <2>0, NextThreadOK DEF EnQueue, TypeOK
  <2>2. /\ t = call[a]
        /\ call' = [call EXCEPT ![a] = NoTask]
        /\ UNCHANGED <<valid, fEvents, fHeap, due, theTask>>
    BY <1>2, <2>0 DEF EnQueue, taskVars
  <2>3. fTaskQueue' = [fTaskQueue EXCEPT ![th] = Append(@, t)]
    BY <2>1 DEF PutOn
  <2>4. Alive(t) /\ \A k \in Kinds, x \in Actors : Holds(k, x, t) <=> k = "call" /\ x = a
    <3>1. Holds("call", a, t) /\ "call" \in Kinds
      BY <2>2 DEF Holds, Kinds
    <3>2. QED
      BY <2>2, <3>1, OnlyHolder
  <2>5. t \notin Elements(fTaskQueue[th])
    BY <1>a, <2>4 DEF Holds, Kinds
  <2>6. /\ Elements(fTaskQueue'[th]) = Elements(fTaskQueue[th]) \union {t}
        /\ NoRepeats(fTaskQueue'[th])
        /\ \A u \in Threads \ {th} : fTaskQueue'[u] = fTaskQueue[u]
    BY <1>a, <2>2, <2>3, <2>5, AppendElements DEF TypeOK, QueuesOK
  <2>7. QueuesOK' /\ \A u \in Tasks : Alive(u)' <=> Alive(u)
    BY <1>a, <2>2, <2>6 DEF QueuesOK, Alive
  <2>8. \A k \in Kinds, x \in Actors : Holds(k, x, t)' <=> k = "queue" /\ x = th
    BY <1>a, <1>b, <2>2, <2>4, <2>6 DEF Holds, Kinds, TypeOK
  <2>9. \A u \in Tasks \ {t}, k \in Kinds, x \in Actors : Holds(k, x, u)' <=> Holds(k, x, u)
    <3>1. \A x \in Actors, u \in Tasks \ {t} : call'[x] = u <=> call[x] = u
      BY <1>b, <2>2 DEF TypeOK
    <3>2. \A x \in Threads, u \in Tasks \ {t} :
            u \in Elements(fTaskQueue'[x]) <=> u \in Elements(fTaskQueue[x])
      BY <2>6
    <3>3. QED
      BY <2>2, <3>1, <3>2 DEF Holds
  <2>10. "queue" \in Kinds /\ th \in Actors
    BY <1>a DEF Kinds
  <2>11. QED
    BY <2>2, <2>4, <2>7, <2>8, <2>9, <2>10, OneMoves
<1>3. ASSUME NEW th \in Threads, TakeDue(th)
      PROVE  OneHolder'
  <2>0. PICK t \in Tasks : t = Head(due[th])
    BY <1>3, <1>a, TailElements DEF TakeDue, TypeOK, QueuesOK
  <2>1. /\ pc[th] = "wait" /\ due[th] # <<>>
        /\ theTask' = [theTask EXCEPT ![th] = t]
        /\ due' = [due EXCEPT ![th] = Tail(@)]
        /\ UNCHANGED <<valid, fEvents, fTaskQueue, fHeap, call>>
    BY <1>3, <2>0 DEF TakeDue, taskVars
  <2>2. /\ t \in Elements(due[th])
        /\ NoRepeats(due'[th])
        /\ Elements(due'[th]) = Elements(due[th]) \ {t}
        /\ \A u \in Threads \ {th} : due'[u] = due[u]
    BY <1>a, <2>0, <2>1, TailElements DEF TypeOK, QueuesOK
  <2>3. Alive(t) /\ \A k \in Kinds, x \in Actors : Holds(k, x, t) <=> k = "due" /\ x = th
    <3>1. Holds("due", th, t) /\ "due" \in Kinds
      BY <2>2 DEF Holds, Kinds
    <3>2. QED
      BY <1>a, <2>2, <3>1, OnlyHolder
  <2>4. QueuesOK' /\ \A u \in Tasks : Alive(u)' <=> Alive(u)
    BY <1>a, <2>1, <2>2 DEF QueuesOK, Alive
  <2>5. theTask[th] = NoTask
    BY <2>1 DEF ThreadsOK, Busy
  <2>6. \A k \in Kinds, x \in Actors : Holds(k, x, t)' <=> k = "thread" /\ x = th
    BY <1>a, <2>1, <2>2, <2>3 DEF Holds, Kinds, TypeOK
  <2>7. \A u \in Tasks \ {t}, k \in Kinds, x \in Actors : Holds(k, x, u)' <=> Holds(k, x, u)
    BY <1>b, <2>1, <2>2, <2>5 DEF Holds, TypeOK
  <2>8. "thread" \in Kinds /\ th \in Actors
    BY <1>a DEF Kinds
  <2>9. QED
    BY <2>2, <2>3, <2>4, <2>6, <2>7, <2>8, OneMoves
<1>4. ASSUME NEW th \in Threads, DeQueue(th)
      PROVE  OneHolder'
  <2>0. PICK t \in Tasks : t = Head(fTaskQueue[th])
    BY <1>4, <1>a, TailElements DEF DeQueue, TypeOK, QueuesOK
  <2>1. /\ pc[th] \in {"dequeue", "woken"} /\ fTaskQueue[th] # <<>>
        /\ theTask' = [theTask EXCEPT ![th] = t]
        /\ fTaskQueue' = [fTaskQueue EXCEPT ![th] = Tail(@)]
        /\ UNCHANGED <<valid, fEvents, due, fHeap, call>>
    BY <1>4, <2>0 DEF DeQueue, taskVars
  <2>2. /\ t \in Elements(fTaskQueue[th])
        /\ NoRepeats(fTaskQueue'[th])
        /\ Elements(fTaskQueue'[th]) = Elements(fTaskQueue[th]) \ {t}
        /\ \A u \in Threads \ {th} : fTaskQueue'[u] = fTaskQueue[u]
    BY <1>a, <2>0, <2>1, TailElements DEF TypeOK, QueuesOK
  <2>3. Alive(t) /\ \A k \in Kinds, x \in Actors : Holds(k, x, t) <=> k = "queue" /\ x = th
    <3>1. Holds("queue", th, t) /\ "queue" \in Kinds
      BY <2>2 DEF Holds, Kinds
    <3>2. QED
      BY <1>a, <2>2, <3>1, OnlyHolder
  <2>4. QueuesOK' /\ \A u \in Tasks : Alive(u)' <=> Alive(u)
    BY <1>a, <2>1, <2>2 DEF QueuesOK, Alive
  <2>5. theTask[th] = NoTask
    BY <2>1 DEF ThreadsOK, Busy
  <2>6. \A k \in Kinds, x \in Actors : Holds(k, x, t)' <=> k = "thread" /\ x = th
    BY <1>a, <2>1, <2>2, <2>3 DEF Holds, Kinds, TypeOK
  <2>7. \A u \in Tasks \ {t}, k \in Kinds, x \in Actors : Holds(k, x, u)' <=> Holds(k, x, u)
    BY <1>b, <2>1, <2>2, <2>5 DEF Holds, TypeOK
  <2>8. "thread" \in Kinds /\ th \in Actors
    BY <1>a DEF Kinds
  <2>9. QED
    BY <2>2, <2>3, <2>4, <2>6, <2>7, <2>8, OneMoves
<1>5. ASSUME NEW th \in Threads, NEW t \in Tasks, TimerDue(th, t)
      PROVE  OneHolder'
  <2>1. /\ t \in fHeap[th]
        /\ fHeap' = [fHeap EXCEPT ![th] = @ \ {t}]
        /\ due' = [due EXCEPT ![th] = Append(@, t)]
        /\ UNCHANGED <<valid, fEvents, fTaskQueue, theTask, call>>
    BY <1>5 DEF TimerDue, taskVars, threadVars
  <2>2. Alive(t) /\ \A k \in Kinds, x \in Actors : Holds(k, x, t) <=> k = "heap" /\ x = th
    <3>1. Holds("heap", th, t) /\ "heap" \in Kinds
      BY <2>1 DEF Holds, Kinds
    <3>2. QED
      BY <1>a, <3>1, OnlyHolder
  <2>3. t \notin Elements(due[th])
    BY <1>a, <2>2 DEF Holds, Kinds
  <2>4. /\ Elements(due'[th]) = Elements(due[th]) \union {t}
        /\ NoRepeats(due'[th])
        /\ \A u \in Threads \ {th} : due'[u] = due[u]
    BY <1>a, <2>1, <2>3, AppendElements DEF TypeOK, QueuesOK
  <2>5. QueuesOK' /\ \A u \in Tasks : Alive(u)' <=> Alive(u)
    BY <1>a, <2>1, <2>4 DEF QueuesOK, Alive
  <2>6. \A k \in Kinds, x \in Actors : Holds(k, x, t)' <=> k = "due" /\ x = th
    BY <1>a, <2>1, <2>2, <2>4 DEF Holds, Kinds, TypeOK
  <2>7. \A u \in Tasks \ {t}, k \in Kinds, x \in Actors : Holds(k, x, u)' <=> Holds(k, x, u)
    BY <2>1, <2>4 DEF Holds, TypeOK
  <2>8. "due" \in Kinds /\ th \in Actors
    BY <1>a DEF Kinds
  <2>9. QED
    BY <2>2, <2>5, <2>6, <2>7, <2>8, OneMoves
<1>6. ASSUME UNCHANGED <<fEvents, valid, poolVars, theTask, call>>
      PROVE  OneHolder'
  BY <1>6 DEF OneHolder, Holds, poolVars
<1>7. ASSUME NEW th \in Threads, SubtractEvents(th)
      PROVE  OneHolder'
  <2>1. UNCHANGED <<valid, poolVars, theTask, call>>
    BY <1>7 DEF SubtractEvents
  <2>2. \A t \in Tasks : kAlive \in fEvents'[t] <=> kAlive \in fEvents[t]
    <3>1. kAlive \notin Flags
      BY SchedulerAssumption DEF Flags, kAlive, kIdleEvent
    <3>2. fEvents' = [fEvents EXCEPT ![theTask[th]] = @ \ events[th]]
      BY <1>7 DEF SubtractEvents
    <3>3. QED
      BY <3>1, <3>2 DEF TypeOK
  <2>3. QED
    BY <2>1, <2>2 DEF OneHolder, Holds, poolVars
<1>8. ASSUME NEW th \in Threads, Delete(th)
      PROVE  OneHolder'
  <2>0. PICK t \in Tasks : t = theTask[th]
    BY <1>8 DEF Delete, ThreadsOK, Busy, TypeOK
  <2>1. /\ pc[th] = "done"
        /\ valid' = [valid EXCEPT ![t] = FALSE]
        /\ theTask' = [theTask EXCEPT ![th] = NoTask]
        /\ UNCHANGED <<fEvents, fTaskQueue, fHeap, due, call>>
    BY <1>8, <2>0 DEF Delete, poolVars
  <2>2. t \in Tasks /\ t = theTask[th]
    BY <2>0
  <2>3. \A k \in Kinds, x \in Actors : Holds(k, x, t) <=> k = "thread" /\ x = th
    <3>1. Holds("thread", th, t) /\ "thread" \in Kinds
      BY <2>2 DEF Holds, Kinds
    <3>2. QED
      BY <1>a, <2>2, <3>1, OnlyHolder
  <2>4. QueuesOK' /\ ~Alive(t)' /\ \A u \in Tasks \ {t} : Alive(u)' <=> Alive(u)
    BY <1>a, <2>1, <2>2 DEF QueuesOK, Alive, TypeOK
  <2>5. \A k \in Kinds, x \in Actors : ~Holds(k, x, t)'
    BY <1>b, <2>1, <2>2, <2>3 DEF Holds, TypeOK, Kinds
  <2>6. \A u \in Tasks \ {t}, k \in Kinds, x \in Actors : Holds(k, x, u)' <=> Holds(k, x, u)
    BY <1>b, <2>1, <2>2 DEF Holds, TypeOK
  <2>7. QED
    BY <2>2, <2>4, <2>5, <2>6, OneLeaves
<1>9. ASSUME NEW th \in Threads, Rest(th)
      PROVE  OneHolder'
  <2>0. PICK t \in Tasks : t = theTask[th]
    BY <1>9 DEF Rest, ThreadsOK, Busy, TypeOK
  <2>1. t \in Tasks /\ t = theTask[th]
    BY <2>0
  <2>2. CASE fEvents[t] = {kAlive}
    <3>1. /\ fEvents' = [fEvents EXCEPT ![t] = {}]
          /\ theTask' = [theTask EXCEPT ![th] = NoTask]
          /\ UNCHANGED <<valid, fTaskQueue, fHeap, due, call>>
      BY <1>9, <2>1, <2>2 DEF Rest, poolVars
    <3>2. \A k \in Kinds, x \in Actors : Holds(k, x, t) <=> k = "thread" /\ x = th
      <4>1. Holds("thread", th, t) /\ "thread" \in Kinds
        BY <2>1 DEF Holds, Kinds
      <4>2. QED
        BY <1>a, <2>1, <4>1, OnlyHolder
    <3>3. QueuesOK' /\ ~Alive(t)' /\ \A u \in Tasks \ {t} : Alive(u)' <=> Alive(u)
      BY <1>a, <2>1, <3>1 DEF QueuesOK, Alive, TypeOK
    <3>4. \A k \in Kinds, x \in Actors : ~Holds(k, x, t)'
      BY <1>b, <2>1, <3>1, <3>2 DEF Holds, TypeOK, Kinds
    <3>5. \A u \in Tasks \ {t}, k \in Kinds, x \in Actors : Holds(k, x, u)' <=> Holds(k, x, u)
      BY <1>b, <2>1, <3>1 DEF Holds, TypeOK
    <3>6. QED
      BY <2>1, <3>3, <3>4, <3>5, OneLeaves
  <2>3. CASE fEvents[t] # {kAlive}
    <3>1. UNCHANGED <<fEvents, valid, poolVars, theTask, call>>
      BY <1>9, <2>1, <2>3 DEF Rest
    <3>2. QED
      BY <1>6, <3>1
  <2>4. QED
    BY <2>2, <2>3
<1>10. ASSUME NEW th \in Threads, SetTimer(th)
       PROVE  OneHolder'
  <2>0. PICK t \in Tasks : t = theTask[th]
    BY <1>10 DEF SetTimer, ThreadsOK, Busy, TypeOK
  <2>1. /\ pc[th] = "done"
        /\ fHeap' = [fHeap EXCEPT ![th] = @ \union {t}]
        /\ fEvents' = [fEvents EXCEPT ![t] = @ \union {kIdleEvent}]
        /\ theTask' = [theTask EXCEPT ![th] = NoTask]
        /\ UNCHANGED <<valid, fTaskQueue, due, call>>
    BY <1>10, <2>0 DEF SetTimer
  <2>2. t \in Tasks /\ t = theTask[th]
    BY <2>0
  <2>3. Alive(t) /\ \A k \in Kinds, x \in Actors : Holds(k, x, t) <=> k = "thread" /\ x = th
    <3>1. Holds("thread", th, t) /\ "thread" \in Kinds
      BY <2>2 DEF Holds, Kinds
    <3>2. QED
      BY <1>a, <2>2, <3>1, OnlyHolder
  <2>4. QueuesOK' /\ \A u \in Tasks : Alive(u)' <=> Alive(u)
    BY <1>a, <2>1, <2>2 DEF QueuesOK, Alive, TypeOK, kAlive, kIdleEvent
  <2>5. \A k \in Kinds, x \in Actors : Holds(k, x, t)' <=> k = "heap" /\ x = th
    BY <1>a, <1>b, <2>1, <2>2, <2>3 DEF Holds, TypeOK, Kinds
  <2>6. \A u \in Tasks \ {t}, k \in Kinds, x \in Actors : Holds(k, x, u)' <=> Holds(k, x, u)
    BY <1>b, <2>1, <2>2 DEF Holds, TypeOK
  <2>7. "heap" \in Kinds /\ th \in Actors
    BY <1>a DEF Kinds
  <2>8. QED
    BY <2>2, <2>3, <2>4, <2>5, <2>6, <2>7, OneMoves
<1>11. ASSUME NEW th \in Threads,
              NothingDue(th) \/ Sleep(th) \/ SleepEnds(th) \/ Start(th) \/ WaitForLock(th)
                \/ GetEvents(th) \/ \E request \in Requests(th) : Return(th, request)
       PROVE  OneHolder'
  BY <1>6, <1>11
  DEF NothingDue, Sleep, SleepEnds, Start, WaitForLock, GetEvents, Return, taskVars, threadVars
<1>12. CASE UNCHANGED vars
  BY <1>6, <1>12 DEF vars, taskVars, threadVars
<1>13. QED
  BY <1>1, <1>2, <1>3, <1>4, <1>5, <1>7, <1>8, <1>9, <1>10, <1>11, <1>12 DEF Next, Entry

-----------------------------------------------------------------------------
(* Delivery.  Every undelivered event is still in the word, and a live     *)
(* task with one is held by somebody.                                      *)
EventsOK ==
  \A t \in Tasks :
    /\ undelivered[t] \subseteq fEvents[t]
    /\ valid[t] /\ undelivered[t] # {} => kAlive \in fEvents[t]

LEMMA NextEventsOK ==
  ASSUME TypeOK, ThreadsOK, OneHolder, EventsOK, [Next]_vars
  PROVE  EventsOK'
<1>a. kAlive \notin Flags
  BY SchedulerAssumption DEF Flags, kAlive, kIdleEvent
<1>1. ASSUME NEW a \in Actors, NEW t \in Tasks, NEW e \in Events, Signal(a, t, e)
      PROVE  EventsOK'
  BY <1>1 DEF Signal, Post, EventsOK, TypeOK
<1>2. ASSUME NEW th \in Threads, SubtractEvents(th)
      PROVE  EventsOK'
  BY <1>2, <1>a DEF SubtractEvents, EventsOK, TypeOK
<1>3. ASSUME NEW th \in Threads, Delete(th)
      PROVE  EventsOK'
  BY <1>3 DEF Delete, EventsOK, TypeOK, history
<1>4. ASSUME NEW th \in Threads, Rest(th)
      PROVE  EventsOK'
  <2>0. PICK t \in Tasks : t = theTask[th]
    BY <1>4 DEF Rest, ThreadsOK, Busy, TypeOK
  <2>1. UNCHANGED <<undelivered, valid>>
    BY <1>4 DEF Rest, history
  <2>2. CASE fEvents[t] = {kAlive}
    <3>1. fEvents' = [fEvents EXCEPT ![t] = {}]
      BY <1>4, <2>0, <2>2 DEF Rest
    <3>2. undelivered[t] = {}
      BY <1>a, <2>2 DEF EventsOK, TypeOK
    <3>3. QED
      BY <2>1, <3>1, <3>2 DEF EventsOK, TypeOK
  <2>3. CASE fEvents[t] # {kAlive}
    <3>1. fEvents' = fEvents
      BY <1>4, <2>0, <2>3 DEF Rest
    <3>2. QED
      BY <2>1, <3>1 DEF EventsOK
  <2>4. QED
    BY <2>2, <2>3
<1>5. ASSUME NEW th \in Threads, SetTimer(th)
      PROVE  EventsOK'
  <2>0. PICK t \in Tasks : t = theTask[th]
    BY <1>5 DEF SetTimer, ThreadsOK, Busy, TypeOK
  <2>1. kAlive \in fEvents[t]
    <3>1. Holds("thread", th, t) /\ "thread" \in Kinds /\ th \in Actors
      BY <2>0 DEF Holds, Kinds, Actors
    <3>2. QED
      BY <3>1, OnlyHolder DEF Alive
  <2>2. QED
    BY <1>5, <2>0, <2>1 DEF SetTimer, EventsOK, TypeOK
<1>6. ASSUME UNCHANGED <<fEvents, undelivered, valid>>
      PROVE  EventsOK'
  BY <1>6 DEF EventsOK
<1>7. ASSUME NEW a \in Actors, EnQueue(a)
      PROVE  EventsOK'
  BY <1>6, <1>7 DEF EnQueue, taskVars, history
<1>8. ASSUME NEW th \in Threads, NEW t \in Tasks, TimerDue(th, t)
      PROVE  EventsOK'
  BY <1>6, <1>8 DEF TimerDue, taskVars, history
<1>9. ASSUME NEW th \in Threads,
             TakeDue(th) \/ NothingDue(th) \/ DeQueue(th) \/ Sleep(th) \/ SleepEnds(th)
               \/ Start(th) \/ WaitForLock(th) \/ GetEvents(th)
               \/ \E request \in Requests(th) : Return(th, request)
      PROVE  EventsOK'
  BY <1>6, <1>9
  DEF TakeDue, NothingDue, DeQueue, Sleep, SleepEnds, Start, WaitForLock, GetEvents, Return,
      taskVars, history
<1>10. CASE UNCHANGED vars
  BY <1>6, <1>10 DEF vars, taskVars, history
<1>11. QED
  BY <1>1, <1>2, <1>3, <1>4, <1>5, <1>7, <1>8, <1>9, <1>10 DEF Next, Entry

-----------------------------------------------------------------------------
(* The inductive invariant of the scheduler, and what follows from it.     *)
IInv == TypeOK /\ ThreadsOK /\ OneHolder /\ EventsOK

LEMMA Inductive == Spec => []IInv
<1>1. Init => IInv
  BY InitTypeOK, InitOneHolder DEF IInv, EventsOK, Init
<1>2. IInv /\ [Next]_vars => IInv'
  BY NextTypeOK, NextOneHolder, NextEventsOK DEF IInv
<1>3. QED
  BY <1>1, <1>2, PTL DEF Spec

(* Every variable of the scheduler keeps its type.                         *)
THEOREM TypeCorrect == Spec => []TypeOK
<1>1. IInv => TypeOK
  BY DEF IInv
<1>2. QED
  BY <1>1, Inductive, PTL

(* A task signalled is in exactly one queue, heap, hand or thread, a task  *)
(* at rest in none: Task::Signal, WaitForTask and Entry never duplicate or *)
(* drop one.                                                               *)
THEOREM OneHolderHolds == Spec => []OneHolder
<1>1. IInv => OneHolder
  BY DEF IInv
<1>2. QED
  BY <1>1, Inductive, PTL

(* No two task threads are inside Entry with one task.                     *)
THEOREM RunsAloneHolds == Spec => []RunsAlone
<1>1. IInv => RunsAlone
  <2> SUFFICES ASSUME IInv, NEW th \in Threads, NEW u \in Threads,
                      theTask[th] = theTask[u], th # u, theTask[th] # NoTask
               PROVE  FALSE
    BY DEF RunsAlone
  <2>1. PICK t \in Tasks : t = theTask[th] /\ t = theTask[u]
    BY DEF IInv, TypeOK
  <2>2. /\ Holds("thread", th, t) /\ Holds("thread", u, t)
        /\ "thread" \in Kinds /\ th \in Actors /\ u \in Actors
    BY <2>1 DEF Holds, Kinds, Actors
  <2>3. QED
    BY <2>2 DEF IInv, OneHolder
<1>2. QED
  BY <1>1, Inductive, PTL

(* No event posted by Task::Signal is lost between GetEvents, the timer    *)
(* and the compare_and_store that puts a task to rest.                     *)
THEOREM NoEventLostHolds == Spec => []NoEventLost
<1>1. IInv => NoEventLost
  BY DEF IInv, EventsOK, NoEventLost
<1>2. QED
  BY <1>1, Inductive, PTL

-----------------------------------------------------------------------------
(* ForceSameThread.  From the Return that asked for thread x until the     *)
(* next run, fUseThisThread says x and only x, or a signaller, has the     *)
(* task.                                                                   *)
Owes(t, x) == owed[t].thread = x /\ x # NoThread

OwedThreadOK ==
  \A t \in Tasks, x \in Threads :
    Owes(t, x) =>
      /\ \A k \in Kinds \ {"call"}, y \in Actors : Holds(k, y, t) => y = x
      /\ fUseThisThread[t] = x \/ (theTask[x] = t /\ Running(x))

LEMMA NextOwedThreadOK ==
  ASSUME TypeOK, ThreadsOK, OneHolder, OwedThreadOK, [Next]_vars
  PROVE  OwedThreadOK'
<1> USE DEF Owes
<1>a. Threads \subseteq Actors
  BY DEF Actors
<1>b. NoTask \notin Tasks
  BY SchedulerAssumption
<1>1. ASSUME NEW a \in Actors, NEW t \in Tasks, NEW e \in Events, Signal(a, t, e)
      PROVE  OwedThreadOK'
  <2>1. UNCHANGED <<fUseThisThread, owed, fTaskQueue, fHeap, due, theTask, pc>>
    BY <1>1 DEF Signal, Post, poolVars, threadVars
  <2>2. \A u \in Tasks, k \in Kinds \ {"call"}, y \in Actors : Holds(k, y, u)' <=> Holds(k, y, u)
    BY <2>1 DEF Holds, Kinds
  <2>3. QED
    BY <2>1, <2>2 DEF OwedThreadOK, Running
<1>2. ASSUME NEW a \in Actors, EnQueue(a)
      PROVE  OwedThreadOK'
  <2>0. PICK t \in Tasks : t = call[a]
    BY <1>2 DEF EnQueue, TypeOK
  <2>1. PICK th \in Threads : /\ PutOn(th, t)
                              /\ fUseThisThread[t] # NoThread => th = fUseThisThread[t]
    BY <1>2, <2>0, NextThreadOK DEF EnQueue, TypeOK
  <2>2. /\ UNCHANGED <<fUseThisThread, owed, fHeap, due, theTask>>
        /\ fTaskQueue' = [fTaskQueue EXCEPT ![th] = Append(@, t)]
        /\ \A u \in Threads : Running(u)' <=> Running(u)
    <3>1. \A u \in Threads : pc'[u] = pc[u] \/ (pc[u] = "asleep" /\ pc'[u] = "woken")
      <4>1. CASE pc[th] = "asleep"
        <5>1. pc' = [pc EXCEPT ![th] = "woken"]
          BY <2>1, <4>1 DEF PutOn
        <5>2. QED
          BY <4>1, <5>1 DEF TypeOK
      <4>2. CASE pc[th] # "asleep"
        <5>1. pc' = pc
          BY <2>1, <4>2, Zenon DEF PutOn
        <5>2. QED
          BY <5>1
      <4>3. QED
        BY <4>1, <4>2
    <3>2. \A u \in Threads : Running(u)' <=> Running(u)
      BY <3>1 DEF Running
    <3>3. QED
      BY <1>2, <2>1, <3>2 DEF EnQueue, PutOn, taskVars, history
  <2>3. \A k \in Kinds, x \in Actors : Holds(k, x, t) <=> (k = "call" /\ x = a)
    <3>1. Holds("call", a, t) /\ "call" \in Kinds
      BY <2>0 DEF Holds, Kinds
    <3>2. QED
      BY <3>1, OnlyHolder
  <2>4. /\ Elements(fTaskQueue'[th]) = Elements(fTaskQueue[th]) \union {t}
        /\ \A u \in Threads \ {th} : fTaskQueue'[u] = fTaskQueue[u]
    BY <2>2, AppendElements DEF TypeOK
  <2>5. \A u \in Tasks \ {t}, k \in Kinds \ {"call"}, y \in Actors : Holds(k, y, u)' <=> Holds(k, y, u)
    BY <2>2, <2>4 DEF Holds, Kinds
  <2>6. \A k \in Kinds \ {"call"}, y \in Actors : Holds(k, y, t)' => y = th
    BY <2>2, <2>3, <2>4 DEF Holds, Kinds
  <2>7. ASSUME NEW x \in Threads, Owes(t, x)
        PROVE  th = x
    <3>1. theTask[x] # t
      BY <1>a, <2>3 DEF Holds, Kinds
    <3>2. QED
      BY <2>1, <2>7, <3>1 DEF OwedThreadOK
  <2>8. QED
    BY <2>2, <2>5, <2>6, <2>7 DEF OwedThreadOK
<1>3. ASSUME NEW th \in Threads, NEW t \in Tasks,
             UNCHANGED <<fUseThisThread, owed, call>>,
             \E k \in Kinds \ {"call"} : Holds(k, th, t),
             \A k \in Kinds \ {"call"}, y \in Actors : Holds(k, y, t)' => y = th,
             \A u \in Tasks \ {t}, k \in Kinds \ {"call"}, y \in Actors :
               Holds(k, y, u)' => Holds(k, y, u),
             \A u \in Tasks, x \in Threads :
               (theTask[x] = u /\ Running(x)) => (theTask'[x] = u /\ Running(x)')
      PROVE  OwedThreadOK'
  BY <1>3, <1>a DEF OwedThreadOK
<1>4. ASSUME NEW th \in Threads, TakeDue(th)
      PROVE  OwedThreadOK'
  <2>0. PICK t \in Tasks : t = Head(due[th])
    BY <1>4, TailElements DEF TakeDue, TypeOK, OneHolder
  <2>1. /\ pc[th] = "wait" /\ due[th] # <<>>
        /\ theTask' = [theTask EXCEPT ![th] = t]
        /\ due' = [due EXCEPT ![th] = Tail(@)]
        /\ pc' = [pc EXCEPT ![th] = "start"]
        /\ UNCHANGED <<fUseThisThread, owed, fTaskQueue, fHeap, call>>
    BY <1>4, <2>0 DEF TakeDue, taskVars, history
  <2>2. /\ t \in Elements(due[th])
        /\ Elements(due'[th]) = Elements(due[th]) \ {t}
        /\ \A u \in Threads \ {th} : due'[u] = due[u]
    BY <2>0, <2>1, TailElements DEF TypeOK, OneHolder
  <2>3. Holds("due", th, t) /\ "due" \in Kinds \ {"call"}
    BY <2>2 DEF Holds, Kinds
  <2>4. \A k \in Kinds, x \in Actors : Holds(k, x, t) <=> (k = "due" /\ x = th)
    BY <1>a, <2>3, OnlyHolder
  <2>5. \A k \in Kinds \ {"call"}, y \in Actors : Holds(k, y, t)' => y = th
    BY <2>1, <2>2, <2>4 DEF Holds, Kinds, TypeOK
  <2>6. \A u \in Tasks \ {t}, k \in Kinds \ {"call"}, y \in Actors : Holds(k, y, u)' => Holds(k, y, u)
    BY <2>1, <2>2 DEF Holds, TypeOK
  <2>7. \A u \in Tasks, x \in Threads :
               (theTask[x] = u /\ Running(x)) => (theTask'[x] = u /\ Running(x)')
    BY <2>1 DEF Running, TypeOK
  <2>8. QED
    BY <2>1, <2>3, <2>5, <2>6, <2>7, <1>3
<1>5. ASSUME NEW th \in Threads, DeQueue(th)
      PROVE  OwedThreadOK'
  <2>0. PICK t \in Tasks : t = Head(fTaskQueue[th])
    BY <1>5, TailElements DEF DeQueue, TypeOK, OneHolder
  <2>1. /\ pc[th] \in {"dequeue", "woken"} /\ fTaskQueue[th] # <<>>
        /\ theTask' = [theTask EXCEPT ![th] = t]
        /\ fTaskQueue' = [fTaskQueue EXCEPT ![th] = Tail(@)]
        /\ pc' = [pc EXCEPT ![th] = "start"]
        /\ UNCHANGED <<fUseThisThread, owed, due, fHeap, call>>
    BY <1>5, <2>0 DEF DeQueue, taskVars, history
  <2>2. /\ t \in Elements(fTaskQueue[th])
        /\ Elements(fTaskQueue'[th]) = Elements(fTaskQueue[th]) \ {t}
        /\ \A u \in Threads \ {th} : fTaskQueue'[u] = fTaskQueue[u]
    BY <2>0, <2>1, TailElements DEF TypeOK, OneHolder
  <2>3. Holds("queue", th, t) /\ "queue" \in Kinds \ {"call"}
    BY <2>2 DEF Holds, Kinds
  <2>4. \A k \in Kinds, x \in Actors : Holds(k, x, t) <=> (k = "queue" /\ x = th)
    BY <1>a, <2>3, OnlyHolder
  <2>5. \A k \in Kinds \ {"call"}, y \in Actors : Holds(k, y, t)' => y = th
    BY <2>1, <2>2, <2>4 DEF Holds, Kinds, TypeOK
  <2>6. \A u \in Tasks \ {t}, k \in Kinds \ {"call"}, y \in Actors : Holds(k, y, u)' => Holds(k, y, u)
    BY <2>1, <2>2 DEF Holds, TypeOK
  <2>7. \A u \in Tasks, x \in Threads :
               (theTask[x] = u /\ Running(x)) => (theTask'[x] = u /\ Running(x)')
    BY <2>1 DEF Running, TypeOK
  <2>8. QED
    BY <2>1, <2>3, <2>5, <2>6, <2>7, <1>3
<1>6. ASSUME NEW th \in Threads, NEW t \in Tasks, TimerDue(th, t)
      PROVE  OwedThreadOK'
  <2>1. /\ t \in fHeap[th]
        /\ fHeap' = [fHeap EXCEPT ![th] = @ \ {t}]
        /\ due' = [due EXCEPT ![th] = Append(@, t)]
        /\ UNCHANGED <<fUseThisThread, owed, fTaskQueue, theTask, pc, call>>
    BY <1>6 DEF TimerDue, taskVars, threadVars, history
  <2>2. Holds("heap", th, t) /\ "heap" \in Kinds \ {"call"}
    BY <2>1 DEF Holds, Kinds
  <2>3. \A k \in Kinds, x \in Actors : Holds(k, x, t) <=> (k = "heap" /\ x = th)
    BY <1>a, <2>2, OnlyHolder
  <2>4. /\ Elements(due'[th]) = Elements(due[th]) \union {t}
        /\ \A u \in Threads \ {th} : due'[u] = due[u]
    BY <2>1, AppendElements DEF TypeOK
  <2>5. \A k \in Kinds \ {"call"}, y \in Actors : Holds(k, y, t)' => y = th
    BY <2>1, <2>3, <2>4 DEF Holds, Kinds, TypeOK
  <2>6. \A u \in Tasks \ {t}, k \in Kinds \ {"call"}, y \in Actors : Holds(k, y, u)' => Holds(k, y, u)
    BY <2>1, <2>4 DEF Holds, TypeOK
  <2>7. QED
    BY <2>1, <2>2, <2>5, <2>6, <1>3 DEF Running
<1>7. ASSUME NEW th \in Threads, Start(th)
      PROVE  OwedThreadOK'
  <2>0. PICK t \in Tasks : t = theTask[th]
    BY <1>7 DEF Start, ThreadsOK, Busy, TypeOK
  <2>1. /\ fUseThisThread' = [fUseThisThread EXCEPT ![t] = NoThread]
        /\ pc[th] = "start" /\ pc' = [pc EXCEPT ![th] = "lock"]
        /\ UNCHANGED <<owed, fTaskQueue, fHeap, due, theTask, call>>
    BY <1>7, <2>0 DEF Start, poolVars, history
  <2>2. \A u \in Tasks, k \in Kinds, y \in Actors : Holds(k, y, u)' <=> Holds(k, y, u)
    BY <2>1 DEF Holds
  <2>3. Holds("thread", th, t) /\ "thread" \in Kinds \ {"call"}
    BY <2>0 DEF Holds, Kinds
  <2>4. \A x \in Threads : Owes(t, x) => x = th
    BY <1>a, <2>3 DEF OwedThreadOK
  <2>5. Running(th)' /\ \A x \in Threads : Running(x) => Running(x)'
    BY <2>1 DEF Running, TypeOK
  <2>6. QED
    <3>1. \A u \in Tasks \ {t} : fUseThisThread'[u] = fUseThisThread[u]
      BY <2>1 DEF TypeOK
    <3>2. \A x \in Threads : Owes(t, x) => theTask'[x] = t /\ Running(x)'
      BY <2>0, <2>1, <2>4, <2>5
    <3>3. QED
      BY <2>1, <2>2, <2>5, <3>1, <3>2 DEF OwedThreadOK
<1>8. ASSUME NEW th \in Threads, NEW request \in Requests(th), Return(th, request)
      PROVE  OwedThreadOK'
  <2>0. PICK t \in Tasks : t = theTask[th]
    BY <1>8 DEF Return, ThreadsOK, Busy, TypeOK
  <2>1. /\ fUseThisThread' = [fUseThisThread EXCEPT ![t] = IF request.same THEN th ELSE @]
        /\ owed' = [owed EXCEPT ![t] = [thread |-> IF request.same THEN th ELSE NoThread,
                                        locked |-> request.locked]]
        /\ pc' = [pc EXCEPT ![th] = "done"]
        /\ UNCHANGED <<fTaskQueue, fHeap, due, theTask, call>>
    BY <1>8, <2>0 DEF Return, poolVars
  <2>2. \A u \in Tasks, k \in Kinds, y \in Actors : Holds(k, y, u)' <=> Holds(k, y, u)
    BY <2>1 DEF Holds
  <2>3. \A k \in Kinds, y \in Actors : Holds(k, y, t) <=> (k = "thread" /\ y = th)
    <3>1. Holds("thread", th, t) /\ "thread" \in Kinds
      BY <2>0 DEF Holds, Kinds
    <3>2. QED
      BY <1>a, <3>1, OnlyHolder
  <2>4. \A x \in Threads : Owes(t, x)' => x = th /\ fUseThisThread'[t] = x
    BY <2>1 DEF TypeOK
  <2>5. \A u \in Tasks \ {t}, x \in Threads :
          (theTask[x] = u /\ Running(x)) => (theTask'[x] = u /\ Running(x)')
    BY <2>0, <2>1 DEF Running, TypeOK
  <2>6. \A u \in Tasks \ {t} : owed'[u] = owed[u] /\ fUseThisThread'[u] = fUseThisThread[u]
    BY <2>1 DEF TypeOK
  <2>7. QED
    BY <2>2, <2>3, <2>4, <2>5, <2>6 DEF OwedThreadOK
<1>9. ASSUME NEW th \in Threads, Delete(th) \/ Rest(th) \/ SetTimer(th)
      PROVE  OwedThreadOK'
  <2>0. PICK t \in Tasks : t = theTask[th]
    BY <1>9 DEF Delete, Rest, SetTimer, ThreadsOK, Busy, TypeOK
  <2>1. Holds("thread", th, t) /\ "thread" \in Kinds \ {"call"}
    BY <2>0 DEF Holds, Kinds
  <2>2. /\ pc[th] = "done" /\ pc' = [pc EXCEPT ![th] = pc'[th]]
        /\ theTask' = [theTask EXCEPT ![th] = theTask'[th]] /\ theTask'[th] \in {t, NoTask}
        /\ fHeap' = [fHeap EXCEPT ![th] = fHeap'[th]] /\ fHeap'[th] \in {fHeap[th], fHeap[th] \union {t}}
        /\ UNCHANGED <<fUseThisThread, owed, fTaskQueue, due, call>>
    <3>1. CASE Delete(th)
      BY <2>0, <3>1 DEF Delete, poolVars, history, TypeOK
    <3>2. CASE Rest(th)
      <4>1. CASE fEvents[t] = {kAlive}
        <5>1. /\ pc[th] = "done" /\ pc' = [pc EXCEPT ![th] = "wait"]
              /\ theTask' = [theTask EXCEPT ![th] = NoTask]
              /\ UNCHANGED <<fUseThisThread, poolVars, call, history>>
          BY <2>0, <3>2, <4>1, Zenon DEF Rest
        <5>2. QED
          BY <5>1 DEF poolVars, history, TypeOK
      <4>2. CASE fEvents[t] # {kAlive}
        <5>1. /\ pc[th] = "done" /\ pc' = [pc EXCEPT ![th] = "start"]
              /\ UNCHANGED <<theTask, fUseThisThread, poolVars, call, history>>
          BY <2>0, <3>2, <4>2 DEF Rest
        <5>2. QED
          BY <2>0, <5>1 DEF poolVars, history, TypeOK
      <4>3. QED
        BY <4>1, <4>2
    <3>3. CASE SetTimer(th)
      BY <2>0, <3>3 DEF SetTimer, history, TypeOK
    <3>4. QED
      BY <1>9, <3>1, <3>2, <3>3
  <2>3. \A k \in Kinds, x \in Actors : Holds(k, x, t) <=> (k = "thread" /\ x = th)
    BY <1>a, <2>1, OnlyHolder
  <2>4. \A k \in Kinds \ {"call"}, y \in Actors : Holds(k, y, t)' => y = th
    BY <2>2, <2>3 DEF Holds, Kinds, TypeOK
  <2>5. \A u \in Tasks \ {t}, k \in Kinds \ {"call"}, y \in Actors : Holds(k, y, u)' => Holds(k, y, u)
    <3>1. \A y \in Threads, u \in Tasks \ {t} :
            /\ u \in fHeap'[y] => u \in fHeap[y]
            /\ theTask'[y] = u => theTask[y] = u
      BY <1>b, <2>2 DEF TypeOK
    <3>2. QED
      BY <2>2, <3>1 DEF Holds, Kinds
  <2>6. \A u \in Tasks, x \in Threads :
               (theTask[x] = u /\ Running(x)) => (theTask'[x] = u /\ Running(x)')
    BY <2>2 DEF Running, TypeOK
  <2>7. QED
    BY <2>1, <2>2, <2>4, <2>5, <2>6, <1>3
<1>10. ASSUME UNCHANGED <<fUseThisThread, owed, fTaskQueue, fHeap, due, theTask>>,
              \A x \in Threads : Running(x)' <=> Running(x)
       PROVE  OwedThreadOK'
  <2>1. \A u \in Tasks, k \in Kinds \ {"call"}, y \in Actors : Holds(k, y, u)' <=> Holds(k, y, u)
    BY <1>10 DEF Holds, Kinds
  <2>2. QED
    BY <1>10, <2>1 DEF OwedThreadOK
<1>11. ASSUME NEW th \in Threads,
              NothingDue(th) \/ Sleep(th) \/ SleepEnds(th) \/ WaitForLock(th)
                \/ GetEvents(th) \/ SubtractEvents(th)
       PROVE  OwedThreadOK'
  <2>1. UNCHANGED <<fUseThisThread, owed, fTaskQueue, fHeap, due, theTask>>
    BY <1>11
    DEF NothingDue, Sleep, SleepEnds, WaitForLock, GetEvents, SubtractEvents,
        taskVars, poolVars, threadVars, history
  <2>2. \A x \in Threads : Running(x)' <=> Running(x)
    BY <1>11
    DEF NothingDue, Sleep, SleepEnds, WaitForLock, GetEvents, SubtractEvents,
        threadVars, Running, TypeOK
  <2>3. QED
    BY <1>10, <2>1, <2>2
<1>12. CASE UNCHANGED vars
  BY <1>10, <1>12 DEF vars, taskVars, poolVars, threadVars, history, Running
<1>13. QED
  BY <1>1, <1>2, <1>4, <1>5, <1>6, <1>7, <1>8, <1>9, <1>11, <1>12 DEF Next, Entry

(* A task that returned after ForceSameThread() is run next by the thread  *)
(* it asked for.                                                           *)
THEOREM SameThreadHolds == Spec => []SameThread
<1>1. Init => OwedThreadOK
  BY DEF Init, OwedThreadOK, Owes
<1>2. IInv /\ OwedThreadOK /\ [Next]_vars => OwedThreadOK'
  BY NextOwedThreadOK DEF IInv
<1>3. IInv /\ OwedThreadOK => SameThread
  <2> SUFFICES ASSUME IInv, OwedThreadOK, NEW th \in Threads, Running(th)
               PROVE  owed[theTask[th]].thread \in {NoThread, th}
    BY DEF SameThread
  <2>1. PICK t \in Tasks : t = theTask[th]
    BY DEF Running, IInv, TypeOK, ThreadsOK, Busy
  <2>2. owed[t].thread \in Threads \union {NoThread}
    BY DEF IInv, TypeOK
  <2>3. Holds("thread", th, t) /\ "thread" \in Kinds \ {"call"} /\ th \in Actors
    BY <2>1 DEF Holds, Kinds, Actors
  <2>4. QED
    BY <2>1, <2>2, <2>3 DEF OwedThreadOK, Owes
<1>4. QED
  BY <1>1, <1>2, <1>3, Inductive, PTL DEF Spec
-----------------------------------------------------------------------------
(* A thread is woken by whoever puts a task on its queue.                  *)
LEMMA NextNoSleep ==
  ASSUME TypeOK, ThreadsOK, NoSleepOverWork, [Next]_vars
  PROVE  NoSleepOverWork'
<1>1. ASSUME NEW a \in Actors, EnQueue(a)
      PROVE  NoSleepOverWork'
  <2>1. PICK th \in Threads : PutOn(th, call[a])
    BY <1>1, NextThreadOK DEF EnQueue, TypeOK
  <2>2. \A u \in Threads \ {th} : fTaskQueue'[u] = fTaskQueue[u]
    BY <2>1 DEF PutOn, TypeOK
  <2>3. CASE pc[th] = "asleep"
    <3>1. pc' = [pc EXCEPT ![th] = "woken"]
      BY <2>1, <2>3 DEF PutOn
    <3>2. QED
      BY <2>2, <3>1 DEF NoSleepOverWork, TypeOK
  <2>4. CASE pc[th] # "asleep"
    <3>1. pc' = pc
      BY <2>1, <2>4, Zenon DEF PutOn
    <3>2. QED
      BY <2>2, <2>4, <3>1 DEF NoSleepOverWork
  <2>5. QED
    BY <2>3, <2>4
<1>2. ASSUME NEW th \in Threads, DeQueue(th)
      PROVE  NoSleepOverWork'
  BY <1>2 DEF DeQueue, NoSleepOverWork, TypeOK
<1>3. ASSUME NEW th \in Threads, Sleep(th)
      PROVE  NoSleepOverWork'
  BY <1>3 DEF Sleep, NoSleepOverWork, TypeOK, poolVars
<1>4. ASSUME UNCHANGED fTaskQueue, \A th \in Threads : pc'[th] = "asleep" => pc[th] = "asleep"
      PROVE  NoSleepOverWork'
  BY <1>4 DEF NoSleepOverWork
<1>5. ASSUME NEW a \in Actors, NEW t \in Tasks, NEW e \in Events, Signal(a, t, e)
      PROVE  NoSleepOverWork'
  BY <1>4, <1>5 DEF Signal, Post, poolVars, threadVars
<1>6. ASSUME NEW th \in Threads, NEW t \in Tasks, TimerDue(th, t)
      PROVE  NoSleepOverWork'
  BY <1>4, <1>6 DEF TimerDue, threadVars
<1>7. ASSUME NEW th \in Threads,
             TakeDue(th) \/ NothingDue(th) \/ SleepEnds(th) \/ Start(th) \/ WaitForLock(th)
               \/ GetEvents(th) \/ SubtractEvents(th)
               \/ \E request \in Requests(th) : Return(th, request)
      PROVE  NoSleepOverWork'
  BY <1>4, <1>7
  DEF TakeDue, NothingDue, SleepEnds, Start, WaitForLock, GetEvents, SubtractEvents, Return,
      poolVars, threadVars, TypeOK
<1>8. ASSUME NEW th \in Threads, Delete(th) \/ Rest(th) \/ SetTimer(th)
      PROVE  NoSleepOverWork'
  <2>1. UNCHANGED fTaskQueue
    BY <1>8 DEF Delete, Rest, SetTimer, poolVars
  <2>2. \E place \in {"wait", "start"} : pc' = [pc EXCEPT ![th] = place]
    <3>1. CASE Rest(th)
      <4>1. CASE fEvents[theTask[th]] = {kAlive}
        BY <3>1, <4>1, Zenon DEF Rest
      <4>2. CASE fEvents[theTask[th]] # {kAlive}
        BY <3>1, <4>2, Zenon DEF Rest
      <4>3. QED
        BY <4>1, <4>2
    <3>2. QED
      BY <1>8, <3>1 DEF Delete, SetTimer
  <2>3. QED
    BY <1>4, <2>1, <2>2 DEF TypeOK
<1>9. CASE UNCHANGED vars
  BY <1>4, <1>9 DEF vars, poolVars, threadVars
<1>10. QED
  BY <1>1, <1>2, <1>3, <1>5, <1>6, <1>7, <1>8, <1>9 DEF Next, Entry

(* No thread sleeps in DeQueueBlocking while its queue has a task          *)
(* (OSQueue_Blocking::EnQueue, DeQueueBlocking).                           *)
THEOREM NoSleepHolds == Spec => []NoSleepOverWork
<1>1. Init => NoSleepOverWork
  BY DEF Init, NoSleepOverWork
<1>2. IInv /\ NoSleepOverWork /\ [Next]_vars => NoSleepOverWork'
  BY NextNoSleep DEF IInv
<1>3. QED
  BY <1>1, <1>2, Inductive, PTL DEF Spec

-----------------------------------------------------------------------------
(* The global lock.  A thread is in it from Start to Return, on the        *)
(* writers' side exactly when its task has fWriteLock, which only a task   *)
(* of Lockers ever has.                                                    *)
Lock == INSTANCE OSMutexRW_proofs WITH Writers <- Threads

OneLocker == \A s, t \in Lockers : s = t

LockPlaces ==
  /\ Lock!Places_OK
  /\ \A t \in Tasks : fWriteLock[t] => t \in Lockers
  /\ \A th \in Threads :
       /\ Running(th) <=> at[th] # "out"
       /\ pc[th] \in {"sub", "body"} => at[th] \in {"read", "write"}
       /\ Running(th) => (fWriteLock[theTask[th]] <=> Lock!AsksForExclusion(th))

(* The methods of the instance, as the two modules name them.              *)
LEMMA SameLock ==
  ASSUME NEW th \in Threads
  PROVE  /\ sMutexRW!LockRead(th) <=> Lock!LockRead(th)
         /\ sMutexRW!LockWrite(th) <=> Lock!LockWrite(th)
         /\ sMutexRW!Resume(th) <=> Lock!Resume(th)
         /\ sMutexRW!WaitEnds(th) <=> Lock!WaitEnds(th)
         /\ sMutexRW!Unlock(th) <=> Lock!Unlock(th)
<1> USE DEF sMutexRW!ActiveWriter, Lock!ActiveWriter, sMutexRW!WaitingWriters,
            Lock!WaitingWriters, sMutexRW!ActiveReaders, Lock!ActiveReaders,
            sMutexRW!eNoWriterState, Lock!eNoWriterState,
            sMutexRW!eActiveWriterState, Lock!eActiveWriterState,
            sMutexRW!Sleepers, Lock!Sleepers
<1>1. sMutexRW!LockRead(th) <=> Lock!LockRead(th)
  BY DEF sMutexRW!LockRead, Lock!LockRead, sMutexRW!LockReadNow, Lock!LockReadNow,
         sMutexRW!LockReadWait, Lock!LockReadWait
<1>2. sMutexRW!LockWrite(th) <=> Lock!LockWrite(th)
  BY DEF sMutexRW!LockWrite, Lock!LockWrite, sMutexRW!LockWriteNow, Lock!LockWriteNow,
         sMutexRW!LockWriteWait, Lock!LockWriteWait
<1>3. sMutexRW!Resume(th) <=> Lock!Resume(th)
  BY DEF sMutexRW!Resume, Lock!Resume, sMutexRW!LockReadResume, Lock!LockReadResume,
         sMutexRW!LockWriteResume, Lock!LockWriteResume
<1>4. sMutexRW!WaitEnds(th) <=> Lock!WaitEnds(th)
  BY DEF sMutexRW!WaitEnds, Lock!WaitEnds
<1>5. sMutexRW!Unlock(th) <=> Lock!Unlock(th)
  BY DEF sMutexRW!Unlock, Lock!Unlock, sMutexRW!UnlockWriter, Lock!UnlockWriter,
         sMutexRW!UnlockReader, Lock!UnlockReader, sMutexRW!SignalOneWriter,
         Lock!SignalOneWriter, sMutexRW!BroadcastReaders, Lock!BroadcastReaders
<1>6. QED
  BY <1>1, <1>2, <1>3, <1>4, <1>5

LEMMA LockThreads == Lock!IsFiniteSet(Threads)
<1>1. IsFiniteSet(Threads)
  BY SchedulerAssumption, FS_Interval DEF Threads
<1>2. QED
  BY <1>1 DEF Lock!IsFiniteSet, IsFiniteSet

(* A step of the scheduler is a step of one thread in the lock, or none.   *)
LEMMA LockSteps ==
  ASSUME [Next]_vars
  PROVE  (\E th \in Threads : Lock!Step(th)) \/ UNCHANGED lockVars
<1>1. ASSUME NEW th \in Threads, Entry(th)
      PROVE  Lock!Step(th) \/ UNCHANGED lockVars
  <2>1. CASE Start(th)
    BY <2>1, SameLock DEF Start, Lock!Step
  <2>2. CASE WaitForLock(th)
    BY <2>2, SameLock DEF WaitForLock, Lock!Step
  <2>3. ASSUME NEW request \in Requests(th), Return(th, request)
        PROVE  Lock!Step(th)
    BY <2>3, SameLock DEF Return, Lock!Step
  <2>4. QED
    BY <1>1, <2>1, <2>2, <2>3
    DEF Entry, TakeDue, NothingDue, DeQueue, Sleep, SleepEnds, GetEvents, SubtractEvents,
        Delete, Rest, SetTimer
<1>2. QED
  BY <1>1 DEF Next, Signal, Post, EnQueue, TimerDue, vars

LEMMA NextLockPlaces ==
  ASSUME TypeOK, ThreadsOK, OneHolder, LockPlaces, [Next]_vars
  PROVE  LockPlaces'
<1> USE DEF Lock!Places_OK, Lock!Places, Lock!AsksForExclusion, Running
<1>a. \A th, u \in Threads : th # u /\ theTask[th] # NoTask => theTask[u] # theTask[th]
  <2>1. ASSUME NEW th \in Threads, NEW u \in Threads, th # u, theTask[th] # NoTask,
               theTask[u] = theTask[th]
        PROVE  FALSE
    <3>1. /\ theTask[th] \in Tasks
          /\ Holds("thread", th, theTask[th]) /\ Holds("thread", u, theTask[th])
          /\ "thread" \in Kinds /\ th \in Actors /\ u \in Actors
      BY <2>1 DEF Holds, Kinds, Actors, TypeOK
    <3>2. QED
      BY <2>1, <3>1 DEF OneHolder
  <2>2. QED
    BY <2>1
<1>b. \A th \in Threads : Running(th) => theTask[th] \in Tasks /\ theTask[th] # NoTask
  BY SchedulerAssumption DEF ThreadsOK, Busy, TypeOK
<1>1. ASSUME NEW th \in Threads, Start(th)
      PROVE  LockPlaces'
  <2>1. theTask[th] \in Tasks
    BY <1>1 DEF Start, ThreadsOK, Busy, TypeOK
  <2>2. CASE fWriteLock[theTask[th]]
    <3>1. \E place \in {"write", "waitWrite"} : at' = [at EXCEPT ![th] = place]
      BY <1>1, <2>2, SameLock
      DEF Start, Lock!LockWrite, Lock!LockWriteNow, Lock!LockWriteWait
    <3>2. QED
      BY <1>1, <2>1, <2>2, <3>1 DEF Start, LockPlaces, TypeOK
  <2>3. CASE ~fWriteLock[theTask[th]]
    <3>1. \E place \in {"read", "waitRead"} : at' = [at EXCEPT ![th] = place]
      BY <1>1, <2>3, SameLock
      DEF Start, Lock!LockRead, Lock!LockReadNow, Lock!LockReadWait
    <3>2. QED
      BY <1>1, <2>1, <2>3, <3>1 DEF Start, LockPlaces, TypeOK
  <2>4. QED
    BY <2>2, <2>3
<1>2. ASSUME NEW th \in Threads, WaitForLock(th)
      PROVE  LockPlaces'
  <2>1. /\ at' \in [Threads -> Lock!Places]
        /\ \A u \in Threads :
             \/ at'[u] = at[u]
             \/ /\ at[u] \in {"waitRead", "wokenRead"}
                /\ at'[u] \in {"waitRead", "wokenRead", "read"}
             \/ /\ at[u] \in {"waitWrite", "wokenWrite"}
                /\ at'[u] \in {"waitWrite", "wokenWrite", "write"}
    BY <1>2, SameLock
    DEF WaitForLock, Lock!Resume, Lock!LockReadResume, Lock!LockWriteResume, Lock!WaitEnds,
        LockPlaces
  <2>2. QED
    BY <1>2, <2>1 DEF WaitForLock, LockPlaces, taskVars, threadVars
<1>3. ASSUME NEW th \in Threads, NEW request \in Requests(th), Return(th, request)
      PROVE  LockPlaces'
  <2>1. /\ at' \in [Threads -> Lock!Places]
        /\ at'[th] = "out"
        /\ \A u \in Threads \ {th} :
             \/ at'[u] = at[u]
             \/ at[u] = "waitRead"  /\ at'[u] = "wokenRead"
             \/ at[u] = "waitWrite" /\ at'[u] = "wokenWrite"
    <3>1. Lock!Places_OK /\ Lock!Unlock(th)
      BY <1>3, SameLock DEF Return, LockPlaces
    <3>2. QED
      BY <3>1, LockThreads, Lock!UnlockMoves
  <2>2. /\ pc[th] = "body" /\ pc' = [pc EXCEPT ![th] = "done"]
        /\ theTask' = theTask
        /\ fWriteLock' = [fWriteLock EXCEPT ![theTask[th]] = LockFlag(th, request)]
    BY <1>3 DEF Return
  <2>3. \A t \in Tasks : fWriteLock'[t] => t \in Lockers
    <3>1. LockFlag(th, request) => theTask[th] \in Lockers
      BY SchedulerAssumption DEF Requests, LockFlag, MayAskForLock
    <3>2. QED
      BY <2>2, <3>1 DEF LockPlaces, TypeOK
  <2>4. \A u \in Threads \ {th} : Running(u) => fWriteLock'[theTask[u]] = fWriteLock[theTask[u]]
    BY <1>a, <1>b, <2>2 DEF TypeOK
  <2>5. \A u \in Threads : u # th => Lock!AsksForExclusion(u)' = Lock!AsksForExclusion(u)
    BY <2>1
  <2>6. \A u \in Threads : /\ Running(u)' <=> at'[u] # "out"
                           /\ pc'[u] \in {"sub", "body"} => at'[u] \in {"read", "write"}
    <3>1. \A u \in Threads : pc'[u] = IF u = th THEN "done" ELSE pc[u]
      BY <2>2 DEF TypeOK
    <3>2. \A u \in Threads : u # th => (at'[u] # "out" <=> at[u] # "out")
      BY <2>1
    <3>3. \A u \in Threads : u # th /\ at[u] \in {"read", "write"} => at'[u] \in {"read", "write"}
      BY <2>1
    <3>4. QED
      BY <2>1, <3>1, <3>2, <3>3 DEF LockPlaces
  <2>7. \A u \in Threads : Running(u)' =>
          (fWriteLock'[theTask'[u]] <=> Lock!AsksForExclusion(u)')
    <3>1. ASSUME NEW u \in Threads, Running(u)'
          PROVE  u # th /\ Running(u)
      BY <2>2, <3>1 DEF TypeOK
    <3>2. QED
      BY <2>2, <2>4, <2>5, <3>1 DEF LockPlaces
  <2>8. QED
    BY <2>1, <2>3, <2>6, <2>7 DEF LockPlaces
<1>4. ASSUME UNCHANGED <<at, fWriteLock>>, \A th \in Threads : Running(th)' <=> Running(th),
             \A th \in Threads : Running(th) => theTask'[th] = theTask[th],
             \A th \in Threads : pc'[th] \in {"sub", "body"} =>
                                   pc[th] \in {"sub", "body"} \/ at[th] \in {"read", "write"}
      PROVE  LockPlaces'
  BY <1>4 DEF LockPlaces
<1>5. ASSUME NEW a \in Actors, EnQueue(a)
      PROVE  LockPlaces'
  <2>1. PICK th \in Threads : PutOn(th, call[a])
    BY <1>5, NextThreadOK DEF EnQueue, TypeOK
  <2>2. \A u \in Threads : pc'[u] = pc[u] \/ (pc[u] = "asleep" /\ pc'[u] = "woken")
    <3>1. CASE pc[th] = "asleep"
      <4>1. pc' = [pc EXCEPT ![th] = "woken"]
        BY <2>1, <3>1 DEF PutOn
      <4>2. QED
        BY <3>1, <4>1 DEF TypeOK
    <3>2. CASE pc[th] # "asleep"
      <4>1. pc' = pc
        BY <2>1, <3>2, Zenon DEF PutOn
      <4>2. QED
        BY <4>1
    <3>3. QED
      BY <3>1, <3>2
  <2>3. UNCHANGED <<at, fWriteLock, theTask>>
    BY <1>5 DEF EnQueue, taskVars, lockVars
  <2>4. QED
    BY <1>4, <2>2, <2>3
<1>6. ASSUME NEW a \in Actors, NEW t \in Tasks, NEW e \in Events, Signal(a, t, e)
      PROVE  LockPlaces'
  BY <1>4, <1>6 DEF Signal, Post, threadVars, lockVars
<1>7. ASSUME NEW th \in Threads, NEW t \in Tasks, TimerDue(th, t)
      PROVE  LockPlaces'
  BY <1>4, <1>7 DEF TimerDue, taskVars, threadVars, lockVars
<1>8. ASSUME NEW th \in Threads,
             TakeDue(th) \/ NothingDue(th) \/ DeQueue(th) \/ Sleep(th) \/ SleepEnds(th)
               \/ GetEvents(th) \/ SubtractEvents(th)
      PROVE  LockPlaces'
  <2>1. UNCHANGED <<at, fWriteLock>>
    BY <1>8
    DEF TakeDue, NothingDue, DeQueue, Sleep, SleepEnds, GetEvents, SubtractEvents,
        taskVars, lockVars
  <2>2. \A u \in Threads : Running(u) => theTask'[u] = theTask[u]
    BY <1>8
    DEF TakeDue, NothingDue, DeQueue, Sleep, SleepEnds, GetEvents, SubtractEvents, TypeOK
  <2>3. /\ \A u \in Threads : Running(u)' <=> Running(u)
        /\ \A u \in Threads : pc'[u] \in {"sub", "body"} =>
                                pc[u] \in {"sub", "body"} \/ at[u] \in {"read", "write"}
    BY <1>8
    DEF TakeDue, NothingDue, DeQueue, Sleep, SleepEnds, GetEvents, SubtractEvents, TypeOK
  <2>4. QED
    BY <1>4, <2>1, <2>2, <2>3
<1>9. ASSUME NEW th \in Threads, Delete(th) \/ Rest(th) \/ SetTimer(th)
      PROVE  LockPlaces'
  <2>1. UNCHANGED <<at, fWriteLock>>
    BY <1>9 DEF Delete, Rest, SetTimer, lockVars
  <2>2. /\ pc[th] = "done"
        /\ \E place \in {"wait", "start"} : pc' = [pc EXCEPT ![th] = place]
        /\ \A u \in Threads \ {th} : theTask'[u] = theTask[u]
    <3>1. CASE Rest(th)
      <4>1. CASE fEvents[theTask[th]] = {kAlive}
        <5>1. /\ pc[th] = "done" /\ pc' = [pc EXCEPT ![th] = "wait"]
              /\ theTask' = [theTask EXCEPT ![th] = NoTask]
          BY <3>1, <4>1, Zenon DEF Rest
        <5>2. QED
          BY <5>1 DEF TypeOK
      <4>2. CASE fEvents[theTask[th]] # {kAlive}
        <5>1. pc[th] = "done" /\ pc' = [pc EXCEPT ![th] = "start"] /\ theTask' = theTask
          BY <3>1, <4>2, Zenon DEF Rest
        <5>2. QED
          BY <5>1
      <4>3. QED
        BY <4>1, <4>2
    <3>2. QED
      BY <1>9, <3>1 DEF Delete, SetTimer, TypeOK
  <2>3. QED
    BY <1>4, <2>1, <2>2 DEF TypeOK
<1>10. CASE UNCHANGED vars
  BY <1>4, <1>10 DEF vars, taskVars, threadVars, lockVars
<1>11. QED
  BY <1>1, <1>2, <1>3, <1>5, <1>6, <1>7, <1>8, <1>9, <1>10 DEF Next, Entry

LEMMA LockPlacesHold == Spec => []LockPlaces
<1>1. Init => LockPlaces
  BY DEF Init, sMutexRW!Init, LockPlaces, Lock!Places_OK, Lock!Places, Running
<1>2. IInv /\ LockPlaces /\ [Next]_vars => LockPlaces'
  BY NextLockPlaces DEF IInv
<1>3. QED
  BY <1>1, <1>2, Inductive, PTL DEF Spec

(* A task that returned CallLocked() is run next under the write lock,     *)
(* unless a locked run may ask again (Task.cpp:125 clears the flag after   *)
(* the run).                                                               *)
OwedLockOK == \A t \in Tasks : owed[t].locked => fWriteLock[t]

LEMMA NextOwedLockOK ==
  ASSUME Relockers = {}, TypeOK, ThreadsOK, LockPlaces, OwedLockOK, [Next]_vars
  PROVE  OwedLockOK'
<1>1. ASSUME NEW th \in Threads, NEW request \in Requests(th), Return(th, request)
      PROVE  OwedLockOK'
  <2>1. theTask[th] \in Tasks
    BY <1>1 DEF Return, ThreadsOK, Busy, TypeOK
  <2>2. /\ fWriteLock' = [fWriteLock EXCEPT ![theTask[th]] = LockFlag(th, request)]
        /\ \A t \in Tasks \ {theTask[th]} : owed'[t] = owed[t]
        /\ owed'[theTask[th]].locked = request.locked
    BY <1>1, <2>1 DEF Return, TypeOK
  <2>3. request.locked => LockFlag(th, request)
    BY DEF Requests, MayAskForLock, LockFlag
  <2>4. QED
    BY <2>1, <2>2, <2>3 DEF OwedLockOK, TypeOK
<1>2. ASSUME UNCHANGED <<owed, fWriteLock>>
      PROVE  OwedLockOK'
  BY <1>2 DEF OwedLockOK
<1>3. ASSUME NEW th \in Threads, Entry(th), ~\E request \in Requests(th) : Return(th, request)
      PROVE  UNCHANGED <<owed, fWriteLock>>
  BY <1>3
  DEF Entry, TakeDue, NothingDue, DeQueue, Sleep, SleepEnds, Start, WaitForLock, GetEvents,
      SubtractEvents, Delete, Rest, SetTimer, taskVars, history
<1>4. QED
  BY <1>1, <1>2, <1>3
  DEF Next, Signal, Post, EnQueue, TimerDue, vars, taskVars, history

THEOREM LockHonouredHolds == ASSUME Relockers = {} PROVE Spec => []LockHonoured
<1>1. Init => OwedLockOK
  BY DEF Init, OwedLockOK
<1>2. IInv /\ LockPlaces /\ OwedLockOK /\ [Next]_vars => OwedLockOK'
  BY NextOwedLockOK DEF IInv
<1>3. IInv /\ LockPlaces /\ OwedLockOK => LockHonoured
  <2> SUFFICES ASSUME IInv, LockPlaces, OwedLockOK, NEW th \in Threads,
                      Running(th), owed[theTask[th]].locked
               PROVE  at[th] \in {"waitWrite", "wokenWrite", "write"}
    BY DEF LockHonoured
  <2>1. theTask[th] \in Tasks
    BY DEF Running, IInv, TypeOK, ThreadsOK, Busy
  <2>2. QED
    BY <2>1 DEF LockPlaces, OwedLockOK, Lock!AsksForExclusion
<1>4. QED
  BY <1>1, <1>2, <1>3, Inductive, LockPlacesHold, PTL DEF Spec

(* With one task that asks for the global lock, the scheduler keeps the    *)
(* assumption of OSMutexRW_proofs: one thread at a time asks.  So the lock *)
(* excludes, counts exactly and loses no wakeup as it is used here.        *)
LEMMA OneThreadAsks ==
  ASSUME OneLocker, IInv, LockPlaces
  PROVE  Lock!OneAsks
<1> SUFFICES ASSUME NEW th \in Threads, NEW u \in Threads,
                    Lock!AsksForExclusion(th), Lock!AsksForExclusion(u), th # u
             PROVE  FALSE
  BY DEF Lock!OneAsks
<1>1. Running(th) /\ Running(u)
  BY DEF LockPlaces, Lock!AsksForExclusion
<1>2. theTask[th] \in Tasks /\ theTask[u] \in Tasks
  BY <1>1 DEF Running, IInv, TypeOK, ThreadsOK, Busy
<1>3. theTask[th] = theTask[u]
  BY <1>1, <1>2 DEF LockPlaces, OneLocker
<1>4. /\ Holds("thread", th, theTask[th]) /\ Holds("thread", u, theTask[th])
      /\ "thread" \in Kinds /\ th \in Actors /\ u \in Actors
  BY <1>3 DEF Holds, Kinds, Actors
<1>5. QED
  BY <1>2, <1>4 DEF IInv, OneHolder

LEMMA OneAsksHolds == ASSUME OneLocker PROVE Spec => []Lock!OneAsks
<1>1. IInv /\ LockPlaces => Lock!OneAsks
  BY OneThreadAsks
<1>2. QED
  BY <1>1, Inductive, LockPlacesHold, PTL

LEMMA LockInvHolds ==
  ASSUME OneLocker PROVE Spec => [](Lock!LockInv /\ Lock!NoLostWakeup)
<1>1. Init => Lock!LockInv /\ Lock!NoLostWakeup
  <2> SUFFICES ASSUME Init PROVE Lock!LockInv /\ Lock!NoLostWakeup
    OBVIOUS
  <2>1. Lock!Init
    BY DEF Init, sMutexRW!Init, Lock!Init, sMutexRW!eNoWriterState, Lock!eNoWriterState
  <2>2. Lock!LockInv
    BY <2>1, LockThreads, Lock!InitIInv DEF Lock!IInv
  <2>3. QED
    BY <2>1, <2>2 DEF Lock!Init, Lock!NoLostWakeup, Lock!Sleepers
<1>2. ASSUME IInv, Lock!OneAsks', LockPlaces, Lock!LockInv, Lock!NoLostWakeup, [Next]_vars
      PROVE  Lock!LockInv' /\ Lock!NoLostWakeup'
  <2>1. (\E th \in Threads : Lock!Step(th)) \/ UNCHANGED Lock!lockVars
    BY <1>2, LockSteps DEF lockVars, Lock!lockVars
  <2>2. Lock!LockInv'
    BY <1>2, <2>1, LockThreads, Lock!StepKeeps
  <2>3. QED
    BY <1>2, <2>1, <2>2, LockThreads, Lock!NextNoLostWakeup
<1>3. IInv /\ Lock!OneAsks' /\ LockPlaces /\ (Lock!LockInv /\ Lock!NoLostWakeup)
        /\ [Next]_vars => (Lock!LockInv /\ Lock!NoLostWakeup)'
  BY <1>2
<1>4. QED
  BY <1>1, <1>3, Inductive, LockPlacesHold, OneAsksHolds, PTL DEF Spec

(* No other task is inside Run() beside one that has the global lock:      *)
(* TaskThread::Entry with sMutexRW (Task.cpp:117-140).                     *)
THEOREM RunsLockedAloneHolds == ASSUME OneLocker PROVE Spec => []RunsLockedAlone
<1>1. LockPlaces /\ Lock!LockInv => RunsLockedAlone
  BY DEF LockPlaces, Lock!LockInv, Lock!Exclusion, RunsLockedAlone
<1>2. QED
  BY <1>1, LockPlacesHold, LockInvHolds, PTL

(* No task thread sleeps in the global lock with nobody to wake it.        *)
THEOREM NoThreadForgottenInLock ==
  ASSUME OneLocker PROVE Spec => []sMutexRW!NoLostWakeup
<1>1. Lock!NoLostWakeup => sMutexRW!NoLostWakeup
  BY DEF Lock!NoLostWakeup, sMutexRW!NoLostWakeup, Lock!Sleepers, sMutexRW!Sleepers,
         Lock!ActiveWriter, sMutexRW!ActiveWriter, Lock!WaitingWriters, sMutexRW!WaitingWriters
<1>2. QED
  BY <1>1, LockInvHolds, PTL
=============================================================================
