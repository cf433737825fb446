------------------------------ MODULE OSMutexRW ------------------------------
(***************************************************************************)
(* CommonUtilitiesLib/OSMutexRW: the read/write lock under which every     *)
(* task of the server runs (TaskThreadPool::sMutexRW).                     *)
(*                                                                         *)
(* fInternalLock is held from the entry of each method to its return,      *)
(* except inside OSCond::Wait, so a method is one action up to the point   *)
(* where it sleeps and another from the point where it wakes.  A sleeping  *)
(* thread is moved from "waitRead"/"waitWrite" to "wokenRead"/"wokenWrite" *)
(* by the signal, the broadcast or the timeout that ends the wait; it then *)
(* tests the loop condition again with fInternalLock held.                 *)
(*                                                                         *)
(* A definition named <operation>_<slip> is not part of the lock: it is    *)
(* the operation with the slip its name says, kept to show that a property *)
(* would notice it.                                                        *)
(***************************************************************************)
EXTENDS Integers, FiniteSets

CONSTANTS
  Threads,    (* the threads that use the lock                             *)
  Writers     (* those of them that may ask for it exclusively             *)

ASSUME ThreadsAssumption ==
  /\ IsFiniteSet(Threads)
  /\ Writers \subseteq Threads

VARIABLES
  fState,         (* -1: writer, 0: free, > 0: number of readers           *)
  fWriteWaiters,  (* writers between AddWriteWaiter and RemoveWriteWaiter  *)
  fReadWaiters,   (* readers between AddReadWaiter and RemoveReadWaiter    *)
  at              (* where each thread stands in the lock's methods        *)

lockVars == <<fState, fWriteWaiters, fReadWaiters, at>>

eActiveWriterState == -1
eNoWriterState     == 0

Places == {"out", "waitRead", "wokenRead", "read",
           "waitWrite", "wokenWrite", "write"}

Sleepers(place) == {t \in Threads : at[t] = place}

(* The counters stay within the number of threads, and fState never goes   *)
(* below the writer's -1.                                                  *)
TypeOK ==
  /\ fState \in -1 .. Cardinality(Threads)
  /\ fWriteWaiters \in 0 .. Cardinality(Threads)
  /\ fReadWaiters \in 0 .. Cardinality(Threads)
  /\ at \in [Threads -> Places]

Init ==
  /\ fState = eNoWriterState
  /\ fWriteWaiters = 0
  /\ fReadWaiters = 0
  /\ at = [t \in Threads |-> "out"]

ActiveWriter   == fState < 0
ActiveReaders  == fState > 0
Active         == fState # 0
WaitingWriters == fWriteWaiters > 0

-----------------------------------------------------------------------------
(* LockRead: a reader is held back by the active writer and by every       *)
(* writer that waits.                                                      *)

LockReadNow_IgnoresWaiters(t) ==
  /\ at[t] = "out"
  /\ ~ActiveWriter
  /\ fState' = fState + 1
  /\ at' = [at EXCEPT ![t] = "read"]
  /\ UNCHANGED <<fWriteWaiters, fReadWaiters>>

LockReadNow(t) ==
  /\ at[t] = "out"
  /\ ~ActiveWriter /\ ~WaitingWriters
  /\ fState' = fState + 1
  /\ at' = [at EXCEPT ![t] = "read"]
  /\ UNCHANGED <<fWriteWaiters, fReadWaiters>>

LockReadWait(t) ==
  /\ at[t] = "out"
  /\ ActiveWriter \/ WaitingWriters
  /\ fReadWaiters' = fReadWaiters + 1
  /\ at' = [at EXCEPT ![t] = "waitRead"]
  /\ UNCHANGED <<fState, fWriteWaiters>>

LockReadResume(t) ==
  /\ at[t] = "wokenRead"
  /\ IF ActiveWriter \/ WaitingWriters
       THEN /\ at' = [at EXCEPT ![t] = "waitRead"]
            /\ UNCHANGED <<fState, fReadWaiters>>
       ELSE /\ at' = [at EXCEPT ![t] = "read"]
            /\ fState' = fState + 1
            /\ fReadWaiters' = fReadWaiters - 1
  /\ UNCHANGED fWriteWaiters

(* LockWrite: the loop waits for the readers only.  Nothing in it looks at *)
(* ActiveWriter().                                                         *)

LockWriteNow(t) ==
  /\ at[t] = "out"
  /\ ~ActiveReaders
  /\ fState' = eActiveWriterState
  /\ at' = [at EXCEPT ![t] = "write"]
  /\ UNCHANGED <<fWriteWaiters, fReadWaiters>>

LockWriteWait(t) ==
  /\ at[t] = "out"
  /\ ActiveReaders
  /\ fWriteWaiters' = fWriteWaiters + 1
  /\ at' = [at EXCEPT ![t] = "waitWrite"]
  /\ UNCHANGED <<fState, fReadWaiters>>

LockWriteResume_NoLoop(t) ==
  /\ at[t] = "wokenWrite"
  /\ at' = [at EXCEPT ![t] = "write"]
  /\ fState' = eActiveWriterState
  /\ fWriteWaiters' = fWriteWaiters - 1
  /\ UNCHANGED fReadWaiters

LockWriteResume(t) ==
  /\ at[t] = "wokenWrite"
  /\ IF ActiveReaders
       THEN /\ at' = [at EXCEPT ![t] = "waitWrite"]
            /\ UNCHANGED <<fState, fWriteWaiters>>
       ELSE /\ at' = [at EXCEPT ![t] = "write"]
            /\ fState' = eActiveWriterState
            /\ fWriteWaiters' = fWriteWaiters - 1
  /\ UNCHANGED fReadWaiters

(* The Try variants return EBUSY without a trace, or call the method above *)
(* under the (recursive) internal lock, where it cannot wait.              *)

TryLockRead(t) ==
  /\ ~ActiveWriter /\ ~WaitingWriters
  /\ LockReadNow(t)

TryLockWrite(t) ==
  /\ ~Active /\ ~WaitingWriters
  /\ LockWriteNow(t)

-----------------------------------------------------------------------------
(* Unlock decides from fState, not from the caller, whether a reader or a  *)
(* writer is leaving.  fWritersCond.Signal wakes one sleeping writer if    *)
(* there is one; fReadersCond.Broadcast wakes every sleeping reader.       *)

SignalOneWriter(after) ==
  IF Sleepers("waitWrite") = {}
    THEN at' = after
    ELSE \E w \in Sleepers("waitWrite") : at' = [after EXCEPT ![w] = "wokenWrite"]

BroadcastReaders_SignalsOne(after) ==
  IF Sleepers("waitRead") = {}
    THEN at' = after
    ELSE \E r \in Sleepers("waitRead") : at' = [after EXCEPT ![r] = "wokenRead"]

BroadcastReaders(after) ==
  at' = [t \in Threads |-> IF after[t] = "waitRead" THEN "wokenRead" ELSE after[t]]

UnlockWriter(t) ==
  /\ at[t] \in {"read", "write"}
  /\ ActiveWriter
  /\ fState' = eNoWriterState
  /\ LET left == [at EXCEPT ![t] = "out"]
     IN  IF WaitingWriters THEN SignalOneWriter(left) ELSE BroadcastReaders(left)
  /\ UNCHANGED <<fWriteWaiters, fReadWaiters>>

UnlockReader(t) ==
  /\ at[t] \in {"read", "write"}
  /\ ~ActiveWriter
  /\ LET left == [at EXCEPT ![t] = "out"]
     IN  IF fState - 1 > 0
           THEN /\ fState' = fState - 1
                /\ at' = left
           ELSE /\ fState' = eNoWriterState
                /\ SignalOneWriter(left)
  /\ UNCHANGED <<fWriteWaiters, fReadWaiters>>

(* OSCond::Wait also returns when eMaxWait has passed, or spuriously.      *)

WaitEnds(t) ==
  /\ \/ at[t] = "waitRead"  /\ at' = [at EXCEPT ![t] = "wokenRead"]
     \/ at[t] = "waitWrite" /\ at' = [at EXCEPT ![t] = "wokenWrite"]
  /\ UNCHANGED <<fState, fWriteWaiters, fReadWaiters>>

-----------------------------------------------------------------------------
LockRead(t)  == LockReadNow(t) \/ LockReadWait(t)
LockWrite(t) == LockWriteNow(t) \/ LockWriteWait(t)
Resume(t)    == LockReadResume(t) \/ LockWriteResume(t)
Unlock(t)    == UnlockWriter(t) \/ UnlockReader(t)

Next ==
  \/ \E t \in Threads : LockRead(t) \/ TryLockRead(t) \/ Resume(t)
                          \/ Unlock(t) \/ WaitEnds(t)
  \/ \E t \in Writers : LockWrite(t) \/ TryLockWrite(t)

Spec == Init /\ [][Next]_lockVars

(* A thread that was woken runs again, and no task keeps the lock for      *)
(* ever.  Nothing is assumed of WaitEnds: the lock must not live on        *)
(* timeouts.                                                               *)
FairSpec == Spec /\ \A t \in Threads : WF_lockVars(Resume(t)) /\ WF_lockVars(Unlock(t))

-----------------------------------------------------------------------------
(* The condition the server meets when at most one thread at a time asks   *)
(* for exclusion.                                                          *)
OneWriter == \A v, w \in Writers : v = w

(* A writer excludes everybody: OSMutexRW.h:60 says of the active writer   *)
(* "only one", and TaskThread::Entry runs a task that asked for the global *)
(* lock on the strength of it.                                             *)
Exclusion ==
  \A t, u \in Threads :
    at[t] = "write" /\ u # t => at[u] \notin {"read", "write"}

(* fState means what OSMutexRW.h:34 says: -1 when a writer is inside, else *)
(* the number of readers inside; and the two waiter counts are exact, so   *)
(* that no reader is held back by a writer that already left.              *)
CountsAreExact ==
  /\ fState = IF Sleepers("write") # {} THEN -1 ELSE Cardinality(Sleepers("read"))
  /\ fWriteWaiters = Cardinality(Sleepers("waitWrite") \union Sleepers("wokenWrite"))
  /\ fReadWaiters = Cardinality(Sleepers("waitRead") \union Sleepers("wokenRead"))

(* No wakeup is lost: whoever sleeps on a condition variable still has a   *)
(* reason to, that is, somebody who will signal it when he leaves, or a    *)
(* writer already woken who will.                                          *)
NoLostWakeup ==
  /\ Sleepers("waitRead") # {} => ActiveWriter \/ WaitingWriters
  /\ Sleepers("waitWrite") # {} =>
       Sleepers("read") \union Sleepers("write") \union Sleepers("wokenWrite") # {}

(* Readers that keep arriving do not starve a writer: LockRead yields to   *)
(* waiting writers.                                                        *)
WriterGetsIn ==
  \A t \in Writers : (at[t] = "waitWrite") ~> (at[t] = "write")

(* The lock implements RWLock, the threads inside being its holders.       *)
RW == INSTANCE RWLock WITH readers <- Sleepers("read"), writers <- Sleepers("write")

ImplementsRWLock == RW!RWSpec
=============================================================================
