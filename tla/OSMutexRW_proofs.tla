--------------------------- MODULE OSMutexRW_proofs ---------------------------
(***************************************************************************)
(* For any finite set of threads of which at most one asks for exclusion,  *)
(* OSMutexRW excludes, counts exactly, and implements RWLock.              *)
(***************************************************************************)
EXTENDS OSMutexRW, FiniteSetTheorems, TLAPS

Places_OK == at \in [Threads -> Places]

(* The threads that ask for exclusion, or have it.  The lock is right as   *)
(* long as there is one at a time, whoever that is; that and the exact     *)
(* counts are inductive.                                                   *)
AsksForExclusion(t) == at[t] \in {"waitWrite", "wokenWrite", "write"}

OneAsks ==
  \A t, u \in Threads : AsksForExclusion(t) /\ AsksForExclusion(u) => t = u

LockInv ==
  /\ Places_OK
  /\ OneAsks
  /\ Exclusion
  /\ CountsAreExact

(* Only writers are on the writers' side of the lock, so that OneWriter    *)
(* makes OneAsks true.                                                     *)
WritersSide == \A t \in Threads : AsksForExclusion(t) => t \in Writers

IInv == WritersSide /\ LockInv

WritersWaiting == Sleepers("waitWrite") \union Sleepers("wokenWrite")
ReadersWaiting == Sleepers("waitRead") \union Sleepers("wokenRead")

(* Every set of threads is finite, and its cardinality is a number.        *)
LEMMA ThreadSets ==
  ASSUME NEW S \in SUBSET Threads
  PROVE  /\ IsFiniteSet(S)
         /\ Cardinality(S) \in Nat
         /\ Cardinality(S) <= Cardinality(Threads)
         /\ Cardinality(S) = 0 <=> S = {}
<1>1. IsFiniteSet(Threads)
  BY ThreadsAssumption
<1>2. IsFiniteSet(S) /\ Cardinality(S) <= Cardinality(Threads)
  BY <1>1, FS_Subset
<1>3. QED
  BY <1>2, FS_CardinalityType, FS_EmptySet

(* A thread that enters a set it was not in adds one to its size, and one  *)
(* that leaves a set it was in takes one from it.                          *)
LEMMA OneMore ==
  ASSUME NEW S \in SUBSET Threads, NEW t \in Threads, t \notin S
  PROVE  Cardinality(S \union {t}) = Cardinality(S) + 1
BY ThreadSets, FS_AddElement

LEMMA OneLess ==
  ASSUME NEW S \in SUBSET Threads, NEW t \in S
  PROVE  Cardinality(S \ {t}) = Cardinality(S) - 1
BY ThreadSets, FS_RemoveElement

(* fState is -1, 0 or the number of readers.                               *)
LEMMA StateMeaning ==
  ASSUME LockInv
  PROVE  /\ fState \in Int /\ fWriteWaiters \in Int /\ fReadWaiters \in Int
         /\ ActiveWriter <=> Sleepers("write") # {}
         /\ ActiveReaders <=> Sleepers("read") # {}
         /\ ~ActiveWriter => fState = Cardinality(Sleepers("read"))
         /\ WaitingWriters <=> WritersWaiting # {}
<1>1. /\ Cardinality(Sleepers("read")) \in Nat
      /\ Cardinality(Sleepers("read")) = 0 <=> Sleepers("read") = {}
  <2>1. Sleepers("read") \in SUBSET Threads
    BY DEF Sleepers
  <2>2. QED
    BY <2>1, ThreadSets
<1>2. /\ Cardinality(WritersWaiting) \in Nat
      /\ Cardinality(WritersWaiting) = 0 <=> WritersWaiting = {}
  <2>1. WritersWaiting \in SUBSET Threads
    BY DEF Sleepers, WritersWaiting
  <2>2. QED
    BY <2>1, ThreadSets
<1>3. Cardinality(ReadersWaiting) \in Nat
  <2>1. ReadersWaiting \in SUBSET Threads
    BY DEF Sleepers, ReadersWaiting
  <2>2. QED
    BY <2>1, ThreadSets
<1>4. Sleepers("write") # {} => Sleepers("read") = {}
  BY DEF LockInv, Exclusion, Sleepers
<1>5. QED
  BY <1>1, <1>2, <1>3, <1>4
  DEF LockInv, CountsAreExact, ActiveWriter, ActiveReaders, WaitingWriters,
      WritersWaiting, ReadersWaiting

(* Unlock takes t out and may wake sleepers; waking moves nobody from one  *)
(* of the counted sets to another.                                         *)
Left(t) == [at EXCEPT ![t] = "out"]

LEMMA WakingOthers ==
  ASSUME Places_OK, NEW t \in Threads, at[t] \in {"read", "write"},
         at' = Left(t) \/ SignalOneWriter(Left(t)) \/ BroadcastReaders(Left(t))
  PROVE  /\ at' \in [Threads -> Places]
         /\ at'[t] = "out"
         /\ \A u \in Threads \ {t} :
              \/ at'[u] = at[u]
              \/ at[u] = "waitRead"  /\ at'[u] = "wokenRead"
              \/ at[u] = "waitWrite" /\ at'[u] = "wokenWrite"
<1>1. CASE at' = Left(t)
  BY <1>1 DEF Left, Places_OK, Places
<1>2. CASE SignalOneWriter(Left(t))
  <2>1. CASE Sleepers("waitWrite") = {}
    BY <1>2, <2>1 DEF SignalOneWriter, Left, Places_OK, Places
  <2>2. CASE Sleepers("waitWrite") # {}
    <3>1. PICK w \in Sleepers("waitWrite") : at' = [Left(t) EXCEPT ![w] = "wokenWrite"]
      BY <1>2, <2>2 DEF SignalOneWriter
    <3>2. w \in Threads /\ at[w] = "waitWrite" /\ w # t
      BY DEF Sleepers
    <3>3. QED
      BY <3>1, <3>2 DEF Left, Places_OK, Places
  <2>3. QED
    BY <2>1, <2>2
<1>3. CASE BroadcastReaders(Left(t))
  BY <1>3 DEF BroadcastReaders, Left, Places_OK, Places
<1>4. QED
  BY <1>1, <1>2, <1>3

LEMMA UnlockMoves ==
  ASSUME Places_OK, NEW t \in Threads, Unlock(t)
  PROVE  /\ at' \in [Threads -> Places]
         /\ at'[t] = "out"
         /\ \A u \in Threads \ {t} :
              \/ at'[u] = at[u]
              \/ at[u] = "waitRead"  /\ at'[u] = "wokenRead"
              \/ at[u] = "waitWrite" /\ at'[u] = "wokenWrite"
BY WakingOthers DEF Unlock, UnlockWriter, UnlockReader, Left

LEMMA LeavingAndWaking ==
  ASSUME Places_OK, NEW t \in Threads, at[t] \in {"read", "write"},
         at' = Left(t) \/ SignalOneWriter(Left(t)) \/ BroadcastReaders(Left(t))
  PROVE  /\ at' \in [Threads -> Places]
         /\ Sleepers("read")' = Sleepers("read") \ {t}
         /\ Sleepers("write")' = Sleepers("write") \ {t}
         /\ WritersWaiting' = WritersWaiting
         /\ ReadersWaiting' = ReadersWaiting
BY WakingOthers DEF Sleepers, WritersWaiting, ReadersWaiting, Places_OK, Places

-----------------------------------------------------------------------------
LEMMA InitIInv == Init => IInv
<1> SUFFICES ASSUME Init PROVE IInv
  OBVIOUS
<1>1. \A p \in Places : p # "out" => Sleepers(p) = {}
  BY DEF Init, Sleepers
<1>2. Cardinality({}) = 0
  BY FS_EmptySet
<1>3. CountsAreExact
  BY <1>1, <1>2 DEF CountsAreExact, Init, eNoWriterState, Places
<1>4. Places_OK /\ WritersSide /\ Exclusion
  BY DEF Init, Places_OK, Places, WritersSide, AsksForExclusion, Exclusion
<1>5. OneAsks
  BY DEF Init, OneAsks, AsksForExclusion
<1>6. QED
  BY <1>3, <1>4, <1>5 DEF IInv, LockInv

(* A step of one thread, which may ask for either side.                    *)
Step(t) ==
  \/ LockRead(t) \/ TryLockRead(t) \/ LockWrite(t) \/ TryLockWrite(t)
  \/ Resume(t) \/ Unlock(t) \/ WaitEnds(t)

(* The exact counts follow step by step from how the counted sets change.  *)
LEMMA StepKeeps ==
  ASSUME LockInv, (\E t \in Threads : Step(t)) \/ UNCHANGED lockVars, OneAsks'
  PROVE  LockInv'
<1> DEFINE Reading == Sleepers("read")
           Writing == Sleepers("write")
<1>0. /\ Reading \in SUBSET Threads /\ WritersWaiting \in SUBSET Threads
      /\ ReadersWaiting \in SUBSET Threads
  BY DEF Sleepers, WritersWaiting, ReadersWaiting
<1>1. /\ fState = IF Writing # {} THEN -1 ELSE Cardinality(Reading)
      /\ fWriteWaiters = Cardinality(WritersWaiting)
      /\ fReadWaiters = Cardinality(ReadersWaiting)
  BY DEF LockInv, CountsAreExact, WritersWaiting, ReadersWaiting
<1>2. ASSUME Places_OK', Exclusion',
             fState' = IF Writing' # {} THEN -1 ELSE Cardinality(Reading'),
             fWriteWaiters' = Cardinality(WritersWaiting'),
             fReadWaiters' = Cardinality(ReadersWaiting')
      PROVE  LockInv'
  BY <1>2 DEF LockInv, CountsAreExact, WritersWaiting, ReadersWaiting
<1>3. ASSUME NEW t \in Threads, LockReadNow(t)
      PROVE  LockInv'
  <2>1. Writing = {} /\ fState = Cardinality(Reading)
    BY <1>3, StateMeaning DEF LockReadNow
  <2>2. /\ Places_OK' /\ Exclusion'
        /\ t \notin Reading
        /\ Reading' = Reading \union {t} /\ Writing' = {}
        /\ WritersWaiting' = WritersWaiting /\ ReadersWaiting' = ReadersWaiting
    BY <1>3, <2>1 DEF LockReadNow, LockInv, Places_OK, Places, Exclusion,
                      Sleepers, WritersWaiting, ReadersWaiting
  <2>3. Cardinality(Reading') = Cardinality(Reading) + 1
    BY <2>2, <1>0, OneMore
  <2>4. QED
    BY <1>1, <1>2, <1>3, <2>1, <2>2, <2>3 DEF LockReadNow
<1>4. ASSUME NEW t \in Threads, LockReadWait(t)
      PROVE  LockInv'
  <2>1. /\ Places_OK' /\ Exclusion'
        /\ t \notin ReadersWaiting
        /\ Reading' = Reading /\ Writing' = Writing
        /\ WritersWaiting' = WritersWaiting /\ ReadersWaiting' = ReadersWaiting \union {t}
    BY <1>4 DEF LockReadWait, LockInv, Places_OK, Places, Exclusion,
                Sleepers, WritersWaiting, ReadersWaiting
  <2>2. Cardinality(ReadersWaiting') = Cardinality(ReadersWaiting) + 1
    BY <2>1, <1>0, OneMore
  <2>3. QED
    BY <1>1, <1>2, <1>4, <2>1, <2>2 DEF LockReadWait
<1>5. ASSUME NEW t \in Threads, LockReadResume(t)
      PROVE  LockInv'
  <2>1. CASE ActiveWriter \/ WaitingWriters
    <3>1. /\ Places_OK' /\ Exclusion'
          /\ Reading' = Reading /\ Writing' = Writing
          /\ WritersWaiting' = WritersWaiting /\ ReadersWaiting' = ReadersWaiting
      BY <1>5, <2>1 DEF LockReadResume, LockInv, Places_OK, Places, Exclusion,
                        Sleepers, WritersWaiting, ReadersWaiting
    <3>2. QED
      BY <1>1, <1>2, <1>5, <2>1, <3>1 DEF LockReadResume
  <2>2. CASE ~(ActiveWriter \/ WaitingWriters)
    <3>1. Writing = {} /\ fState = Cardinality(Reading)
      BY <2>2, StateMeaning
    <3>2. /\ Places_OK' /\ Exclusion'
          /\ t \notin Reading /\ t \in ReadersWaiting
          /\ Reading' = Reading \union {t} /\ Writing' = {}
          /\ WritersWaiting' = WritersWaiting /\ ReadersWaiting' = ReadersWaiting \ {t}
      BY <1>5, <2>2, <3>1 DEF LockReadResume, LockInv, Places_OK, Places,
                              Exclusion, Sleepers, WritersWaiting, ReadersWaiting
    <3>3. Cardinality(Reading') = Cardinality(Reading) + 1
      BY <3>2, <1>0, OneMore
    <3>4. Cardinality(ReadersWaiting') = Cardinality(ReadersWaiting) - 1
      BY <3>2, <1>0, OneLess
    <3>5. QED
      BY <1>1, <1>2, <1>5, <2>2, <3>1, <3>2, <3>3, <3>4 DEF LockReadResume
  <2>3. QED
    BY <2>1, <2>2
<1>6. ASSUME NEW t \in Threads, LockWriteNow(t)
      PROVE  LockInv'
  <2>1. Reading = {}
    BY <1>6, StateMeaning DEF LockWriteNow
  <2>2. t \in Threads
    BY ThreadsAssumption
  <2>3. /\ Places_OK' /\ Exclusion'
        /\ Reading' = {} /\ Writing' # {}
        /\ WritersWaiting' = WritersWaiting /\ ReadersWaiting' = ReadersWaiting
    BY <1>6, <2>1, <2>2 DEF LockWriteNow, LockInv, Places_OK, Places, Exclusion,
                      Sleepers, WritersWaiting, ReadersWaiting,
                      OneAsks, AsksForExclusion
  <2>4. QED
    BY <1>1, <1>2, <1>6, <2>3 DEF LockWriteNow, eActiveWriterState
<1>7. ASSUME NEW t \in Threads, LockWriteWait(t)
      PROVE  LockInv'
  <2>1. t \in Threads
    BY ThreadsAssumption
  <2>2. /\ Places_OK' /\ Exclusion'
        /\ t \notin WritersWaiting
        /\ Reading' = Reading /\ Writing' = Writing
        /\ WritersWaiting' = WritersWaiting \union {t} /\ ReadersWaiting' = ReadersWaiting
    BY <1>7, <2>1 DEF LockWriteWait, LockInv, Places_OK, Places, Exclusion,
                Sleepers, WritersWaiting, ReadersWaiting
  <2>3. Cardinality(WritersWaiting') = Cardinality(WritersWaiting) + 1
    BY <2>1, <2>2, <1>0, OneMore
  <2>4. QED
    BY <1>1, <1>2, <1>7, <2>2, <2>3 DEF LockWriteWait
<1>8. ASSUME NEW t \in Threads, LockWriteResume(t)
      PROVE  LockInv'
  <2>1. CASE ActiveReaders
    <3>1. /\ Places_OK' /\ Exclusion'
          /\ Reading' = Reading /\ Writing' = Writing
          /\ WritersWaiting' = WritersWaiting /\ ReadersWaiting' = ReadersWaiting
      BY <1>8, <2>1 DEF LockWriteResume, LockInv, Places_OK, Places, Exclusion,
                        Sleepers, WritersWaiting, ReadersWaiting
    <3>2. QED
      BY <1>1, <1>2, <1>8, <2>1, <3>1 DEF LockWriteResume
  <2>2. CASE ~ActiveReaders
    <3>1. Reading = {}
      BY <2>2, StateMeaning
    <3>2. /\ Places_OK' /\ Exclusion'
          /\ t \in WritersWaiting
          /\ Reading' = {} /\ Writing' # {}
          /\ WritersWaiting' = WritersWaiting \ {t} /\ ReadersWaiting' = ReadersWaiting
      BY <1>8, <2>2, <3>1 DEF LockWriteResume, LockInv, Places_OK, Places,
                              Exclusion, Sleepers, WritersWaiting, ReadersWaiting,
                      OneAsks, AsksForExclusion
    <3>3. Cardinality(WritersWaiting') = Cardinality(WritersWaiting) - 1
      BY <3>2, <1>0, OneLess
    <3>4. QED
      BY <1>1, <1>2, <1>8, <2>2, <3>2, <3>3 DEF LockWriteResume, eActiveWriterState
  <2>3. QED
    BY <2>1, <2>2
<1>9. ASSUME NEW t \in Threads, Unlock(t)
      PROVE  LockInv'
  <2>1. /\ at[t] \in {"read", "write"}
        /\ at' = Left(t) \/ SignalOneWriter(Left(t)) \/ BroadcastReaders(Left(t))
        /\ UNCHANGED <<fWriteWaiters, fReadWaiters>>
    BY <1>9 DEF Unlock, UnlockWriter, UnlockReader, Left
  <2>2. /\ Places_OK'
        /\ Reading' = Reading \ {t} /\ Writing' = Writing \ {t}
        /\ WritersWaiting' = WritersWaiting /\ ReadersWaiting' = ReadersWaiting
    BY <2>1, LeavingAndWaking DEF LockInv, Places_OK
  <2>3. Exclusion'
    BY <2>2 DEF LockInv, Exclusion, Sleepers, WritersWaiting, Places_OK
  <2>4. CASE ActiveWriter
    <3>1. Writing # {} /\ fState' = 0
      BY <1>9, <2>4, StateMeaning
      DEF Unlock, UnlockWriter, UnlockReader, eNoWriterState
    <3>2. Reading = {} /\ Writing = {t}
      BY <2>1, <3>1 DEF LockInv, Exclusion, Sleepers
    <3>3. Cardinality(Reading') = 0
      BY <2>2, <3>2, FS_EmptySet
    <3>4. QED
      BY <1>1, <1>2, <2>1, <2>2, <2>3, <3>1, <3>2, <3>3
  <2>5. CASE ~ActiveWriter
    <3>1. Writing = {} /\ fState = Cardinality(Reading)
      BY <2>5, StateMeaning
    <3>2. t \in Reading
      BY <2>1, <3>1 DEF Sleepers
    <3>3. Cardinality(Reading') = Cardinality(Reading) - 1
      BY <2>2, <3>2, <1>0, OneLess
    <3>4. Cardinality(Reading) \in Nat /\ Cardinality(Reading) # 0
      BY <3>2, <1>0, ThreadSets
    <3>5. fState' = IF fState - 1 > 0 THEN fState - 1 ELSE 0
      BY <1>9, <2>5 DEF Unlock, UnlockWriter, UnlockReader, eNoWriterState
    <3>6. fState' = Cardinality(Reading')
      BY <3>1, <3>3, <3>4, <3>5
    <3>7. QED
      BY <1>1, <1>2, <2>1, <2>2, <2>3, <3>1, <3>6
  <2>6. QED
    BY <2>4, <2>5
<1>10. ASSUME NEW t \in Threads, WaitEnds(t)
       PROVE  LockInv'
  <2>1. /\ Places_OK' /\ Exclusion'
        /\ Reading' = Reading /\ Writing' = Writing
        /\ WritersWaiting' = WritersWaiting /\ ReadersWaiting' = ReadersWaiting
    BY <1>10 DEF WaitEnds, LockInv, Places_OK, Places, Exclusion,
                 Sleepers, WritersWaiting, ReadersWaiting
  <2>2. QED
    BY <1>1, <1>2, <1>10, <2>1 DEF WaitEnds
<1>11. CASE UNCHANGED lockVars
  BY <1>11 DEF lockVars, LockInv, Places_OK, Exclusion, CountsAreExact, Sleepers
<1>12. QED
  BY <1>3, <1>4, <1>5, <1>6, <1>7, <1>8, <1>9, <1>10, <1>11
  DEF Step, LockRead, TryLockRead, Resume, LockWrite, TryLockWrite

-----------------------------------------------------------------------------
LEMMA NextIInv ==
  ASSUME OneWriter, IInv, [Next]_lockVars
  PROVE  IInv'
<1>1. (\E t \in Threads : Step(t)) \/ UNCHANGED lockVars
  BY ThreadsAssumption DEF Next, Step
<1>2. WritersSide'
  <2> USE DEF WritersSide, AsksForExclusion, IInv, LockInv, Places_OK, Places
  <2>1. ASSUME NEW t \in Threads, LockRead(t) \/ TryLockRead(t) \/ Resume(t) \/ WaitEnds(t)
        PROVE  WritersSide'
    BY <2>1
    DEF LockRead, LockReadNow, LockReadWait, TryLockRead, Resume, LockReadResume,
        LockWriteResume, WaitEnds
  <2>2. ASSUME NEW t \in Threads, Unlock(t)
        PROVE  WritersSide'
    <3>1. /\ at[t] \in {"read", "write"}
          /\ at' = Left(t) \/ SignalOneWriter(Left(t)) \/ BroadcastReaders(Left(t))
      BY <2>2 DEF Unlock, UnlockWriter, UnlockReader, Left
    <3>2. /\ WritersWaiting' = WritersWaiting
          /\ Sleepers("write")' = Sleepers("write") \ {t}
      BY <3>1, LeavingAndWaking
    <3>3. QED
      BY <3>2 DEF WritersWaiting, Sleepers
  <2>3. ASSUME NEW t \in Writers, LockWrite(t) \/ TryLockWrite(t)
        PROVE  WritersSide'
    BY <2>3, ThreadsAssumption DEF LockWrite, LockWriteNow, LockWriteWait, TryLockWrite
  <2>4. CASE UNCHANGED lockVars
    BY <2>4 DEF lockVars
  <2>5. QED
    BY <2>1, <2>2, <2>3, <2>4 DEF Next
<1>3. OneAsks'
  BY <1>2 DEF OneWriter, WritersSide, OneAsks
<1>4. QED
  BY <1>1, <1>2, <1>3, StepKeeps DEF IInv

(* With one thread that asks for exclusion, the strengthened invariant     *)
(* holds for ever (OSMutexRW.cpp, every method).                           *)
THEOREM AlwaysIInv == ASSUME OneWriter PROVE Spec => []IInv
<1>1. Init => IInv
  BY InitIInv
<1>2. IInv /\ [Next]_lockVars => IInv'
  BY NextIInv
<1>3. QED
  BY <1>1, <1>2, PTL DEF Spec

(* The writer excludes everybody (OSMutexRW.h:60, "only one").             *)
THEOREM ExclusionHolds == ASSUME OneWriter PROVE Spec => []Exclusion
<1>1. IInv => Exclusion
  BY DEF IInv, LockInv
<1>2. QED
  BY <1>1, AlwaysIInv, PTL

(* fState and the waiter counts say who is inside and who waits            *)
(* (OSMutexRW.h:34-36).                                                    *)
THEOREM CountsHold == ASSUME OneWriter PROVE Spec => []CountsAreExact
<1>1. IInv => CountsAreExact
  BY DEF IInv, LockInv
<1>2. QED
  BY <1>1, AlwaysIInv, PTL

(* The counters stay in range, whatever the number of threads.             *)
THEOREM TypeCorrect == ASSUME OneWriter PROVE Spec => []TypeOK
<1>1. IInv => TypeOK
  <2> SUFFICES ASSUME IInv PROVE TypeOK
    OBVIOUS
  <2>1. /\ Sleepers("read") \in SUBSET Threads /\ WritersWaiting \in SUBSET Threads
        /\ ReadersWaiting \in SUBSET Threads
    BY DEF Sleepers, WritersWaiting, ReadersWaiting
  <2>2. Cardinality(Threads) \in Nat
    BY ThreadSets
  <2>3. QED
    BY <2>1, <2>2, ThreadSets
    DEF IInv, LockInv, Places_OK, CountsAreExact, TypeOK, WritersWaiting, ReadersWaiting
<1>2. QED
  BY <1>1, AlwaysIInv, PTL

-----------------------------------------------------------------------------
(* No wakeup is lost.  The reader who sleeps is accounted for by fState    *)
(* and fWriteWaiters alone; the writer who sleeps by the threads inside,   *)
(* which is where the exact counts are needed.                             *)
LEMMA NextNoLostWakeup ==
  ASSUME LockInv, NoLostWakeup, (\E t \in Threads : Step(t)) \/ UNCHANGED lockVars
  PROVE  NoLostWakeup'
<1> USE DEF LockInv, Places_OK, Places, Sleepers
<1>1. ASSUME NEW t \in Threads, LockReadNow(t) \/ LockReadWait(t) \/ WaitEnds(t)
      PROVE  NoLostWakeup'
  BY <1>1, ThreadsAssumption, StateMeaning
  DEF NoLostWakeup, LockReadNow, LockReadWait, WaitEnds,
      ActiveWriter, WaitingWriters, ActiveReaders
<1>2. ASSUME NEW t \in Threads, LockReadResume(t)
      PROVE  NoLostWakeup'
  BY <1>2, StateMeaning
  DEF NoLostWakeup, LockReadResume, ActiveWriter, WaitingWriters, ActiveReaders
<1>3. ASSUME NEW t \in Threads, LockWriteNow(t) \/ LockWriteWait(t) \/ LockWriteResume(t)
      PROVE  NoLostWakeup'
  <2>1. fWriteWaiters' \in Int /\ (LockWriteWait(t) => fWriteWaiters' > 0)
    <3>1. WritersWaiting \in SUBSET Threads
      BY DEF WritersWaiting
    <3>2. Cardinality(WritersWaiting) \in Nat
      BY <3>1, ThreadSets
    <3>3. QED
      BY <1>3, <3>2, StateMeaning
      DEF CountsAreExact, WritersWaiting, LockWriteNow, LockWriteWait, LockWriteResume
  <2>2. QED
    BY <1>3, <2>1, StateMeaning
    DEF NoLostWakeup, LockWriteNow, LockWriteWait, LockWriteResume, eActiveWriterState,
        ActiveWriter, WaitingWriters, ActiveReaders
<1>4. ASSUME NEW t \in Threads, UnlockWriter(t)
      PROVE  NoLostWakeup'
  <2>1. CASE WaitingWriters
    <3>1. SignalOneWriter(Left(t))
      BY <1>4, <2>1 DEF UnlockWriter, Left
    <3>2. Sleepers("waitWrite") = {} =>
            Sleepers("waitWrite")' = {}
      BY <1>4, <3>1 DEF SignalOneWriter, Left, UnlockWriter
    <3>3. Sleepers("waitWrite") # {} => Sleepers("wokenWrite")' # {}
      BY <1>4, <3>1 DEF SignalOneWriter, Left, UnlockWriter
    <3>4. WaitingWriters'
      BY <1>4, <2>1 DEF UnlockWriter, WaitingWriters
    <3>5. QED
      BY <3>2, <3>3, <3>4 DEF NoLostWakeup
  <2>2. CASE ~WaitingWriters
    <3>1. BroadcastReaders(Left(t))
      BY <1>4, <2>2 DEF UnlockWriter, Left
    <3>2. Sleepers("waitRead")' = {}
      BY <3>1 DEF BroadcastReaders, Left
    <3>3. Sleepers("waitWrite") = {}
      BY <2>2, StateMeaning DEF WritersWaiting
    <3>4. Sleepers("waitWrite")' = {}
      BY <1>4, <3>1, <3>3 DEF BroadcastReaders, Left
    <3>5. QED
      BY <3>2, <3>4 DEF NoLostWakeup
  <2>3. QED
    BY <2>1, <2>2
<1>5. ASSUME NEW t \in Threads, UnlockReader(t)
      PROVE  NoLostWakeup'
  <2>1. fState = Cardinality(Sleepers("read")) /\ Sleepers("write") = {}
    BY <1>5, StateMeaning DEF UnlockReader
  <2>2. at[t] = "read"
    BY <1>5, <2>1 DEF UnlockReader
  <2>3. Sleepers("waitRead")' # {} => WaitingWriters'
    BY <1>5, <2>1 DEF UnlockReader, NoLostWakeup, SignalOneWriter, ActiveWriter, WaitingWriters
  <2>4. CASE fState - 1 > 0
    <3>1. at' = Left(t)
      BY <1>5, <2>4 DEF UnlockReader, Left
    <3>2. Sleepers("read")' = Sleepers("read") \ {t}
      BY <1>5, <3>1 DEF Left, UnlockReader
    <3>3. Cardinality(Sleepers("read") \ {t}) = Cardinality(Sleepers("read")) - 1
      <4>1. Sleepers("read") \in SUBSET Threads /\ t \in Sleepers("read")
        BY <2>2
      <4>2. QED
        BY <4>1, OneLess
    <3>4. Sleepers("read")' # {}
      BY <2>1, <2>4, <3>2, <3>3, FS_EmptySet
    <3>5. QED
      BY <2>3, <3>4 DEF NoLostWakeup
  <2>5. CASE ~(fState - 1 > 0)
    <3>1. SignalOneWriter(Left(t))
      BY <1>5, <2>5 DEF UnlockReader, Left
    <3>2. Sleepers("waitWrite") = {} => Sleepers("waitWrite")' = {}
      BY <1>5, <3>1 DEF SignalOneWriter, Left, UnlockReader
    <3>3. Sleepers("waitWrite") # {} => Sleepers("wokenWrite")' # {}
      BY <1>5, <3>1 DEF SignalOneWriter, Left, UnlockReader
    <3>4. QED
      BY <2>3, <3>2, <3>3 DEF NoLostWakeup
  <2>6. QED
    BY <2>4, <2>5
<1>6. CASE UNCHANGED lockVars
  BY <1>6 DEF lockVars, NoLostWakeup, ActiveWriter, WaitingWriters
<1>7. QED
  BY <1>1, <1>2, <1>3, <1>4, <1>5, <1>6
  DEF Step, LockRead, TryLockRead, Resume, LockWrite, TryLockWrite, Unlock

(* Nobody sleeps on a lock that will not be handed to him                  *)
(* (OSMutexRW::Unlock).                                                    *)
THEOREM NoLostWakeupHolds == ASSUME OneWriter PROVE Spec => []NoLostWakeup
<1>1. Init => NoLostWakeup
  BY DEF Init, NoLostWakeup, Sleepers
<1>2. IInv /\ NoLostWakeup /\ [Next]_lockVars => NoLostWakeup'
  <2>1. [Next]_lockVars => (\E t \in Threads : Step(t)) \/ UNCHANGED lockVars
    BY ThreadsAssumption DEF Next, Step
  <2>2. QED
    BY <2>1, NextNoLostWakeup DEF IInv
<1>3. QED
  BY <1>1, <1>2, AlwaysIInv, PTL DEF Spec

-----------------------------------------------------------------------------
(* The threads inside follow RWLock: every step of the lock is an          *)
(* acquisition, a release, or invisible to the holders.                    *)
LEMMA NextImplements ==
  ASSUME OneWriter, IInv, [Next]_lockVars
  PROVE  [RW!RWNext]_(RW!rwVars)
<1> USE DEF IInv, LockInv, Places_OK, Places, Sleepers, RW!rwVars
<1>1. ASSUME NEW t \in Threads, LockReadNow(t) \/ LockReadResume(t)
      PROVE  RW!AcquireRead(t) \/ UNCHANGED RW!rwVars
  BY <1>1, StateMeaning DEF LockReadNow, LockReadResume, RW!AcquireRead
<1>2. ASSUME NEW t \in Writers, LockWriteNow(t) \/ LockWriteResume(t)
      PROVE  RW!AcquireWrite(t) \/ UNCHANGED RW!rwVars
  <2>1. t \in Threads /\ \A u \in Threads : at[u] = "write" => u = t
    BY ThreadsAssumption DEF WritersSide, AsksForExclusion, OneWriter
  <2>2. QED
    BY <1>2, <2>1, StateMeaning DEF LockWriteNow, LockWriteResume, RW!AcquireWrite
<1>3. ASSUME NEW t \in Threads, Unlock(t)
      PROVE  RW!Release(t)
  <2>1. /\ at[t] \in {"read", "write"}
        /\ at' = Left(t) \/ SignalOneWriter(Left(t)) \/ BroadcastReaders(Left(t))
    BY <1>3 DEF Unlock, UnlockWriter, UnlockReader, Left
  <2>2. /\ Sleepers("read")' = Sleepers("read") \ {t}
        /\ Sleepers("write")' = Sleepers("write") \ {t}
    BY <2>1, LeavingAndWaking
  <2>3. QED
    BY <2>1, <2>2 DEF RW!Release
<1>4. ASSUME NEW t \in Threads, LockReadWait(t) \/ LockWriteWait(t) \/ WaitEnds(t)
      PROVE  UNCHANGED RW!rwVars
  BY <1>4 DEF LockReadWait, LockWriteWait, WaitEnds
<1>5. CASE UNCHANGED lockVars
  BY <1>5 DEF lockVars
<1>6. ASSUME NEW t \in Threads, LockWriteResume(t)
      PROVE  t \in Writers
  BY <1>6 DEF LockWriteResume, WritersSide, AsksForExclusion
<1>7. QED
  BY <1>1, <1>2, <1>3, <1>4, <1>5, <1>6, ThreadsAssumption
  DEF Next, LockRead, TryLockRead, Resume, LockWrite, TryLockWrite, RW!RWNext

(* OSMutexRW implements the abstract lock (RWLock).                        *)
THEOREM Implements == ASSUME OneWriter PROVE Spec => ImplementsRWLock
<1>1. Init => RW!RWInit
  BY DEF Init, Sleepers, RW!RWInit
<1>2. IInv /\ [Next]_lockVars => [RW!RWNext]_(RW!rwVars)
  BY NextImplements
<1>3. QED
  BY <1>1, <1>2, AlwaysIInv, PTL DEF Spec, ImplementsRWLock, RW!RWSpec
=============================================================================
