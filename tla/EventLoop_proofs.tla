--------------------------- MODULE EventLoop_proofs ---------------------------
(* For any connections, descriptors and ids: select() is handed open          *)
(* descriptors only and never sleeps on outdated sets; and, as long as no id   *)
(* comes round while it is in use (ReusesIds = FALSE), events go to the        *)
(* context that owns the descriptor, one for each request, and nobody who      *)
(* waits is forgotten.                                                         *)
(*                                                                             *)
(* The inductive invariant comes in layers, each proved from those before it:  *)
(* HoldsInv (who holds which descriptor), IdsInv (ids, cookies and the table), *)
(* SetsInv (the sets), SleepInv, AskedOK and WaitedOK.                         *)
EXTENDS EventLoop, FiniteSetTheorems, WellFoundedInduction, TLAPS

(* The descriptors are finitely many: a set of them has a least and a       *)
(* greatest member, and no more members than there are descriptors.         *)
LEMMA LeastNat ==
  ASSUME NEW S \in SUBSET Nat, S # {}
  PROVE  \E x \in S : \A y \in S : x <= y
<1>1. PICK x \in S : \A y \in S : ~(<<y, x>> \in OpToRel(<, Nat))
  BY NatLessThanWellFounded, WFMin, Zenon
<1>2. \A y \in S : ~(y < x)
  BY <1>1 DEF OpToRel
<1>3. QED
  BY <1>2

LEMMA FDsAreNat == NumFDs \in Nat /\ NumFDs > 2 /\ FDs \subseteq Nat
BY EventLoopAssumption DEF FDs

LEMMA PipeIsFD == 0 \in FDs
BY EventLoopAssumption DEF FDs

LEMMA LeastFD ==
  ASSUME NEW S \in SUBSET FDs, S # {}
  PROVE  Min(S) \in S /\ \A fd \in S : Min(S) <= fd
<1>1. S \in SUBSET Nat
  BY FDsAreNat
<1>2. \E x \in S : \A y \in S : x <= y
  BY <1>1, LeastNat
<1>3. QED
  BY <1>2, Zenon DEF Min

LEMMA GreatestFD ==
  ASSUME NEW S \in SUBSET FDs, S # {}
  PROVE  Max(S) \in S /\ \A fd \in S : fd <= Max(S)
<1> DEFINE T == {NumFDs - fd : fd \in S}
<1>1. \A fd \in S : fd \in Nat /\ NumFDs - fd \in Nat
  BY FDsAreNat DEF FDs
<1>2. T \in SUBSET Nat /\ T # {}
  BY <1>1
<1>3. PICK m \in T : \A n \in T : m <= n
  <2> HIDE DEF T
  <2> QED BY <1>2, LeastNat
<1>4. PICK x \in S : m = NumFDs - x
  BY <1>3
<1>5. ASSUME NEW y \in S PROVE x >= y
  <2>1. NumFDs - x <= NumFDs - y
    BY <1>3, <1>4
  <2>2. QED
    BY <1>1, <2>1, FDsAreNat
<1>6. Max(S) \in S /\ \A fd \in S : Max(S) >= fd
  BY <1>5, Zenon DEF Max
<1>7. QED
  BY <1>1, <1>6

LEMMA CountFDs ==
  ASSUME NEW S \in SUBSET FDs
  PROVE  /\ Cardinality(S) \in 0 .. NumFDs
         /\ Cardinality(S) = 0 <=> S = {}
<1>1. NumFDs \in Nat /\ NumFDs > 2
  BY EventLoopAssumption
<1>2. IsFiniteSet(FDs) /\ Cardinality(FDs) = NumFDs
  BY <1>1, FS_Interval DEF FDs
<1>3. IsFiniteSet(S) /\ Cardinality(S) <= Cardinality(FDs)
  BY <1>2, FS_Subset
<1>4. QED
  BY <1>1, <1>2, <1>3, FS_CardinalityType, FS_EmptySet

-----------------------------------------------------------------------------
(* What the event thread finds when it scans: nothing further in the set it *)
(* is in, or the next descriptor of that set.                               *)
TakenFrom(fd) ==
  \/ /\ fd \in sReturnedReadSet
     /\ sReturnedReadSet' = sReturnedReadSet \ {fd}
     /\ UNCHANGED sReturnedWriteSet
  \/ /\ fd \in sReturnedWriteSet
     /\ sReturnedWriteSet' = sReturnedWriteSet \ {fd}
     /\ UNCHANGED sReturnedReadSet

Takes(fd) ==
  /\ TakeEvent(fd) /\ TakenFrom(fd)
  /\ UNCHANGED sInReadSet

MovesOn ==
  /\ UNCHANGED <<returned, event, pc, sReadSet, sWriteSet, history>>
  /\ sCurrentFDPos' \in {0, sCurrentFDPos}
  /\ fdsLeft' \in {0, fdsLeft}
  /\ sInReadSet' \in BOOLEAN

ScanFrame ==
  UNCHANGED <<selecting, sCookieArray, sMaxFDPos, sFDsToCloseArray, pipe, contexts,
              resolved, listening, tasks, kernel>>

LEMMA ScanStep ==
  ASSUME TypeOK, ScanReads \/ ScanWrites
  PROVE  /\ pc = "scan" /\ fdsLeft > 0
         /\ ScanFrame
         /\ MovesOn \/ \E fd \in FDs : Takes(fd)
<1>1. CASE ScanReads
  <2>1. CASE Ahead(sReturnedReadSet) = {}
    BY <1>1, <2>1 DEF ScanReads, MovesOn, ScanFrame, TypeOK, returned
  <2>2. CASE Ahead(sReturnedReadSet) # {}
    <3> DEFINE fd == Min(Ahead(sReturnedReadSet))
    <3>1. fd \in sReturnedReadSet /\ fd \in FDs
      <4>1. Ahead(sReturnedReadSet) \in SUBSET FDs
        BY DEF Ahead, TypeOK
      <4>2. QED
        BY <2>2, <4>1, LeastFD DEF Ahead
    <3>2. TakeEvent(fd) /\ sReturnedReadSet' = sReturnedReadSet \ {fd}
            /\ UNCHANGED <<sInReadSet, sReturnedWriteSet>>
      BY <1>1, <2>2, Zenon DEF ScanReads
    <3> HIDE DEF fd
    <3>3. Takes(fd)
      BY <3>1, <3>2 DEF Takes, TakenFrom
    <3>4. QED
      BY <1>1, <3>1, <3>3 DEF ScanReads, ScanFrame
  <2>3. QED BY <2>1, <2>2
<1>2. CASE ScanWrites
  <2>1. CASE Ahead(sReturnedWriteSet) = {}
    BY <1>2, <2>1 DEF ScanWrites, MovesOn, ScanFrame, TypeOK, returned
  <2>2. CASE Ahead(sReturnedWriteSet) # {}
    <3> DEFINE fd == Min(Ahead(sReturnedWriteSet))
    <3>1. fd \in sReturnedWriteSet /\ fd \in FDs
      <4>1. Ahead(sReturnedWriteSet) \in SUBSET FDs
        BY DEF Ahead, TypeOK, ConnFDs
      <4>2. QED
        BY <2>2, <4>1, LeastFD DEF Ahead
    <3>2. TakeEvent(fd) /\ sReturnedWriteSet' = sReturnedWriteSet \ {fd}
            /\ UNCHANGED <<sInReadSet, sReturnedReadSet>>
      BY <1>2, <2>2, Zenon DEF ScanWrites
    <3> HIDE DEF fd
    <3>3. Takes(fd)
      BY <3>1, <3>2 DEF Takes, TakenFrom
    <3>4. QED
      BY <1>2, <3>1, <3>3 DEF ScanWrites, ScanFrame
  <2>3. QED BY <2>1, <2>2
<1>3. QED
  BY <1>1, <1>2

(* sMaxFDPos stays at or above every descriptor in the sets.                 *)
LEMMA LowerMaxIsRight ==
  ASSUME NEW sets \in SUBSET FDs, NEW fd \in FDs, fd \notin sets,
         sMaxFDPos \in FDs, \A f \in sets : f <= sMaxFDPos
  PROVE  /\ LowerMax(fd, sets) \in FDs
         /\ \A f \in sets : f <= LowerMax(fd, sets)
<1> DEFINE below == {0} \union {f \in sets : f < fd}
<1>1. below \in SUBSET FDs /\ below # {}
  BY PipeIsFD
<1>2. Max(below) \in FDs /\ \A f \in below : f <= Max(below)
  <2> HIDE DEF below
  <2> QED BY <1>1, GreatestFD
<1>3. CASE fd = sMaxFDPos
  <2>1. \A f \in sets : f \in below
    BY <1>3, FDsAreNat
  <2>2. LowerMax(fd, sets) = Max(below)
    BY <1>3 DEF LowerMax
  <2> HIDE DEF below
  <2>3. QED
    BY <1>2, <2>1, <2>2
<1>4. CASE fd # sMaxFDPos
  BY <1>4 DEF LowerMax
<1>5. QED
  BY <1>3, <1>4

(* LowerMax is a descriptor whatever is in the sets.                         *)
LEMMA LowerMaxType ==
  ASSUME NEW sets \in SUBSET FDs, NEW fd, sMaxFDPos \in FDs
  PROVE  LowerMax(fd, sets) \in FDs
<1> DEFINE below == {0} \union {f \in sets : f < fd}
<1>1. below \in SUBSET FDs /\ below # {}
  BY PipeIsFD
<1>2. Max(below) \in FDs
  <2> HIDE DEF below
  <2> QED BY <1>1, GreatestFD
<1>3. QED
  BY <1>2 DEF LowerMax
-----------------------------------------------------------------------------
(* Who holds what: the descriptors of the contexts, the new connection of   *)
(* the listener, the reference of the event thread.                         *)
Owned == {fFileDesc[c] : c \in Contexts} \ {kInvalidFileDesc}
Gone == {"none", "wakeGone"}

ListeningOK ==
  /\ \A a \in Actors : newConn[a] # None <=> listener[a] = "watch"
  /\ \A a \in Actors : newConn[a] # None => task[newConn[a]] = "new"
  /\ \A a, b \in Actors : newConn[a] # None /\ newConn[b] # None => a = b
  /\ backlog > 0 => \A a \in Actors : newConn[a] = None
  /\ listener["event"] # "idle" => pc = "listening"

PlaceOK ==
  /\ pc = "drain" => fdsLeft > 0
  /\ resolved # None <=> pc \in {"process", "listening", "release"}
  /\ pc = "listening" => resolved = Listener

FilesOK ==
  /\ \A c \in Conns : IF task[c] \in Gone THEN fFileDesc[c] = kInvalidFileDesc
                                          ELSE fFileDesc[c] \in ConnFDs
  /\ fFileDesc[Listener] = kListenFD
  /\ \A c, d \in Contexts :
       c # d /\ fFileDesc[c] = fFileDesc[d] => fFileDesc[c] = kInvalidFileDesc
  /\ Owned \subseteq open \ sFDsToCloseArray
  /\ kPipe \in open /\ sFDsToCloseArray \subseteq open

HoldsInv == TypeOK /\ ListeningOK /\ PlaceOK /\ FilesOK

LEMMA InitHolds == Init => HoldsInv
<1> SUFFICES ASSUME Init PROVE HoldsInv
  OBVIOUS
<1>1. 0 \in FDs /\ 1 \in FDs /\ 2 \in Ids /\ Listener \in Contexts /\ None \notin Contexts
      /\ Listener \notin Conns
  BY EventLoopAssumption DEF FDs, Ids, Contexts
<1>2. TypeOK
  <2>1. /\ sReadSet \subseteq FDs /\ sWriteSet \subseteq ConnFDs
        /\ sReturnedReadSet \subseteq FDs /\ sReturnedWriteSet \subseteq ConnFDs
        /\ selecting \in [read : SUBSET FDs, write : SUBSET ConnFDs]
        /\ sFDsToCloseArray \subseteq ConnFDs
        /\ open \subseteq FDs /\ readable \subseteq ConnFDs /\ writable \subseteq ConnFDs
    BY <1>1 DEF Init, kPipe, kListenFD, Empty
  <2>2. /\ sMaxFDPos \in FDs /\ sCurrentFDPos \in 0 .. NumFDs /\ sInReadSet \in BOOLEAN
        /\ fdsLeft \in 0 .. 2 * NumFDs /\ backlog \in 0 .. 1
        /\ event \in [fd : FDs, id : Ids \union {NoId}]
    BY <1>1, FDsAreNat DEF Init, kPipe, kListenFD
  <2>3. /\ sCookieArray \in [FDs -> Ids \union {NoId}]
        /\ fRefTable \in [Ids -> Contexts \union {None}]
        /\ fFileDesc \in [Contexts -> FDs \union {kInvalidFileDesc}]
        /\ fUniqueID \in [Contexts -> Ids \union {NoId}]
    BY <1>1 DEF Init, kListenFD
  <2>4. QED
    BY <1>1, <2>1, <2>2, <2>3 DEF Init, TypeOK
<1>3. ListeningOK
  BY DEF Init, ListeningOK, Actors
<1>4. PlaceOK
  BY DEF Init, PlaceOK
<1>5. FilesOK
  BY <1>1 DEF Init, FilesOK, Owned, Gone, kListenFD, kInvalidFileDesc, kPipe, Contexts
<1>6. QED
  BY <1>2, <1>3, <1>4, <1>5 DEF HoldsInv

(* What the invariant says of the descriptor of one context.                  *)
LEMMA ContextFDs ==
  ASSUME HoldsInv
  PROVE  /\ \A c \in Conns : task[c] \notin Gone => fFileDesc[c] \in ConnFDs
         /\ fFileDesc[Listener] \in FDs /\ fFileDesc[Listener] = kListenFD
         /\ \A c \in Contexts : fFileDesc[c] # kPipe
         /\ \A a \in Actors : listener[a] = "watch" => newConn[a] \in Conns
                                /\ task[newConn[a]] = "new"
                                /\ fFileDesc[newConn[a]] \in ConnFDs
         /\ Listener \in Contexts /\ Listener \notin Conns
         /\ kListenFD # kInvalidFileDesc /\ kInvalidFileDesc \notin FDs
<1>1. 1 \in FDs /\ kInvalidFileDesc \notin FDs
  BY EventLoopAssumption DEF FDs, kInvalidFileDesc
<1>2. Listener \in Contexts /\ Listener \notin Conns
  BY EventLoopAssumption DEF Contexts
<1>3. \A c \in Conns : task[c] \notin Gone => fFileDesc[c] \in ConnFDs
  BY DEF HoldsInv, FilesOK
<1>4. \A a \in Actors : listener[a] = "watch" => newConn[a] \in Conns
                                /\ task[newConn[a]] = "new"
  BY DEF HoldsInv, ListeningOK, TypeOK
<1>5. \A c \in Contexts : fFileDesc[c] # kPipe
  BY <1>3, EventLoopAssumption DEF HoldsInv, FilesOK, Contexts, ConnFDs, kPipe,
    kListenFD, kInvalidFileDesc
<1>6. QED
  BY <1>1, <1>2, <1>3, <1>4, <1>5 DEF HoldsInv, FilesOK, kListenFD, kInvalidFileDesc, Gone

(* accept() gives a new object the lowest free descriptor, which is neither    *)
(* the pipe's nor the listener's.                                              *)
LEMMA AcceptStep ==
  ASSUME TypeOK, NEW a \in Actors, Accept(a), {kPipe, kListenFD} \subseteq open
  PROVE  \E c \in Conns, fd \in ConnFDs \ open :
           /\ task[c] = "none"
           /\ open' = open \union {fd} /\ writable' = writable \union {fd}
           /\ fFileDesc' = [fFileDesc EXCEPT ![c] = fd]
           /\ task' = [task EXCEPT ![c] = "new"]
           /\ newConn' = [newConn EXCEPT ![a] = c]
<1> DEFINE fd == Min(FreeFDs)
<1>1. FreeFDs \in SUBSET FDs /\ FreeFDs # {}
  BY DEF Accept, FreeFDs
<1>2. fd \in FreeFDs
  BY <1>1, LeastFD
<1>3. PICK c \in FreeConns :
       /\ open' = open \union {fd} /\ writable' = writable \union {fd}
       /\ fFileDesc' = [fFileDesc EXCEPT ![c] = fd]
       /\ task' = [task EXCEPT ![c] = "new"]
       /\ newConn' = [newConn EXCEPT ![a] = c]
  BY Zenon DEF Accept
<1> HIDE DEF fd
<1>4. c \in Conns /\ task[c] = "none" /\ fd \in ConnFDs \ open
  BY <1>2, <1>3 DEF FreeConns, FreeFDs, ConnFDs
<1>5. QED
  BY <1>3, <1>4
(* Action by action: a descriptor belongs to one context at most, from accept() *)
(* to select_removeevent, and is closed only when it belongs to none.          *)
LEMMA HoldsStep == ASSUME HoldsInv, [Next]_vars PROVE HoldsInv'
<1>1. ASSUME ScanReads \/ ScanWrites PROVE HoldsInv'
  <2>1. pc = "scan" /\ fdsLeft > 0 /\ ScanFrame
    BY <1>1, ScanStep DEF HoldsInv
  <2>2. CASE MovesOn
    <3>1. TypeOK'
      BY <2>1, <2>2, FDsAreNat DEF ScanFrame, MovesOn, returned, contexts, listening, tasks,
        kernel, history, HoldsInv, TypeOK
    <3>2. QED
      BY <2>1, <2>2, <3>1 DEF ScanFrame, MovesOn, contexts, listening, tasks, kernel,
        HoldsInv, ListeningOK, PlaceOK, FilesOK, Owned, Gone
  <2>3. CASE \E fd \in FDs : Takes(fd)
    <3>1. PICK fd \in FDs : Takes(fd)
      BY <2>3
    <3>2. fdsLeft' \in 0 .. 2 * NumFDs /\ sCurrentFDPos' \in 0 .. NumFDs
      BY <2>1, <3>1, FDsAreNat DEF Takes, TakeEvent, HoldsInv, TypeOK, FDs
    <3>3. event' \in [fd : FDs, id : Ids \union {NoId}] /\ pc' = "deliver"
      BY <3>1 DEF Takes, TakeEvent, HoldsInv, TypeOK
    <3>4. TypeOK'
      BY <2>1, <3>1, <3>2, <3>3 DEF ScanFrame, Takes, TakenFrom, TakeEvent, contexts,
        listening, tasks, kernel, HoldsInv, TypeOK
    <3>5. QED
      BY <2>1, <3>1, <3>4 DEF ScanFrame, Takes, TakeEvent, contexts, listening, tasks,
        kernel, HoldsInv, ListeningOK, PlaceOK, FilesOK, Owned, Gone
  <2>4. QED
    BY <1>1, <2>2, <2>3, ScanStep DEF HoldsInv
<1>2. ASSUME CopySets PROVE HoldsInv'
  <2>1. 0 \in 0 .. NumFDs
    BY FDsAreNat
  <2>2. TypeOK'
    BY <1>2, <2>1 DEF CopySets, fdsets, contexts, listening, tasks, kernel, history,
      HoldsInv, TypeOK
  <2>3. QED
    BY <1>2, <2>2 DEF CopySets, contexts, listening, tasks, kernel, HoldsInv,
      ListeningOK, PlaceOK, FilesOK, Owned, Gone
<1>3. ASSUME CallSelect PROVE HoldsInv'
  BY <1>3 DEF CallSelect, fdsets, returned, scan, contexts, listening, tasks,
    kernel, history, HoldsInv, TypeOK, ListeningOK, PlaceOK, FilesOK, Owned, Gone
<1>4. ASSUME SelectReturns PROVE HoldsInv'
  <2>1. /\ Ready.read \in SUBSET FDs /\ Ready.write \in SUBSET ConnFDs
        /\ Ready.write \in SUBSET FDs
    BY DEF Ready, HoldsInv, TypeOK, ConnFDs
  <2>2. /\ Cardinality(Ready.read) \in 0 .. NumFDs
        /\ Cardinality(Ready.write) \in 0 .. NumFDs
        /\ kPipe \in Ready.read => Cardinality(Ready.read) # 0
    BY <2>1, CountFDs
  <2> DEFINE n == Cardinality(Ready.read) + Cardinality(Ready.write)
  <2>3. n \in 0 .. 2 * NumFDs /\ (kPipe \in Ready.read => n > 0)
    BY <2>2, FDsAreNat
  <2>4. Empty \in [read : SUBSET FDs, write : SUBSET ConnFDs]
    BY DEF Empty
  <2>5. fdsLeft' = n
    BY <1>4 DEF SelectReturns
  <2> HIDE DEF n
  <2>6. TypeOK'
    BY <1>4, <2>1, <2>3, <2>4, <2>5 DEF SelectReturns, fdsets, contexts, listening,
      tasks, kernel, history, HoldsInv, TypeOK
  <2>7. PlaceOK'
    BY <1>4, <2>3, <2>5 DEF SelectReturns, HoldsInv, PlaceOK
  <2>8. QED
    BY <1>4, <2>6, <2>7 DEF SelectReturns, contexts, listening, tasks, kernel, HoldsInv,
      ListeningOK, FilesOK, Owned, Gone
<1>5. ASSUME SelectTimesOut PROVE HoldsInv'
  BY <1>5 DEF SelectTimesOut, kPipe, kListenFD, Empty, fdsets, scan, contexts,
    listening, tasks, kernel, history, HoldsInv, TypeOK, ListeningOK, PlaceOK,
    FilesOK, Owned, Gone
<1>6. ASSUME DrainPipe PROVE HoldsInv'
  <2>1. fdsLeft' \in 0 .. 2 * NumFDs
    BY <1>6, FDsAreNat DEF DrainPipe, HoldsInv, PlaceOK, TypeOK
  <2>2. TypeOK'
    BY <1>6, <2>1 DEF DrainPipe, fdsets, contexts, listening, tasks, kernel, history,
      HoldsInv, TypeOK
  <2>3. QED
    BY <1>6, <2>2 DEF DrainPipe, contexts, listening, tasks, kernel, HoldsInv,
      ListeningOK, PlaceOK, FilesOK, Owned, Gone
<1>7. ASSUME CloseRemoved PROVE HoldsInv'
  <2>1. TypeOK' /\ ListeningOK' /\ PlaceOK'
    BY <1>7 DEF CloseRemoved, fdsets, returned, scan, contexts, listening, tasks,
      history, HoldsInv, TypeOK, ListeningOK, PlaceOK
  <2>2. kPipe \notin sFDsToCloseArray
    BY DEF HoldsInv, TypeOK, ConnFDs
  <2>3. FilesOK'
    BY <1>7, <2>2 DEF CloseRemoved, contexts, tasks, HoldsInv, FilesOK, Owned, Gone
  <2>4. QED
    BY <2>1, <2>3 DEF HoldsInv
<1>8. ASSUME Resolve PROVE HoldsInv'
  BY <1>8 DEF Resolve, NoId, fdsets, returned, scan, contexts, listening, tasks,
    kernel, history, HoldsInv, TypeOK, ListeningOK, PlaceOK, FilesOK, Owned, Gone
<1>9. ASSUME NEW c \in Conns, ProcessEvent(c) PROVE HoldsInv'
  BY <1>9 DEF ProcessEvent, Signal, fdsets, returned, scan, contexts, listening,
    kernel, history, HoldsInv, TypeOK, ListeningOK, PlaceOK, FilesOK, Owned, Gone
<1>10. ASSUME ProcessListener PROVE HoldsInv'
  BY <1>10 DEF ProcessListener, fdsets, returned, scan, contexts, tasks, kernel,
    history, Actors, HoldsInv, TypeOK, ListeningOK, PlaceOK, FilesOK, Owned, Gone
<1>11. ASSUME ListenerReturned PROVE HoldsInv'
  BY <1>11 DEF ListenerReturned, fdsets, returned, scan, contexts, listening,
    tasks, kernel, history, HoldsInv, TypeOK, ListeningOK, PlaceOK, FilesOK, Owned,
    Gone
<1>12. ASSUME Release PROVE HoldsInv'
  BY <1>12 DEF Release, fdsets, returned, scan, contexts, listening, tasks, kernel,
    history, HoldsInv, TypeOK, ListeningOK, PlaceOK, FilesOK, Owned, Gone
<1>13. ASSUME ListenerTimer PROVE HoldsInv'
  <2>1. "task" \in Actors /\ "task" # "event"
    BY DEF Actors
  <2>2. listener' = [listener EXCEPT !["task"] = "accept"] /\ listener["task"] = "idle"
    BY <1>13 DEF ListenerTimer, Becomes
  <2>3. ListeningOK'
    BY <1>13, <2>1, <2>2 DEF ListenerTimer, eventThread, tasks, kernel, HoldsInv, TypeOK,
      ListeningOK
  <2>4. UNCHANGED <<fdsets, returned, selecting, sFDsToCloseArray, scan, pipe, contexts,
                    eventThread, newConn, tasks, kernel, history>>
          /\ listenerTimer' \in BOOLEAN
    BY <1>13 DEF ListenerTimer
  <2>5. TypeOK'
    BY <2>1, <2>2, <2>4 DEF fdsets, returned, scan, contexts, eventThread, tasks, kernel,
      history, HoldsInv, TypeOK
  <2>6. QED
    BY <2>3, <2>4, <2>5 DEF scan, contexts, eventThread, tasks, kernel, HoldsInv, PlaceOK,
      FilesOK, Owned, Gone
<1>14. ASSUME NEW a \in Actors, Accept(a) PROVE HoldsInv'
  <2>1. {kPipe, kListenFD} \subseteq open
    BY ContextFDs DEF HoldsInv, FilesOK, Owned
  <2>2. PICK c \in Conns, fd \in ConnFDs \ open :
          /\ task[c] = "none"
          /\ open' = open \union {fd} /\ writable' = writable \union {fd}
          /\ fFileDesc' = [fFileDesc EXCEPT ![c] = fd]
          /\ task' = [task EXCEPT ![c] = "new"]
          /\ newConn' = [newConn EXCEPT ![a] = c]
    BY <1>14, <2>1, AcceptStep DEF HoldsInv
  <2>3. /\ listener' = [listener EXCEPT ![a] = "watch"]
        /\ listener[a] = "accept" /\ backlog' = 0 /\ backlog = 1
    BY <1>14 DEF Accept, Becomes, HoldsInv, TypeOK
  <2>4. UNCHANGED <<fdsets, returned, selecting, sFDsToCloseArray, scan, pipe,
                    sUniqueID, fRefTable, fUniqueID, eventThread, listenerTimer,
                    signalled, readable, history>>
    BY <1>14 DEF Accept
  <2>5. TypeOK'
    BY <2>2, <2>3, <2>4 DEF fdsets, returned, scan, eventThread, history, HoldsInv, TypeOK,
      Contexts, ConnFDs
  <2>6. ListeningOK'
    <3>1. c # None /\ \A b \in Actors : newConn[b] = None
      BY <2>3, EventLoopAssumption DEF HoldsInv, ListeningOK, Contexts
    <3>2. QED
      BY <2>2, <2>3, <2>4, <3>1 DEF eventThread, HoldsInv, TypeOK, ListeningOK
  <2>7. PlaceOK'
    BY <2>4 DEF scan, eventThread, HoldsInv, PlaceOK
  <2>8. FilesOK'
    <3>1. c \in Contexts /\ c # Listener /\ fFileDesc[c] = kInvalidFileDesc
      BY <2>2, ContextFDs DEF Contexts, HoldsInv, FilesOK, Gone
    <3>2. fd \notin Owned /\ fd \notin sFDsToCloseArray
      BY <2>2 DEF HoldsInv, FilesOK
    <3>3. \A d \in Contexts : fFileDesc[d] # fd
      BY <2>2, <3>2, ContextFDs DEF Owned, ConnFDs
    <3>4. Owned' \subseteq open' \ sFDsToCloseArray'
      BY <2>2, <2>4, <3>1, <3>2 DEF HoldsInv, TypeOK, FilesOK, Owned
    <3>5. QED
      BY <2>2, <2>4, <3>1, <3>3, <3>4 DEF HoldsInv, TypeOK, FilesOK, Gone
  <2>9. QED
    BY <2>5, <2>6, <2>7, <2>8 DEF HoldsInv
<1>15. ASSUME NEW a \in Actors, AcceptFails(a) PROVE HoldsInv'
  BY <1>15 DEF AcceptFails, Becomes, fdsets, returned, scan, contexts, eventThread,
    tasks, HoldsInv, TypeOK, ListeningOK, PlaceOK, FilesOK, Owned, Gone
<1>16. ASSUME NEW a \in Actors, NothingToAccept(a) PROVE HoldsInv'
  BY <1>16 DEF NothingToAccept, Becomes, fdsets, returned, scan, contexts,
    eventThread, tasks, kernel, history, HoldsInv, TypeOK, ListeningOK, PlaceOK,
    FilesOK, Owned, Gone
<1>17. ASSUME NEW a \in Actors, WatchNew(a) PROVE HoldsInv'
  <2> DEFINE c == newConn[a]
  <2>1. c \in Conns /\ c \in Contexts /\ task[c] = "new" /\ fFileDesc[c] \in ConnFDs
    BY <1>17, ContextFDs DEF WatchNew, Contexts
  <2>2. NextId \in Ids
    BY EventLoopAssumption DEF NextId, Ids, HoldsInv, TypeOK
  <2>3. /\ sReadSet' = sReadSet \union {fFileDesc[c]}
        /\ sWriteSet' = sWriteSet \ {fFileDesc[c]}
        /\ sMaxFDPos' \in FDs
        /\ sCookieArray' \in [FDs -> Ids \union {NoId}]
        /\ asked' \in SUBSET Contexts
    BY <1>17, <2>1, <2>2 DEF WatchNew, FirstRequestEvent, ModWatch, HoldsInv, TypeOK, ConnFDs
  <2>4. /\ sUniqueID' \in Ids
        /\ fRefTable' \in [Ids -> Contexts \union {None}]
        /\ fUniqueID' \in [Contexts -> Ids \union {NoId}]
        /\ task' = [task EXCEPT ![c] = "rest"]
        /\ newConn' = [newConn EXCEPT ![a] = None]
        /\ listener' = [listener EXCEPT ![a] = "wakeNew"]
    BY <1>17, <2>1, <2>2 DEF WatchNew, FirstRequestEvent, Becomes, HoldsInv, TypeOK
  <2>5. UNCHANGED <<returned, selecting, sFDsToCloseArray, scan, pipe, eventThread,
                    listenerTimer, signalled, kernel, deaf, fFileDesc>>
    BY <1>17 DEF WatchNew, FirstRequestEvent, ModWatch
  <2>6. TypeOK'
    BY <2>1, <2>3, <2>4, <2>5 DEF returned, scan, eventThread, kernel, HoldsInv, TypeOK,
      ConnFDs
  <2>7. ListeningOK'
    <3>1. \A b \in Actors : b # a => newConn[b] # c /\ newConn[b] = None
      BY <2>1, <1>17, EventLoopAssumption DEF WatchNew, HoldsInv, ListeningOK, Contexts
    <3>2. QED
      BY <1>17, <2>4, <2>5, <3>1 DEF WatchNew, eventThread, kernel, HoldsInv, TypeOK,
        ListeningOK
  <2>8. PlaceOK' /\ FilesOK'
    BY <2>1, <2>4, <2>5 DEF scan, eventThread, kernel, HoldsInv, TypeOK, PlaceOK, FilesOK,
      Owned, Gone
  <2>9. QED
    BY <2>6, <2>7, <2>8 DEF HoldsInv
<1>18. ASSUME NEW a \in Actors, WakeForNew(a) PROVE HoldsInv'
  <2>1. PICK step \in {"rearm", "idle"} : listener' = [listener EXCEPT ![a] = step]
    BY <1>18 DEF WakeForNew, Becomes
  <2>2. UNCHANGED <<fdsets, returned, selecting, sFDsToCloseArray, scan, contexts,
                    eventThread, newConn, tasks, kernel, history>>
          /\ pipe' \in BOOLEAN /\ listenerTimer' \in BOOLEAN
    BY <1>18 DEF WakeForNew, WakeSelect, HoldsInv, TypeOK
  <2>3. TypeOK'
    BY <2>1, <2>2 DEF fdsets, returned, scan, contexts, eventThread, tasks, kernel,
      history, HoldsInv, TypeOK
  <2>4. ListeningOK'
    BY <1>18, <2>1, <2>2 DEF WakeForNew, eventThread, tasks, kernel, HoldsInv, TypeOK,
      ListeningOK, Actors
  <2>5. QED
    BY <2>2, <2>3, <2>4 DEF scan, contexts, eventThread, tasks, kernel, HoldsInv, PlaceOK,
      FilesOK, Owned, Gone
<1>19. ASSUME NEW a \in Actors, Rearm(a) PROVE HoldsInv'
  BY <1>19, ContextFDs DEF Rearm, ModWatch, Becomes, returned, scan, contexts,
    eventThread, tasks, kernel, HoldsInv, TypeOK, ListeningOK, PlaceOK, FilesOK,
    Owned, Gone
<1>20. ASSUME NEW a \in Actors, WakeForSelf(a) PROVE HoldsInv'
  BY <1>20 DEF WakeForSelf, WakeSelect, Becomes, fdsets, returned, scan, contexts,
    eventThread, tasks, kernel, history, HoldsInv, TypeOK, ListeningOK, PlaceOK,
    FilesOK, Owned, Gone
<1>21. ASSUME NEW c \in Conns, Run(c) PROVE HoldsInv'
  BY <1>21 DEF Run, Moves, fdsets, returned, scan, contexts, eventThread,
    listening, kernel, history, HoldsInv, TypeOK, ListeningOK, PlaceOK, FilesOK,
    Owned, Gone
<1>22. ASSUME NEW c \in Conns, ReadsAll(c) PROVE HoldsInv'
  BY <1>22, ContextFDs DEF ReadsAll, Moves, fdsets, returned, scan, contexts,
    eventThread, listening, history, HoldsInv, TypeOK, ListeningOK, PlaceOK,
    FilesOK, Owned, Gone
<1>23. ASSUME NEW c \in Conns, FlowControlled(c) PROVE HoldsInv'
  BY <1>23, ContextFDs DEF FlowControlled, Moves, fdsets, returned, scan, contexts,
    eventThread, listening, history, HoldsInv, TypeOK, ListeningOK, PlaceOK,
    FilesOK, Owned, Gone
<1>24. ASSUME NEW c \in Conns, RequestEvent(c) PROVE HoldsInv'
  <2>1. PICK mask \in {"read", "write"} : ModWatch(c, fUniqueID[c], mask)
    BY <1>24 DEF RequestEvent
  <2>2. c \in Contexts /\ fFileDesc[c] \in ConnFDs /\ task[c] \in {"askRead", "askWrite"}
    BY <1>24, ContextFDs DEF RequestEvent, Moves, Gone, Contexts
  <2>3. task' = [task EXCEPT ![c] = "wake"]
    BY <1>24 DEF RequestEvent, Moves
  <2>4. UNCHANGED <<returned, selecting, sFDsToCloseArray, scan, pipe, contexts,
                    eventThread, listening, signalled, kernel, deaf>>
    BY <1>24, <2>1 DEF RequestEvent, ModWatch
  <2>5. TypeOK'
    <3>1. /\ sReadSet' \in SUBSET FDs /\ sWriteSet' \in SUBSET ConnFDs
          /\ sMaxFDPos' \in FDs
          /\ sCookieArray' \in [FDs -> Ids \union {NoId}]
          /\ asked' \in SUBSET Contexts
      BY <2>1, <2>2 DEF ModWatch, HoldsInv, TypeOK, ConnFDs
    <3>2. QED
      BY <2>3, <2>4, <3>1 DEF returned, scan, contexts, eventThread, listening, kernel,
        HoldsInv, TypeOK
  <2>6. ListeningOK'
    BY <2>2, <2>3, <2>4 DEF eventThread, listening, kernel, HoldsInv, TypeOK, ListeningOK
  <2>7. PlaceOK' /\ FilesOK'
    BY <2>2, <2>3, <2>4 DEF scan, contexts, eventThread, kernel, HoldsInv, TypeOK, PlaceOK,
      FilesOK, Owned, Gone
  <2>8. QED
    BY <2>5, <2>6, <2>7 DEF HoldsInv
<1>25. ASSUME NEW c \in Conns, WakeForTask(c) PROVE HoldsInv'
  BY <1>25 DEF WakeForTask, Moves, WakeSelect, fdsets, returned, scan, contexts,
    eventThread, listening, kernel, history, HoldsInv, TypeOK, ListeningOK,
    PlaceOK, FilesOK, Owned, Gone
<1>26. ASSUME NEW c \in Conns, CleanupStarts(c) PROVE HoldsInv'
  BY <1>26 DEF CleanupStarts, UnRegister, Moves, fdsets, returned, scan,
    eventThread, listening, kernel, history, HoldsInv, TypeOK, ListeningOK,
    PlaceOK, FilesOK, Owned, Gone
<1>27. ASSUME NEW c \in Conns, CleanupRemoves(c) PROVE HoldsInv'
  <2> DEFINE fd == fFileDesc[c]
  <2>1. c \in Contexts /\ fd \in ConnFDs /\ fd \in FDs /\ task[c] = "remove"
    BY <1>27, ContextFDs DEF CleanupRemoves, Moves, Gone, Contexts, ConnFDs
  <2>2. /\ task' = [task EXCEPT ![c] = "wakeGone"]
        /\ fFileDesc' = [fFileDesc EXCEPT ![c] = kInvalidFileDesc]
        /\ fUniqueID' = [fUniqueID EXCEPT ![c] = NoId]
        /\ asked' = asked \ {c} /\ UNCHANGED deaf
        /\ sFDsToCloseArray' = sFDsToCloseArray \union {fd}
    BY <1>27 DEF CleanupRemoves, Moves, Forget, RemoveEvent
  <2>3. UNCHANGED <<selecting, scan, pipe, sUniqueID, fRefTable, eventThread,
                    listening, signalled, kernel>>
    BY <1>27 DEF CleanupRemoves
  <2>4. TypeOK'
    <3>1. (sReadSet \union sWriteSet) \ {fd} \in SUBSET FDs
      BY DEF HoldsInv, TypeOK, ConnFDs
    <3>2. sMaxFDPos' \in FDs
      BY <1>27, <3>1, LowerMaxType DEF CleanupRemoves, RemoveEvent, HoldsInv, TypeOK
    <3>3. /\ sReadSet' \in SUBSET FDs /\ sWriteSet' \in SUBSET ConnFDs
          /\ sReturnedReadSet' \in SUBSET FDs /\ sReturnedWriteSet' \in SUBSET ConnFDs
          /\ sCookieArray' \in [FDs -> Ids \union {NoId}]
      BY <1>27, <2>1 DEF CleanupRemoves, RemoveEvent, ClearFD, HoldsInv, TypeOK
    <3>4. QED
      BY <2>1, <2>2, <2>3, <3>2, <3>3 DEF scan, eventThread, listening, kernel, HoldsInv,
        TypeOK
  <2>5. ListeningOK' /\ PlaceOK'
    BY <2>1, <2>2, <2>3 DEF scan, eventThread, listening, kernel, HoldsInv, TypeOK,
      ListeningOK, PlaceOK
  <2>6. FilesOK'
    <3>1. fd # kInvalidFileDesc /\ Listener # c /\ fd \in Owned
      BY <2>1, ContextFDs DEF Owned, ConnFDs
    <3>2. \A d \in Contexts : d # c => fFileDesc[d] # fd
      BY <2>1, <3>1 DEF HoldsInv, FilesOK
    <3>3. Owned' \subseteq open' \ sFDsToCloseArray'
      BY <2>1, <2>2, <2>3, <3>2 DEF kernel, HoldsInv, TypeOK, FilesOK, Owned
    <3>4. QED
      BY <2>1, <2>2, <2>3, <3>1, <3>3 DEF kernel, HoldsInv, TypeOK, FilesOK, Gone, Owned
  <2>7. QED
    BY <2>4, <2>5, <2>6 DEF HoldsInv
<1>28. ASSUME NEW c \in Conns, CleanupEnds(c) PROVE HoldsInv'
  BY <1>28 DEF CleanupEnds, Moves, WakeSelect, fdsets, returned, scan, contexts,
    eventThread, listening, kernel, history, HoldsInv, TypeOK, ListeningOK,
    PlaceOK, FilesOK, Owned, Gone
<1>29. ASSUME NEW c \in Conns, RunAnyway(c) PROVE HoldsInv'
  BY <1>29 DEF RunAnyway, Moves, fdsets, returned, scan, contexts, eventThread,
    listening, kernel, history, HoldsInv, TypeOK, ListeningOK, PlaceOK, FilesOK,
    Owned, Gone
<1>30. ASSUME NEW c \in Conns, Dies(c) PROVE HoldsInv'
  BY <1>30 DEF Dies, Moves, fdsets, returned, scan, contexts, eventThread,
    listening, kernel, history, HoldsInv, TypeOK, ListeningOK, PlaceOK, FilesOK,
    Owned, Gone
<1>31. ASSUME Connect PROVE HoldsInv'
  BY <1>31 DEF Connect, fdsets, returned, scan, contexts, eventThread, listening,
    tasks, history, HoldsInv, TypeOK, ListeningOK, PlaceOK, FilesOK, Owned, Gone
<1>32. ASSUME NEW fd \in ConnFDs, DataArrives(fd) PROVE HoldsInv'
  BY <1>32 DEF DataArrives, fdsets, returned, scan, contexts, eventThread,
    listening, tasks, history, HoldsInv, TypeOK, ListeningOK, PlaceOK, FilesOK,
    Owned, Gone
<1>33. ASSUME NEW fd \in ConnFDs, OutputDrains(fd) PROVE HoldsInv'
  BY <1>33 DEF OutputDrains, fdsets, returned, scan, contexts, eventThread,
    listening, tasks, history, HoldsInv, TypeOK, ListeningOK, PlaceOK, FilesOK,
    Owned, Gone
<1>34. CASE UNCHANGED vars
  BY <1>34 DEF vars, fdsets, returned, scan, contexts, eventThread, listening, tasks,
    kernel, history, HoldsInv, TypeOK, ListeningOK, PlaceOK, FilesOK, Owned, Gone
<1>35. QED
  BY <1>1, <1>2, <1>3, <1>4, <1>5, <1>6, <1>7, <1>8, <1>9, <1>10, <1>11, <1>12,
    <1>13, <1>14, <1>15, <1>16, <1>17, <1>18, <1>19, <1>20, <1>21, <1>22, <1>23,
    <1>24, <1>25, <1>26, <1>27, <1>28, <1>29, <1>30, <1>31, <1>32, <1>33, <1>34 DEF
    Next, Event, Listens, Runs

LEMMA Holds == Spec => []HoldsInv
<1>1. HoldsInv /\ [Next]_vars => HoldsInv'
  BY HoldsStep
<1>2. QED
  BY <1>1, InitHolds, PTL DEF Spec

-----------------------------------------------------------------------------
(* As long as an id does not come round while it is in use, every context   *)
(* has its own, the table and the cookies agree with the contexts, and an   *)
(* event names the context that has its descriptor.                         *)
IdsOK ==
  /\ \A c \in Conns : fUniqueID[c] = NoId <=> task[c] \in Gone \union {"new"}
  /\ fUniqueID[Listener] # NoId
  /\ \A c, d \in Contexts : c # d /\ fUniqueID[c] = fUniqueID[d] => fUniqueID[c] = NoId
  /\ \A id \in Ids : fRefTable[id] # None => fUniqueID[fRefTable[id]] = id
  /\ \A c \in Contexts : fUniqueID[c] # NoId /\ (c \in Conns => task[c] # "remove")
                           => fRefTable[fUniqueID[c]] = c
  /\ \A id \in Ids : fRefTable[id] \in Conns => task[fRefTable[id]] # "remove"
  /\ backlog > 0 \/ (\E a \in Actors : newConn[a] # None) => ~InUse(NextId)

EventsOK ==
  /\ \A c \in Contexts : fFileDesc[c] \in FDs => sCookieArray[fFileDesc[c]] = fUniqueID[c]
  /\ \A fd \in FDs \ Owned : sCookieArray[fd] = NoId
  /\ pc = "deliver" /\ event.id # NoId =>
       \A c \in Contexts : fUniqueID[c] = event.id => fFileDesc[c] = event.fd
  /\ resolved \in Conns => task[resolved] \notin Gone \union {"new", "remove"}

IdsInv == IdsOK /\ EventsOK /\ OwnEvent

LEMMA NextIdType == ASSUME TypeOK PROVE NextId \in Ids /\ NextId # NoId /\ NoId \notin Ids
BY EventLoopAssumption DEF NextId, Ids, TypeOK, NoId

LEMMA InitIds == Init => IdsInv
<1> SUFFICES ASSUME Init PROVE IdsInv
  OBVIOUS
<1>1. Listener \in Contexts /\ Listener \notin Conns /\ None \notin Contexts /\ 2 \in Ids
  BY EventLoopAssumption DEF Contexts, Ids
<1>2. IdsOK
  BY <1>1 DEF Init, IdsOK, Gone, NoId, Contexts
<1>3. EventsOK /\ OwnEvent
  BY <1>1, FDsAreNat DEF Init, EventsOK, OwnEvent, Owned, NoId, kListenFD,
    kInvalidFileDesc, FDs, Contexts
<1>4. QED
  BY <1>2, <1>3 DEF IdsInv

(* Only WatchNew gives an id, one that nobody uses; UnRegister waits for the   *)
(* event thread's reference before the id can go.                              *)
LEMMA IdsStep ==
  ASSUME ReusesIds = FALSE, HoldsInv, IdsInv, [Next]_vars
  PROVE  IdsInv'
<1>1. ASSUME ScanReads \/ ScanWrites PROVE IdsInv'
  <2>1. pc = "scan" /\ ScanFrame
    BY <1>1, ScanStep DEF HoldsInv
  <2>2. CASE MovesOn
    BY <2>1, <2>2 DEF ScanFrame, MovesOn, contexts, listening, tasks, kernel, IdsInv, IdsOK,
      EventsOK, OwnEvent, Owned, Gone, InUse, NextId
  <2>3. ASSUME NEW fd \in FDs, Takes(fd) PROVE IdsInv'
    <3>1. event' = [fd |-> fd, id |-> sCookieArray[fd]] /\ pc' = "deliver"
      BY <2>3 DEF Takes, TakeEvent
    <3>2. sCookieArray[fd] # NoId =>
            \E c \in Contexts : fFileDesc[c] = fd /\ fUniqueID[c] = sCookieArray[fd]
      BY DEF IdsInv, EventsOK, Owned
    <3>3. IdsOK'
      <4>1. backlog > 0 \/ (\E a \in Actors : newConn[a] # None) => ~InUse(NextId)'
        BY <2>1, <3>1, <3>2, NextIdType DEF ScanFrame, contexts, HoldsInv, IdsInv, IdsOK,
          InUse, NextId
      <4>2. QED
        BY <2>1, <4>1 DEF ScanFrame, contexts, listening, tasks, kernel, IdsInv, IdsOK, Gone
    <3>4. EventsOK'
      BY <2>1, <3>1, <3>2 DEF ScanFrame, contexts, tasks, IdsInv, IdsOK, EventsOK, Owned, Gone
    <3>5. OwnEvent'
      BY <2>1 DEF ScanFrame, HoldsInv, PlaceOK, OwnEvent
    <3>6. QED
      BY <3>3, <3>4, <3>5 DEF IdsInv
  <2>4. QED
    BY <1>1, <2>2, <2>3, ScanStep DEF HoldsInv
<1>2. ASSUME CopySets PROVE IdsInv'
  BY <1>2 DEF CopySets, fdsets, contexts, listening, tasks, kernel, IdsInv, IdsOK,
    EventsOK, OwnEvent, Owned, Gone, InUse, NextId
<1>3. ASSUME CallSelect PROVE IdsInv'
  BY <1>3 DEF CallSelect, fdsets, contexts, listening, tasks, kernel, IdsInv,
    IdsOK, EventsOK, OwnEvent, Owned, Gone, InUse, NextId
<1>4. ASSUME SelectReturns PROVE IdsInv'
  BY <1>4 DEF SelectReturns, kPipe, kListenFD, Empty, fdsets, contexts, listening,
    tasks, kernel, IdsInv, IdsOK, EventsOK, OwnEvent, Owned, Gone, InUse, NextId
<1>5. ASSUME SelectTimesOut PROVE IdsInv'
  BY <1>5 DEF SelectTimesOut, kPipe, kListenFD, Empty, fdsets, contexts, listening,
    tasks, kernel, IdsInv, IdsOK, EventsOK, OwnEvent, Owned, Gone, InUse, NextId
<1>6. ASSUME DrainPipe PROVE IdsInv'
  BY <1>6 DEF DrainPipe, kPipe, fdsets, contexts, listening, tasks, kernel, IdsInv,
    IdsOK, EventsOK, OwnEvent, Owned, Gone, InUse, NextId
<1>7. ASSUME CloseRemoved PROVE IdsInv'
  BY <1>7 DEF CloseRemoved, fdsets, contexts, listening, tasks, IdsInv, IdsOK,
    EventsOK, OwnEvent, Owned, Gone, InUse, NextId
<1>8. ASSUME Resolve PROVE IdsInv'
  BY <1>8, EventLoopAssumption DEF Resolve, NoId, fdsets, contexts, listening,
    tasks, kernel, PlaceOK, HoldsInv, TypeOK, IdsInv, IdsOK, EventsOK, OwnEvent,
    Owned, Gone, InUse, NextId
<1>9. ASSUME NEW c \in Conns, ProcessEvent(c) PROVE IdsInv'
  BY <1>9 DEF ProcessEvent, Signal, fdsets, contexts, listening, kernel, IdsInv,
    IdsOK, EventsOK, OwnEvent, Owned, Gone, InUse, NextId
<1>10. ASSUME ProcessListener PROVE IdsInv'
  BY <1>10, EventLoopAssumption DEF ProcessListener, fdsets, contexts, tasks,
    kernel, Actors, IdsInv, IdsOK, EventsOK, OwnEvent, Owned, Gone, InUse, NextId
<1>11. ASSUME ListenerReturned PROVE IdsInv'
  BY <1>11 DEF ListenerReturned, fdsets, contexts, listening, tasks, kernel,
    IdsInv, IdsOK, EventsOK, OwnEvent, Owned, Gone, InUse, NextId
<1>12. ASSUME Release PROVE IdsInv'
  <2>1. pc # "deliver" /\ pc' # "deliver" /\ resolved' = None /\ None \notin Conns
    BY <1>12, EventLoopAssumption DEF Release, Contexts
  <2>2. UNCHANGED <<contexts, event, listening, tasks, kernel, sCookieArray>>
    BY <1>12 DEF Release, fdsets
  <2>3. IdsOK'
    BY <2>1, <2>2 DEF contexts, listening, tasks, kernel, IdsInv, IdsOK, InUse, NextId, Gone
  <2>4. EventsOK' /\ OwnEvent'
    BY <2>1, <2>2 DEF contexts, IdsInv, EventsOK, OwnEvent, Owned
  <2>5. QED
    BY <2>3, <2>4 DEF IdsInv
<1>13. ASSUME ListenerTimer PROVE IdsInv'
  BY <1>13 DEF ListenerTimer, Becomes, fdsets, contexts, eventThread, tasks,
    kernel, Actors, HoldsInv, TypeOK, IdsInv, IdsOK, EventsOK, OwnEvent, Owned,
    Gone, InUse, NextId
<1>14. ASSUME NEW a \in Actors, Accept(a) PROVE IdsInv'
  <2>1. {kPipe, kListenFD} \subseteq open
    BY ContextFDs DEF HoldsInv, FilesOK, Owned
  <2>2. PICK c \in Conns, fd \in ConnFDs \ open :
          /\ task[c] = "none"
          /\ fFileDesc' = [fFileDesc EXCEPT ![c] = fd]
          /\ task' = [task EXCEPT ![c] = "new"]
    BY <1>14, <2>1, AcceptStep DEF HoldsInv
  <2>3. backlog > 0 /\ UNCHANGED <<sUniqueID, fRefTable, fUniqueID, eventThread, sCookieArray>>
    BY <1>14 DEF Accept, fdsets
  <2>4. c \in Contexts /\ fUniqueID[c] = NoId /\ fd \in FDs \ Owned
    BY <2>2 DEF Contexts, ConnFDs, HoldsInv, FilesOK, IdsInv, IdsOK, Gone
  <2>5. IdsOK'
    <3>1. ~InUse(NextId)'
      BY <2>3 DEF eventThread, IdsInv, IdsOK, InUse, NextId
    <3>2. QED
      BY <2>2, <2>3, <2>4, <3>1, NextIdType DEF HoldsInv, TypeOK, IdsInv, IdsOK, Gone
  <2>6. EventsOK'
    <3>1. Owned \subseteq Owned' /\ sCookieArray[fd] = NoId
      BY <2>2, <2>4 DEF HoldsInv, TypeOK, FilesOK, Owned, Gone, IdsInv, EventsOK
    <3>2. QED
      BY <2>2, <2>3, <2>4, <3>1 DEF eventThread, HoldsInv, TypeOK, IdsInv, EventsOK, Gone
  <2>7. OwnEvent'
    BY <2>2, <2>3 DEF eventThread, HoldsInv, TypeOK, IdsInv, EventsOK, OwnEvent, Gone, Contexts
  <2>8. QED
    BY <2>5, <2>6, <2>7 DEF IdsInv
<1>15. ASSUME NEW a \in Actors, AcceptFails(a) PROVE IdsInv'
  BY <1>15 DEF AcceptFails, Becomes, fdsets, contexts, eventThread, tasks,
    HoldsInv, TypeOK, IdsInv, IdsOK, EventsOK, OwnEvent, Owned, Gone, InUse, NextId
<1>16. ASSUME NEW a \in Actors, NothingToAccept(a) PROVE IdsInv'
  BY <1>16 DEF NothingToAccept, Becomes, fdsets, contexts, eventThread, tasks,
    kernel, HoldsInv, TypeOK, IdsInv, IdsOK, EventsOK, OwnEvent, Owned, Gone,
    InUse, NextId
<1>17. ASSUME NEW a \in Actors, WatchNew(a) PROVE IdsInv'
  <2> DEFINE c == newConn[a]
  <2>1. c \in Conns /\ c \in Contexts /\ task[c] = "new" /\ fFileDesc[c] \in FDs
    BY <1>17, ContextFDs DEF WatchNew, Contexts, ConnFDs
  <2>2. ~InUse(NextId) /\ NextId \in Ids /\ NextId # NoId
    BY <1>17, <2>1, NextIdType, EventLoopAssumption DEF WatchNew, HoldsInv, ListeningOK,
      IdsInv, IdsOK, Contexts
  <2>3. fRefTable[NextId] = None
    BY <2>2 DEF IdsInv, IdsOK, InUse, HoldsInv, TypeOK
  <2>4. /\ fUniqueID' = [fUniqueID EXCEPT ![c] = NextId]
        /\ fRefTable' = [fRefTable EXCEPT ![NextId] = c]
        /\ sCookieArray' = [sCookieArray EXCEPT ![fFileDesc[c]] = NextId]
        /\ task' = [task EXCEPT ![c] = "rest"]
    BY <1>17, <2>3 DEF WatchNew, FirstRequestEvent, ModWatch
  <2>5. UNCHANGED <<fFileDesc, event, pc, resolved, backlog>>
    BY <1>17 DEF WatchNew, FirstRequestEvent, eventThread, kernel
  <2>6. backlog' = 0 /\ \A b \in Actors : newConn'[b] = None
    BY <1>17, <2>1, EventLoopAssumption DEF WatchNew, kernel, HoldsInv, TypeOK, ListeningOK,
      Contexts
  <2>7. fUniqueID[c] = NoId
    BY <2>1 DEF IdsInv, IdsOK
  <2>8. IdsOK'
    <3>1. ~(backlog' > 0) /\ ~(\E b \in Actors : newConn'[b] # None)
      BY <2>6
    <3>2. \A d \in Contexts : fUniqueID[d] # NextId
      BY <2>2 DEF InUse
    <3>3. \A d \in Conns : fUniqueID'[d] = NoId <=> task'[d] \in Gone \union {"new"}
      BY <2>1, <2>2, <2>4 DEF HoldsInv, TypeOK, IdsInv, IdsOK, Gone
    <3>4. /\ fUniqueID'[Listener] # NoId
          /\ \A d, e \in Contexts :
               d # e /\ fUniqueID'[d] = fUniqueID'[e] => fUniqueID'[d] = NoId
      BY <2>1, <2>2, <2>4, <2>7, <3>2, ContextFDs DEF HoldsInv, TypeOK, IdsInv, IdsOK
    <3>7. \A id \in Ids : fRefTable'[id] # None => fUniqueID'[fRefTable'[id]] = id
      BY <2>1, <2>2, <2>4, <2>7, NextIdType DEF HoldsInv, TypeOK, IdsInv, IdsOK
    <3>5. /\ \A d \in Contexts : fUniqueID'[d] # NoId /\ (d \in Conns => task'[d] # "remove")
                               => fRefTable'[fUniqueID'[d]] = d
          /\ \A id \in Ids : fRefTable'[id] \in Conns => task'[fRefTable'[id]] # "remove"
      BY <2>1, <2>2, <2>4, <3>2 DEF HoldsInv, TypeOK, IdsInv, IdsOK
    <3>6. QED
      BY <3>1, <3>3, <3>4, <3>5, <3>7 DEF IdsOK, Gone
  <2>9. EventsOK'
    <3>1. \A d \in Contexts : d # c => fFileDesc[d] # fFileDesc[c]
      BY <2>1, ContextFDs DEF HoldsInv, FilesOK
    <3>2. fFileDesc[c] \in Owned /\ Owned' = Owned
      BY <2>1, <2>5, ContextFDs DEF Owned
    <3>3. pc = "deliver" => event.id # NextId
      BY <2>2 DEF InUse
    <3>4. QED
      BY <2>1, <2>2, <2>4, <2>5, <3>1, <3>2, <3>3 DEF HoldsInv, TypeOK, IdsInv, EventsOK, Gone
  <2>10. OwnEvent'
    BY <2>5 DEF IdsInv, OwnEvent
  <2>11. QED
    BY <2>8, <2>9, <2>10 DEF IdsInv
<1>18. ASSUME NEW a \in Actors, WakeForNew(a) PROVE IdsInv'
  BY <1>18 DEF WakeForNew, WakeSelect, Becomes, fdsets, contexts, eventThread,
    tasks, kernel, HoldsInv, TypeOK, IdsInv, IdsOK, EventsOK, OwnEvent, Owned,
    Gone, InUse, NextId
<1>19. ASSUME NEW a \in Actors, Rearm(a) PROVE IdsInv'
  BY <1>19, ContextFDs DEF Rearm, ModWatch, Becomes, contexts, eventThread, tasks,
    kernel, HoldsInv, TypeOK, IdsInv, IdsOK, EventsOK, OwnEvent, Owned, Gone,
    InUse, NextId
<1>20. ASSUME NEW a \in Actors, WakeForSelf(a) PROVE IdsInv'
  BY <1>20 DEF WakeForSelf, WakeSelect, Becomes, fdsets, contexts, eventThread,
    tasks, kernel, HoldsInv, TypeOK, IdsInv, IdsOK, EventsOK, OwnEvent, Owned,
    Gone, InUse, NextId
<1>21. ASSUME NEW c \in Conns, Run(c) PROVE IdsInv'
  BY <1>21 DEF Run, Moves, fdsets, contexts, eventThread, listening, kernel,
    HoldsInv, TypeOK, IdsInv, IdsOK, EventsOK, OwnEvent, Owned, Gone, InUse, NextId
<1>22. ASSUME NEW c \in Conns, ReadsAll(c) PROVE IdsInv'
  BY <1>22 DEF ReadsAll, Moves, fdsets, contexts, eventThread, listening, HoldsInv,
    TypeOK, IdsInv, IdsOK, EventsOK, OwnEvent, Owned, Gone, InUse, NextId
<1>23. ASSUME NEW c \in Conns, FlowControlled(c) PROVE IdsInv'
  BY <1>23 DEF FlowControlled, Moves, fdsets, contexts, eventThread, listening,
    HoldsInv, TypeOK, IdsInv, IdsOK, EventsOK, OwnEvent, Owned, Gone, InUse, NextId
<1>24. ASSUME NEW c \in Conns, RequestEvent(c) PROVE IdsInv'
  <2>1. c \in Contexts /\ fFileDesc[c] \in FDs /\ task[c] \in {"askRead", "askWrite"}
    BY <1>24, ContextFDs DEF RequestEvent, Moves, Gone, Contexts, ConnFDs
  <2>2. /\ task' = [task EXCEPT ![c] = "wake"]
        /\ sCookieArray' = [sCookieArray EXCEPT ![fFileDesc[c]] = fUniqueID[c]]
    BY <1>24 DEF RequestEvent, Moves, ModWatch
  <2>3. sCookieArray' = sCookieArray
    BY <2>1, <2>2 DEF HoldsInv, TypeOK, IdsInv, EventsOK
  <2>4. UNCHANGED <<contexts, eventThread, newConn, backlog>>
    BY <1>24 DEF RequestEvent, listening, kernel
  <2>5. IdsOK'
    BY <2>1, <2>2, <2>4 DEF contexts, eventThread, HoldsInv, TypeOK, IdsInv, IdsOK, Gone,
      InUse, NextId
  <2>6. EventsOK' /\ OwnEvent'
    BY <2>1, <2>2, <2>3, <2>4 DEF contexts, eventThread, HoldsInv, TypeOK, IdsInv,
      EventsOK, OwnEvent, Owned, Gone
  <2>7. QED
    BY <2>5, <2>6 DEF IdsInv
<1>25. ASSUME NEW c \in Conns, WakeForTask(c) PROVE IdsInv'
  BY <1>25 DEF WakeForTask, Moves, WakeSelect, fdsets, contexts, eventThread,
    listening, kernel, HoldsInv, TypeOK, IdsInv, IdsOK, EventsOK, OwnEvent, Owned,
    Gone, InUse, NextId
<1>26. ASSUME NEW c \in Conns, CleanupStarts(c) PROVE IdsInv'
  <2>1. /\ task[c] = "dying" /\ resolved # c
        /\ task' = [task EXCEPT ![c] = "remove"]
        /\ fRefTable' = [id \in Ids |-> IF fRefTable[id] = c THEN None ELSE fRefTable[id]]
    BY <1>26 DEF CleanupStarts, UnRegister, Moves
  <2>2. UNCHANGED <<sUniqueID, fFileDesc, fUniqueID, event, pc, resolved, backlog, newConn,
                    sCookieArray>>
    BY <1>26 DEF CleanupStarts, eventThread, listening, kernel, fdsets
  <2>3. c \in Contexts /\ None # c
    BY EventLoopAssumption DEF Contexts
  <2>4. IdsOK'
    <3>1. backlog' > 0 \/ (\E a \in Actors : newConn'[a] # None) => ~InUse(NextId)'
      BY <2>2 DEF IdsInv, IdsOK, InUse, NextId
    <3>2. \A d \in Conns : fUniqueID'[d] = NoId <=> task'[d] \in Gone \union {"new"}
      BY <2>1, <2>2 DEF HoldsInv, TypeOK, IdsInv, IdsOK, Gone
    <3>3. \A d \in Contexts : fUniqueID'[d] # NoId /\ (d \in Conns => task'[d] # "remove")
                               => fRefTable'[fUniqueID'[d]] = d
      BY <2>1, <2>2 DEF HoldsInv, TypeOK, IdsInv, IdsOK, Contexts
    <3>4. \A id \in Ids : fRefTable'[id] \in Conns => task'[fRefTable'[id]] # "remove"
      BY <2>1, <2>2, EventLoopAssumption DEF HoldsInv, TypeOK, IdsInv, IdsOK, Contexts
    <3>5. \A id \in Ids : fRefTable'[id] # None => fUniqueID'[fRefTable'[id]] = id
      BY <2>1, <2>2 DEF IdsInv, IdsOK
    <3>6. QED
      BY <2>2, <3>1, <3>2, <3>3, <3>4, <3>5 DEF IdsInv, IdsOK, Gone
  <2>5. EventsOK' /\ OwnEvent'
    BY <2>1, <2>2 DEF HoldsInv, TypeOK, IdsInv, EventsOK, OwnEvent, Owned, Gone
  <2>6. QED
    BY <2>4, <2>5 DEF IdsInv
<1>27. ASSUME NEW c \in Conns, CleanupRemoves(c) PROVE IdsInv'
  <2> DEFINE fd == fFileDesc[c]
  <2>1. c \in Contexts /\ fd \in FDs /\ fd \in Owned /\ task[c] = "remove"
    BY <1>27, ContextFDs DEF CleanupRemoves, Moves, Gone, Contexts, ConnFDs, Owned
  <2>2. /\ task' = [task EXCEPT ![c] = "wakeGone"]
        /\ fFileDesc' = [fFileDesc EXCEPT ![c] = kInvalidFileDesc]
        /\ fUniqueID' = [fUniqueID EXCEPT ![c] = NoId]
        /\ sCookieArray' = [sCookieArray EXCEPT ![fd] = NoId]
    BY <1>27 DEF CleanupRemoves, Moves, Forget, RemoveEvent, ClearFD
  <2>3. UNCHANGED <<sUniqueID, fRefTable, event, pc, resolved, backlog, newConn>>
    BY <1>27 DEF CleanupRemoves, eventThread, listening, kernel
  <2>4. c # Listener /\ \A d \in Contexts : d # c => fFileDesc[d] # fd
    BY <2>1, ContextFDs DEF HoldsInv, FilesOK
  <2>5. resolved # c
    BY <2>1 DEF IdsInv, EventsOK
  <2>6. IdsOK'
    <3>1. backlog' > 0 \/ (\E a \in Actors : newConn'[a] # None) => ~InUse(NextId)'
      BY <2>1, <2>2, <2>3, NextIdType DEF HoldsInv, TypeOK, IdsInv, IdsOK, InUse, NextId
    <3>2. \A d \in Conns : fUniqueID'[d] = NoId <=> task'[d] \in Gone \union {"new"}
      BY <2>1, <2>2 DEF HoldsInv, TypeOK, IdsInv, IdsOK, Gone
    <3>3. \A id \in Ids : fRefTable[id] # c
      BY <2>1, EventLoopAssumption DEF IdsInv, IdsOK, Contexts
    <3>4. \A id \in Ids : fRefTable'[id] # None => fUniqueID'[fRefTable'[id]] = id
      BY <2>1, <2>2, <2>3, <3>3 DEF HoldsInv, TypeOK, IdsInv, IdsOK
    <3>5. \A id \in Ids : fRefTable'[id] \in Conns => task'[fRefTable'[id]] # "remove"
      BY <2>1, <2>2, <2>3, <3>3 DEF HoldsInv, TypeOK, IdsInv, IdsOK
    <3>6. QED
      BY <2>1, <2>2, <2>3, <2>4, <3>1, <3>2, <3>4, <3>5, ContextFDs DEF HoldsInv, TypeOK,
        IdsInv, IdsOK, Gone
  <2>7. EventsOK'
    <3>1. Owned' = Owned \ {fd}
      BY <2>1, <2>2, <2>4 DEF HoldsInv, TypeOK, Owned
    <3>2. QED
      BY <2>1, <2>2, <2>3, <2>4, <2>5, <3>1, ContextFDs DEF HoldsInv, TypeOK, IdsInv,
        EventsOK, Gone
  <2>8. OwnEvent'
    BY <2>1, <2>2, <2>3, <2>5 DEF HoldsInv, TypeOK, IdsInv, OwnEvent
  <2>9. QED
    BY <2>6, <2>7, <2>8 DEF IdsInv
<1>28. ASSUME NEW c \in Conns, CleanupEnds(c) PROVE IdsInv'
  BY <1>28 DEF CleanupEnds, Moves, WakeSelect, fdsets, contexts, eventThread,
    listening, kernel, HoldsInv, TypeOK, IdsInv, IdsOK, EventsOK, OwnEvent, Owned,
    Gone, InUse, NextId
<1>29. ASSUME NEW c \in Conns, RunAnyway(c) PROVE IdsInv'
  BY <1>29 DEF RunAnyway, Moves, fdsets, contexts, eventThread, listening, kernel,
    HoldsInv, TypeOK, IdsInv, IdsOK, EventsOK, OwnEvent, Owned, Gone, InUse, NextId
<1>30. ASSUME NEW c \in Conns, Dies(c) PROVE IdsInv'
  BY <1>30 DEF Dies, Moves, fdsets, contexts, eventThread, listening, kernel,
    HoldsInv, TypeOK, IdsInv, IdsOK, EventsOK, OwnEvent, Owned, Gone, InUse, NextId
<1>31. ASSUME Connect PROVE IdsInv'
  BY <1>31, NextIdType DEF Connect, fdsets, contexts, eventThread, listening,
    tasks, HoldsInv, TypeOK, IdsInv, IdsOK, EventsOK, OwnEvent, Owned, Gone, InUse,
    NextId
<1>32. ASSUME NEW fd \in ConnFDs, DataArrives(fd) PROVE IdsInv'
  BY <1>32 DEF DataArrives, fdsets, contexts, eventThread, listening, tasks,
    IdsInv, IdsOK, EventsOK, OwnEvent, Owned, Gone, InUse, NextId
<1>33. ASSUME NEW fd \in ConnFDs, OutputDrains(fd) PROVE IdsInv'
  BY <1>33 DEF OutputDrains, fdsets, contexts, eventThread, listening, tasks,
    IdsInv, IdsOK, EventsOK, OwnEvent, Owned, Gone, InUse, NextId
<1>34. CASE UNCHANGED vars
  BY <1>34 DEF vars, fdsets, contexts, eventThread, listening, tasks, kernel,
    IdsInv, IdsOK, EventsOK, OwnEvent, Owned, Gone, InUse, NextId
<1>35. QED
  BY <1>1, <1>2, <1>3, <1>4, <1>5, <1>6, <1>7, <1>8, <1>9, <1>10, <1>11, <1>12,
    <1>13, <1>14, <1>15, <1>16, <1>17, <1>18, <1>19, <1>20, <1>21, <1>22, <1>23,
    <1>24, <1>25, <1>26, <1>27, <1>28, <1>29, <1>30, <1>31, <1>32, <1>33, <1>34 DEF
    Next, Event, Listens, Runs

LEMMA IdsHold == ASSUME ReusesIds = FALSE PROVE Spec => []IdsInv
<1>1. HoldsInv /\ IdsInv /\ [Next]_vars => IdsInv'
  BY IdsStep
<1>2. QED
  BY <1>1, InitIds, Holds, PTL DEF Spec

-----------------------------------------------------------------------------
(* The sets: the pipe is always in them, the others belong to contexts and  *)
(* lie within sMaxFDPos; what select() is called with is open.              *)
SetsOK ==
  /\ kPipe \in sReadSet
  /\ sReadSet \union sWriteSet \subseteq {kPipe} \union Owned
  /\ sReadSet \intersect sWriteSet = {}
  /\ sReturnedReadSet \intersect sReturnedWriteSet = {}
  /\ selecting.read \intersect selecting.write = {}
  /\ \A fd \in sReadSet \union sWriteSet : fd <= sMaxFDPos

ReturnedOK ==
  /\ pc \in {"scan", "close", "deliver", "process", "listening", "release"}
       => kPipe \notin sReturnedReadSet
  /\ pc = "select" => /\ kPipe \in sReturnedReadSet
                      /\ sReturnedReadSet \union sReturnedWriteSet \subseteq open
  /\ pc = "blocked" => kPipe \in selecting.read
  /\ pc # "blocked" => selecting = Empty

SetsInv == SetsOK /\ ReturnedOK /\ WatchedAreOpen

LEMMA OwnedOpen ==
  ASSUME HoldsInv
  PROVE  {kPipe} \union Owned \subseteq open \ sFDsToCloseArray
BY DEF HoldsInv, TypeOK, FilesOK, ConnFDs

(* modwatch adds the descriptor of a context and raises sMaxFDPos over it.     *)
LEMMA ModWatchSets ==
  ASSUME HoldsInv, SetsInv, NEW c \in Contexts, NEW id, NEW mask \in {"read", "write"},
         fFileDesc[c] \in FDs, ModWatch(c, id, mask),
         UNCHANGED <<returned, selecting, pc, open, fFileDesc>>
  PROVE  SetsInv'
<1> DEFINE fd == fFileDesc[c]
<1>1. fd \in Owned /\ fd # kPipe /\ fd \in open /\ Owned' = Owned
  BY ContextFDs, OwnedOpen DEF Owned
<1>2. /\ sReadSet' = IF mask = "read" THEN sReadSet \union {fd} ELSE sReadSet \ {fd}
      /\ sWriteSet' = IF mask = "write" THEN sWriteSet \union {fd} ELSE sWriteSet \ {fd}
      /\ sMaxFDPos' = IF fd > sMaxFDPos THEN fd ELSE sMaxFDPos
  BY DEF ModWatch
<1>3. SetsOK'
  <2>1. \A f \in sReadSet' \union sWriteSet' : f <= sMaxFDPos'
    BY <1>2, FDsAreNat DEF HoldsInv, TypeOK, ConnFDs, SetsInv, SetsOK
  <2>2. QED
    BY <1>1, <1>2, <2>1 DEF returned, SetsInv, SetsOK
<1>4. ReturnedOK' /\ WatchedAreOpen'
  BY <1>1, <1>2 DEF returned, SetsInv, ReturnedOK, WatchedAreOpen
<1>5. QED
  BY <1>3, <1>4 DEF SetsInv

LEMMA InitSets == Init => SetsInv
<1> SUFFICES ASSUME Init PROVE SetsInv
  OBVIOUS
<1>1. Listener \in Contexts
  BY EventLoopAssumption DEF Contexts
<1>2. kListenFD \in Owned
  BY <1>1 DEF Init, Owned, kListenFD, kInvalidFileDesc
<1>3. QED
  BY <1>2 DEF Init, SetsInv, SetsOK, ReturnedOK, WatchedAreOpen, kPipe, kListenFD, Empty

(* What is scanned leaves both its returned set and the sets; what is given up *)
(* leaves all four, and is closed when select() is over.                       *)
LEMMA SetsStep == ASSUME HoldsInv, SetsInv, [Next]_vars PROVE SetsInv'
<1>1. ASSUME ScanReads \/ ScanWrites PROVE SetsInv'
  <2>1. pc = "scan" /\ ScanFrame
    BY <1>1, ScanStep DEF HoldsInv
  <2>2. CASE MovesOn
    BY <2>1, <2>2 DEF ScanFrame, MovesOn, returned, contexts, kernel, SetsInv, SetsOK,
      ReturnedOK, WatchedAreOpen, Owned
  <2>3. ASSUME NEW fd \in FDs, Takes(fd) PROVE SetsInv'
    <3>1. kPipe \notin sReturnedReadSet \union sReturnedWriteSet
      BY <2>1 DEF HoldsInv, TypeOK, ConnFDs, SetsInv, ReturnedOK
    <3>2. QED
      BY <2>1, <2>3, <3>1 DEF ScanFrame, Takes, TakenFrom, TakeEvent, contexts, kernel,
        SetsInv, SetsOK, ReturnedOK, WatchedAreOpen, Owned
  <2>4. QED
    BY <1>1, <2>2, <2>3, ScanStep DEF HoldsInv
<1>2. ASSUME CopySets PROVE SetsInv'
  BY <1>2 DEF CopySets, fdsets, contexts, kernel, FilesOK, HoldsInv, TypeOK,
    ConnFDs, SetsInv, SetsOK, ReturnedOK, WatchedAreOpen, Owned
<1>3. ASSUME CallSelect PROVE SetsInv'
  BY <1>3 DEF CallSelect, fdsets, returned, contexts, kernel, HoldsInv, TypeOK,
    ConnFDs, SetsInv, SetsOK, ReturnedOK, WatchedAreOpen, Owned, Empty, kPipe
<1>4. ASSUME SelectReturns PROVE SetsInv'
  BY <1>4 DEF SelectReturns, kPipe, kListenFD, Empty, fdsets, contexts, kernel,
    Ready, Readable, HoldsInv, TypeOK, ConnFDs, SetsInv, SetsOK, ReturnedOK,
    WatchedAreOpen, Owned
<1>5. ASSUME SelectTimesOut PROVE SetsInv'
  BY <1>5 DEF SelectTimesOut, kPipe, kListenFD, Empty, fdsets, contexts, kernel,
    Ready, Readable, HoldsInv, TypeOK, ConnFDs, SetsInv, SetsOK, ReturnedOK,
    WatchedAreOpen, Owned
<1>6. ASSUME DrainPipe PROVE SetsInv'
  BY <1>6 DEF DrainPipe, kPipe, fdsets, contexts, kernel, HoldsInv, TypeOK,
    ConnFDs, SetsInv, SetsOK, ReturnedOK, WatchedAreOpen, Owned, Empty
<1>7. ASSUME CloseRemoved PROVE SetsInv'
  <2>1. sReadSet \union sWriteSet \subseteq open' /\ selecting = Empty
    BY <1>7, OwnedOpen DEF CloseRemoved, SetsInv, SetsOK, ReturnedOK
  <2>2. QED
    BY <1>7, <2>1 DEF CloseRemoved, fdsets, returned, contexts, SetsInv, SetsOK,
      ReturnedOK, WatchedAreOpen, Owned, Empty
<1>8. ASSUME Resolve PROVE SetsInv'
  BY <1>8 DEF Resolve, NoId, fdsets, returned, contexts, kernel, SetsInv, SetsOK,
    ReturnedOK, WatchedAreOpen, Owned
<1>9. ASSUME NEW c \in Conns, ProcessEvent(c) PROVE SetsInv'
  BY <1>9 DEF ProcessEvent, Signal, fdsets, returned, contexts, kernel, SetsInv,
    SetsOK, ReturnedOK, WatchedAreOpen, Owned
<1>10. ASSUME ProcessListener PROVE SetsInv'
  BY <1>10 DEF ProcessListener, fdsets, returned, contexts, kernel, SetsInv,
    SetsOK, ReturnedOK, WatchedAreOpen, Owned
<1>11. ASSUME ListenerReturned PROVE SetsInv'
  BY <1>11 DEF ListenerReturned, fdsets, returned, contexts, kernel, SetsInv,
    SetsOK, ReturnedOK, WatchedAreOpen, Owned
<1>12. ASSUME Release PROVE SetsInv'
  BY <1>12 DEF Release, fdsets, returned, contexts, kernel, SetsInv, SetsOK,
    ReturnedOK, WatchedAreOpen, Owned
<1>13. ASSUME ListenerTimer PROVE SetsInv'
  BY <1>13 DEF ListenerTimer, fdsets, returned, contexts, eventThread, kernel,
    SetsInv, SetsOK, ReturnedOK, WatchedAreOpen, Owned
<1>14. ASSUME NEW a \in Actors, Accept(a) PROVE SetsInv'
  <2>1. {kPipe, kListenFD} \subseteq open
    BY ContextFDs DEF HoldsInv, FilesOK, Owned
  <2>2. PICK c \in Conns, fd \in ConnFDs \ open :
          /\ task[c] = "none"
          /\ open' = open \union {fd}
          /\ fFileDesc' = [fFileDesc EXCEPT ![c] = fd]
    BY <1>14, <2>1, AcceptStep DEF HoldsInv
  <2>3. UNCHANGED <<fdsets, returned, selecting, pc>>
    BY <1>14 DEF Accept, eventThread
  <2>4. Owned \subseteq Owned'
    BY <2>2 DEF HoldsInv, TypeOK, FilesOK, Owned, Gone
  <2>5. QED
    BY <2>2, <2>3, <2>4 DEF fdsets, returned, SetsInv, SetsOK, ReturnedOK, WatchedAreOpen
<1>15. ASSUME NEW a \in Actors, AcceptFails(a) PROVE SetsInv'
  BY <1>15 DEF AcceptFails, fdsets, returned, contexts, eventThread, SetsInv,
    SetsOK, ReturnedOK, WatchedAreOpen, Owned
<1>16. ASSUME NEW a \in Actors, NothingToAccept(a) PROVE SetsInv'
  BY <1>16 DEF NothingToAccept, fdsets, returned, contexts, eventThread, kernel,
    SetsInv, SetsOK, ReturnedOK, WatchedAreOpen, Owned
<1>17. ASSUME NEW a \in Actors, WatchNew(a) PROVE SetsInv'
  <2>1. newConn[a] \in Contexts /\ fFileDesc[newConn[a]] \in FDs
    BY <1>17, ContextFDs DEF WatchNew, Contexts, ConnFDs
  <2>2. /\ ModWatch(newConn[a], NextId, "read")
        /\ UNCHANGED <<returned, selecting, pc, open, fFileDesc>>
    BY <1>17 DEF WatchNew, FirstRequestEvent, eventThread, kernel
  <2>3. QED
    BY <2>1, <2>2, ModWatchSets
<1>18. ASSUME NEW a \in Actors, WakeForNew(a) PROVE SetsInv'
  BY <1>18 DEF WakeForNew, fdsets, returned, contexts, eventThread, kernel,
    SetsInv, SetsOK, ReturnedOK, WatchedAreOpen, Owned
<1>19. ASSUME NEW a \in Actors, Rearm(a) PROVE SetsInv'
  <2>1. /\ ModWatch(Listener, fUniqueID[Listener], "read")
        /\ UNCHANGED <<returned, selecting, pc, open, fFileDesc>>
    BY <1>19 DEF Rearm, contexts, eventThread, kernel
  <2>2. QED
    BY <2>1, ContextFDs, ModWatchSets
<1>20. ASSUME NEW a \in Actors, WakeForSelf(a) PROVE SetsInv'
  BY <1>20 DEF WakeForSelf, fdsets, returned, contexts, eventThread, kernel,
    SetsInv, SetsOK, ReturnedOK, WatchedAreOpen, Owned
<1>21. ASSUME NEW c \in Conns, Run(c) PROVE SetsInv'
  BY <1>21 DEF Run, fdsets, returned, contexts, eventThread, kernel, SetsInv,
    SetsOK, ReturnedOK, WatchedAreOpen, Owned
<1>22. ASSUME NEW c \in Conns, ReadsAll(c) PROVE SetsInv'
  BY <1>22 DEF ReadsAll, fdsets, returned, contexts, eventThread, SetsInv, SetsOK,
    ReturnedOK, WatchedAreOpen, Owned
<1>23. ASSUME NEW c \in Conns, FlowControlled(c) PROVE SetsInv'
  BY <1>23 DEF FlowControlled, fdsets, returned, contexts, eventThread, SetsInv,
    SetsOK, ReturnedOK, WatchedAreOpen, Owned
<1>24. ASSUME NEW c \in Conns, RequestEvent(c) PROVE SetsInv'
  <2>1. c \in Contexts /\ fFileDesc[c] \in FDs
    BY <1>24, ContextFDs DEF RequestEvent, Moves, Gone, Contexts, ConnFDs
  <2>2. PICK mask \in {"read", "write"} : ModWatch(c, fUniqueID[c], mask)
    BY <1>24 DEF RequestEvent
  <2>3. UNCHANGED <<returned, selecting, pc, open, fFileDesc>>
    BY <1>24 DEF RequestEvent, contexts, eventThread, kernel
  <2>4. QED
    BY <2>1, <2>2, <2>3, ModWatchSets
<1>25. ASSUME NEW c \in Conns, WakeForTask(c) PROVE SetsInv'
  BY <1>25 DEF WakeForTask, fdsets, returned, contexts, eventThread, kernel,
    SetsInv, SetsOK, ReturnedOK, WatchedAreOpen, Owned
<1>26. ASSUME NEW c \in Conns, CleanupStarts(c) PROVE SetsInv'
  BY <1>26 DEF CleanupStarts, UnRegister, fdsets, returned, eventThread, kernel,
    SetsInv, SetsOK, ReturnedOK, WatchedAreOpen, Owned
<1>27. ASSUME NEW c \in Conns, CleanupRemoves(c) PROVE SetsInv'
  <2> DEFINE fd == fFileDesc[c]
             sets == (sReadSet \union sWriteSet) \ {fd}
  <2>1. c \in Contexts /\ fd \in FDs /\ fd # kPipe
    BY <1>27, ContextFDs DEF CleanupRemoves, Moves, Gone, Contexts, ConnFDs
  <2>2. /\ sReadSet' = sReadSet \ {fd} /\ sWriteSet' = sWriteSet \ {fd}
        /\ sReturnedReadSet' = sReturnedReadSet \ {fd}
        /\ sReturnedWriteSet' = sReturnedWriteSet \ {fd}
        /\ sMaxFDPos' = LowerMax(fd, sets)
        /\ fFileDesc' = [fFileDesc EXCEPT ![c] = kInvalidFileDesc]
        /\ UNCHANGED <<selecting, pc, open>>
    BY <1>27 DEF CleanupRemoves, Forget, RemoveEvent, ClearFD, eventThread, kernel
  <2>3. \A f \in sets : f <= LowerMax(fd, sets)
    <3>1. sets \in SUBSET FDs /\ fd \notin sets /\ \A f \in sets : f <= sMaxFDPos
      BY DEF HoldsInv, TypeOK, ConnFDs, SetsInv, SetsOK
    <3> HIDE DEF fd, sets
    <3>2. QED
      BY <2>1, <3>1, LowerMaxIsRight DEF HoldsInv, TypeOK
  <2>4. SetsOK'
    <3>1. Owned \ {fd} \subseteq Owned'
      BY <2>1, <2>2 DEF HoldsInv, TypeOK, Owned
    <3>2. QED
      BY <2>1, <2>2, <2>3, <3>1 DEF SetsInv, SetsOK
  <2>5. ReturnedOK' /\ WatchedAreOpen'
    BY <2>1, <2>2 DEF SetsInv, ReturnedOK, WatchedAreOpen
  <2>6. QED
    BY <2>4, <2>5 DEF SetsInv
<1>28. ASSUME NEW c \in Conns, CleanupEnds(c) PROVE SetsInv'
  BY <1>28 DEF CleanupEnds, fdsets, returned, contexts, eventThread, kernel,
    SetsInv, SetsOK, ReturnedOK, WatchedAreOpen, Owned
<1>29. ASSUME NEW c \in Conns, RunAnyway(c) PROVE SetsInv'
  BY <1>29 DEF RunAnyway, fdsets, returned, contexts, eventThread, kernel, SetsInv,
    SetsOK, ReturnedOK, WatchedAreOpen, Owned
<1>30. ASSUME NEW c \in Conns, Dies(c) PROVE SetsInv'
  BY <1>30 DEF Dies, fdsets, returned, contexts, eventThread, kernel, SetsInv,
    SetsOK, ReturnedOK, WatchedAreOpen, Owned
<1>31. ASSUME Connect PROVE SetsInv'
  BY <1>31 DEF Connect, fdsets, returned, contexts, eventThread, SetsInv, SetsOK,
    ReturnedOK, WatchedAreOpen, Owned
<1>32. ASSUME NEW fd \in ConnFDs, DataArrives(fd) PROVE SetsInv'
  BY <1>32 DEF DataArrives, fdsets, returned, contexts, eventThread, SetsInv,
    SetsOK, ReturnedOK, WatchedAreOpen, Owned
<1>33. ASSUME NEW fd \in ConnFDs, OutputDrains(fd) PROVE SetsInv'
  BY <1>33 DEF OutputDrains, fdsets, returned, contexts, eventThread, SetsInv,
    SetsOK, ReturnedOK, WatchedAreOpen, Owned
<1>34. CASE UNCHANGED vars
  BY <1>34 DEF vars, fdsets, returned, contexts, eventThread, kernel, SetsInv, SetsOK,
    ReturnedOK, WatchedAreOpen, Owned
<1>35. QED
  BY <1>1, <1>2, <1>3, <1>4, <1>5, <1>6, <1>7, <1>8, <1>9, <1>10, <1>11, <1>12,
    <1>13, <1>14, <1>15, <1>16, <1>17, <1>18, <1>19, <1>20, <1>21, <1>22, <1>23,
    <1>24, <1>25, <1>26, <1>27, <1>28, <1>29, <1>30, <1>31, <1>32, <1>33, <1>34 DEF
    Next, Event, Listens, Runs

LEMMA SetsHold == Spec => []SetsInv
<1>1. HoldsInv /\ SetsInv /\ [Next]_vars => SetsInv'
  BY SetsStep
<1>2. QED
  BY <1>1, InitSets, Holds, PTL DEF Spec

-----------------------------------------------------------------------------
(* A descriptor that is given up leaves the event thread something to read, *)
(* now or soon; so does a change of the sets after they have been copied.   *)
SleepOK ==
  /\ sFDsToCloseArray # {} => pipe \/ AboutToWake \/ pc = "close"
  /\ pc = "select" =>
       \/ pipe \/ AboutToWake
       \/ sReadSet \subseteq sReturnedReadSet /\ sWriteSet \subseteq sReturnedWriteSet
            /\ sFDsToCloseArray = {}

SleepInv == SleepOK /\ SleepsSoundly

(* A byte in the pipe makes up for any change of the sets.                     *)
LEMMA WakeSleep ==
  ASSUME SetsInv, WakeSelect, UNCHANGED <<selecting, pc>>
  PROVE  SleepInv'
BY DEF WakeSelect, SetsInv, ReturnedOK, SleepInv, SleepOK, SleepsSoundly

LEMMA InitSleep == Init => SleepInv
BY DEF Init, SleepInv, SleepOK, SleepsSoundly

(* A change of the sets leaves its thread about to write to the pipe.          *)
LEMMA SleepStep == ASSUME HoldsInv, SetsInv, SleepInv, [Next]_vars PROVE SleepInv'
<1>1. ASSUME ScanReads \/ ScanWrites PROVE SleepInv'
  <2>1. pc = "scan" /\ ScanFrame
    BY <1>1, ScanStep DEF HoldsInv
  <2>2. pc' \in {"scan", "deliver"}
    BY <1>1, <2>1, ScanStep DEF MovesOn, Takes, TakeEvent, HoldsInv
  <2>3. QED
    BY <2>1, <2>2 DEF ScanFrame, listening, tasks, SleepInv, SleepOK, SleepsSoundly,
      AboutToWake
<1>2. ASSUME CopySets PROVE SleepInv'
  BY <1>2 DEF CopySets, fdsets, listening, tasks, SetsInv, SetsOK, ReturnedOK,
    SleepInv, SleepOK, SleepsSoundly, AboutToWake
<1>3. ASSUME CallSelect PROVE SleepInv'
  BY <1>3 DEF CallSelect, fdsets, returned, listening, tasks, SetsInv, SetsOK,
    ReturnedOK, SleepInv, SleepOK, SleepsSoundly, AboutToWake
<1>4. ASSUME SelectReturns PROVE SleepInv'
  BY <1>4 DEF SelectReturns, kPipe, kListenFD, Empty, fdsets, listening, tasks,
    SleepInv, SleepOK, SleepsSoundly, AboutToWake
<1>5. ASSUME SelectTimesOut PROVE SleepInv'
  BY <1>5 DEF SelectTimesOut, kPipe, kListenFD, Empty, fdsets, listening, tasks,
    SleepInv, SleepOK, SleepsSoundly, AboutToWake
<1>6. ASSUME DrainPipe PROVE SleepInv'
  BY <1>6 DEF DrainPipe, kPipe, fdsets, listening, tasks, SleepInv, SleepOK,
    SleepsSoundly, AboutToWake
<1>7. ASSUME CloseRemoved PROVE SleepInv'
  BY <1>7 DEF CloseRemoved, fdsets, returned, listening, tasks, SleepInv, SleepOK,
    SleepsSoundly, AboutToWake
<1>8. ASSUME Resolve PROVE SleepInv'
  BY <1>8 DEF Resolve, NoId, fdsets, returned, listening, tasks, SleepInv, SleepOK,
    SleepsSoundly, AboutToWake
<1>9. ASSUME NEW c \in Conns, ProcessEvent(c) PROVE SleepInv'
  BY <1>9 DEF ProcessEvent, Signal, fdsets, returned, listening, SleepInv, SleepOK,
    SleepsSoundly, AboutToWake
<1>10. ASSUME ProcessListener PROVE SleepInv'
  <2>1. listener["event"] = "idle" /\ listener' = [listener EXCEPT !["event"] = "accept"]
    BY <1>10 DEF ProcessListener, HoldsInv, ListeningOK
  <2>2. AboutToWake => AboutToWake'
    BY <1>10, <2>1 DEF ProcessListener, tasks, HoldsInv, TypeOK, AboutToWake
  <2>3. QED
    BY <1>10, <2>2 DEF ProcessListener, SleepInv, SleepOK, SleepsSoundly
<1>11. ASSUME ListenerReturned PROVE SleepInv'
  BY <1>11 DEF ListenerReturned, fdsets, returned, listening, tasks, SleepInv,
    SleepOK, SleepsSoundly, AboutToWake
<1>12. ASSUME Release PROVE SleepInv'
  BY <1>12 DEF Release, fdsets, returned, listening, tasks, SleepInv, SleepOK,
    SleepsSoundly, AboutToWake
<1>13. ASSUME ListenerTimer PROVE SleepInv'
  BY <1>13 DEF ListenerTimer, Becomes, fdsets, returned, eventThread, tasks,
    HoldsInv, TypeOK, SleepInv, SleepOK, SleepsSoundly, AboutToWake
<1>14. ASSUME NEW a \in Actors, Accept(a) PROVE SleepInv'
  <2>1. PICK c \in Conns : task[c] = "none" /\ task' = [task EXCEPT ![c] = "new"]
    BY <1>14, Zenon DEF Accept, FreeConns
  <2>2. listener[a] = "accept" /\ listener' = [listener EXCEPT ![a] = "watch"]
    BY <1>14 DEF Accept, Becomes
  <2>3. AboutToWake => AboutToWake'
    BY <2>1, <2>2 DEF HoldsInv, TypeOK, AboutToWake
  <2>4. QED
    BY <1>14, <2>3 DEF Accept, fdsets, returned, eventThread, SleepInv, SleepOK,
      SleepsSoundly
<1>15. ASSUME NEW a \in Actors, AcceptFails(a) PROVE SleepInv'
  BY <1>15 DEF AcceptFails, Becomes, fdsets, returned, eventThread, tasks,
    HoldsInv, TypeOK, SleepInv, SleepOK, SleepsSoundly, AboutToWake
<1>16. ASSUME NEW a \in Actors, NothingToAccept(a) PROVE SleepInv'
  BY <1>16 DEF NothingToAccept, Becomes, fdsets, returned, eventThread, tasks,
    HoldsInv, TypeOK, SleepInv, SleepOK, SleepsSoundly, AboutToWake
<1>17. ASSUME NEW a \in Actors, WatchNew(a) PROVE SleepInv'
  BY <1>17 DEF WatchNew, FirstRequestEvent, ModWatch, Becomes, returned,
    eventThread, HoldsInv, TypeOK, SleepInv, SleepOK, SleepsSoundly, AboutToWake
<1>18. ASSUME NEW a \in Actors, WakeForNew(a) PROVE SleepInv'
  BY <1>18, WakeSleep DEF WakeForNew, eventThread
<1>19. ASSUME NEW a \in Actors, Rearm(a) PROVE SleepInv'
  BY <1>19 DEF Rearm, ModWatch, Becomes, returned, eventThread, tasks, HoldsInv,
    TypeOK, SleepInv, SleepOK, SleepsSoundly, AboutToWake
<1>20. ASSUME NEW a \in Actors, WakeForSelf(a) PROVE SleepInv'
  BY <1>20, WakeSleep DEF WakeForSelf, eventThread
<1>21. ASSUME NEW c \in Conns, Run(c) PROVE SleepInv'
  BY <1>21 DEF Run, Moves, fdsets, returned, eventThread, listening, HoldsInv,
    TypeOK, SleepInv, SleepOK, SleepsSoundly, AboutToWake
<1>22. ASSUME NEW c \in Conns, ReadsAll(c) PROVE SleepInv'
  BY <1>22 DEF ReadsAll, Moves, fdsets, returned, eventThread, listening, HoldsInv,
    TypeOK, SleepInv, SleepOK, SleepsSoundly, AboutToWake
<1>23. ASSUME NEW c \in Conns, FlowControlled(c) PROVE SleepInv'
  BY <1>23 DEF FlowControlled, Moves, fdsets, returned, eventThread, listening,
    HoldsInv, TypeOK, SleepInv, SleepOK, SleepsSoundly, AboutToWake
<1>24. ASSUME NEW c \in Conns, RequestEvent(c) PROVE SleepInv'
  BY <1>24 DEF RequestEvent, Moves, ModWatch, returned, eventThread, listening,
    HoldsInv, TypeOK, SleepInv, SleepOK, SleepsSoundly, AboutToWake
<1>25. ASSUME NEW c \in Conns, WakeForTask(c) PROVE SleepInv'
  BY <1>25, WakeSleep DEF WakeForTask, eventThread
<1>26. ASSUME NEW c \in Conns, CleanupStarts(c) PROVE SleepInv'
  BY <1>26 DEF CleanupStarts, UnRegister, Moves, fdsets, returned, eventThread,
    listening, HoldsInv, TypeOK, SleepInv, SleepOK, SleepsSoundly, AboutToWake
<1>27. ASSUME NEW c \in Conns, CleanupRemoves(c) PROVE SleepInv'
  BY <1>27 DEF CleanupRemoves, Moves, Forget, kInvalidFileDesc, NoId, RemoveEvent,
    ClearFD, eventThread, listening, HoldsInv, TypeOK, SleepInv, SleepOK,
    SleepsSoundly, AboutToWake
<1>28. ASSUME NEW c \in Conns, CleanupEnds(c) PROVE SleepInv'
  BY <1>28, WakeSleep DEF CleanupEnds, eventThread
<1>29. ASSUME NEW c \in Conns, RunAnyway(c) PROVE SleepInv'
  BY <1>29 DEF RunAnyway, Moves, fdsets, returned, eventThread, listening,
    HoldsInv, TypeOK, SleepInv, SleepOK, SleepsSoundly, AboutToWake
<1>30. ASSUME NEW c \in Conns, Dies(c) PROVE SleepInv'
  BY <1>30 DEF Dies, Moves, fdsets, returned, eventThread, listening, HoldsInv,
    TypeOK, SleepInv, SleepOK, SleepsSoundly, AboutToWake
<1>31. ASSUME Connect PROVE SleepInv'
  BY <1>31 DEF Connect, fdsets, returned, eventThread, listening, tasks, SleepInv,
    SleepOK, SleepsSoundly, AboutToWake
<1>32. ASSUME NEW fd \in ConnFDs, DataArrives(fd) PROVE SleepInv'
  BY <1>32 DEF DataArrives, fdsets, returned, eventThread, listening, tasks,
    SleepInv, SleepOK, SleepsSoundly, AboutToWake
<1>33. ASSUME NEW fd \in ConnFDs, OutputDrains(fd) PROVE SleepInv'
  BY <1>33 DEF OutputDrains, fdsets, returned, eventThread, listening, tasks,
    SleepInv, SleepOK, SleepsSoundly, AboutToWake
<1>34. CASE UNCHANGED vars
  BY <1>34 DEF vars, fdsets, returned, eventThread, listening, tasks, SleepInv, SleepOK,
    SleepsSoundly, AboutToWake
<1>35. QED
  BY <1>1, <1>2, <1>3, <1>4, <1>5, <1>6, <1>7, <1>8, <1>9, <1>10, <1>11, <1>12,
    <1>13, <1>14, <1>15, <1>16, <1>17, <1>18, <1>19, <1>20, <1>21, <1>22, <1>23,
    <1>24, <1>25, <1>26, <1>27, <1>28, <1>29, <1>30, <1>31, <1>32, <1>33, <1>34 DEF
    Next, Event, Listens, Runs

LEMMA SleepHolds == Spec => []SleepInv
<1>1. HoldsInv /\ SetsInv /\ SleepInv /\ [Next]_vars => SleepInv'
  BY SleepStep
<1>2. QED
  BY <1>1, InitSleep, Holds, SetsHold, PTL DEF Spec

-----------------------------------------------------------------------------
(* A context whose descriptor is in one of the sets has asked since its last *)
(* event; so the event that is taken of it is one it asked for.              *)
Watched == sReadSet \union sWriteSet \union sReturnedReadSet \union sReturnedWriteSet
             \union selecting.read \union selecting.write

AskedOK ==
  \A c \in Contexts : fUniqueID[c] # NoId /\ fFileDesc[c] \in Watched => c \in asked

LEMMA InitAsked == Init => AskedOK
<1> SUFFICES ASSUME Init, NEW c \in Contexts, fUniqueID[c] # NoId PROVE c \in asked
  BY DEF AskedOK
<1>1. QED
  BY DEF Init

LEMMA ModWatchAsked ==
  ASSUME HoldsInv, AskedOK, NEW c \in Contexts, NEW id, NEW mask, ModWatch(c, id, mask),
         UNCHANGED <<returned, selecting, fFileDesc>>,
         \A d \in Contexts : d # c => fUniqueID'[d] = fUniqueID[d],
         fFileDesc[c] \in FDs
  PROVE  AskedOK'
<1>1. asked' = asked \union {c} /\ Watched' \subseteq Watched \union {fFileDesc[c]}
  BY DEF ModWatch, returned, Watched
<1>2. \A d \in Contexts : d # c => fFileDesc[d] # fFileDesc[c]
  BY ContextFDs DEF HoldsInv, FilesOK
<1>3. QED
  BY <1>1, <1>2 DEF AskedOK

(* The cookie of a descriptor is the id of the context that has it.            *)
LEMMA OwnerOfCookie ==
  ASSUME HoldsInv, IdsInv, NEW fd \in FDs, NEW c \in Contexts, fUniqueID[c] # NoId
  PROVE  sCookieArray[fd] = fUniqueID[c] <=> fFileDesc[c] = fd
BY DEF HoldsInv, TypeOK, IdsInv, IdsOK, EventsOK, Owned

LEMMA AskedStep ==
  ASSUME HoldsInv, IdsInv, SetsInv, AskedOK, [Next]_vars
  PROVE  AskedOK'
<1>1. ASSUME ScanReads \/ ScanWrites PROVE AskedOK'
  <2>1. pc = "scan" /\ ScanFrame
    BY <1>1, ScanStep DEF HoldsInv
  <2>2. CASE MovesOn
    BY <2>1, <2>2 DEF ScanFrame, MovesOn, returned, contexts, history, AskedOK, Watched
  <2>3. ASSUME NEW fd \in FDs, Takes(fd) PROVE AskedOK'
    <3>1. asked' = {c \in asked : fUniqueID[c] # sCookieArray[fd]}
      BY <2>3 DEF Takes, TakeEvent
    <3>2. Watched' \subseteq Watched \ {fd}
      BY <2>1, <2>3 DEF ScanFrame, Takes, TakenFrom, TakeEvent, SetsInv, SetsOK, ReturnedOK,
        Empty, Watched
    <3>3. QED
      BY <2>1, <3>1, <3>2, OwnerOfCookie DEF ScanFrame, contexts, AskedOK
  <2>4. QED
    BY <1>1, <2>2, <2>3, ScanStep DEF HoldsInv
<1>2. ASSUME CopySets PROVE AskedOK'
  BY <1>2 DEF CopySets, fdsets, contexts, history, AskedOK, Watched
<1>3. ASSUME CallSelect PROVE AskedOK'
  BY <1>3 DEF CallSelect, fdsets, returned, contexts, history, AskedOK, Watched
<1>4. ASSUME SelectReturns PROVE AskedOK'
  BY <1>4 DEF SelectReturns, kPipe, kListenFD, Empty, fdsets, contexts, history,
    Ready, Readable, AskedOK, Watched
<1>5. ASSUME SelectTimesOut PROVE AskedOK'
  BY <1>5 DEF SelectTimesOut, kPipe, kListenFD, Empty, fdsets, contexts, history,
    Ready, Readable, AskedOK, Watched
<1>6. ASSUME DrainPipe PROVE AskedOK'
  BY <1>6 DEF DrainPipe, kPipe, fdsets, contexts, history, AskedOK, Watched
<1>7. ASSUME CloseRemoved PROVE AskedOK'
  BY <1>7 DEF CloseRemoved, fdsets, returned, contexts, history, AskedOK, Watched
<1>8. ASSUME Resolve PROVE AskedOK'
  BY <1>8 DEF Resolve, NoId, fdsets, returned, contexts, history, AskedOK, Watched
<1>9. ASSUME NEW c \in Conns, ProcessEvent(c) PROVE AskedOK'
  BY <1>9 DEF ProcessEvent, Signal, fdsets, returned, contexts, history, AskedOK,
    Watched
<1>10. ASSUME ProcessListener PROVE AskedOK'
  BY <1>10 DEF ProcessListener, fdsets, returned, contexts, history, AskedOK,
    Watched
<1>11. ASSUME ListenerReturned PROVE AskedOK'
  BY <1>11 DEF ListenerReturned, fdsets, returned, contexts, history, AskedOK,
    Watched
<1>12. ASSUME Release PROVE AskedOK'
  BY <1>12 DEF Release, fdsets, returned, contexts, history, AskedOK, Watched
<1>13. ASSUME ListenerTimer PROVE AskedOK'
  BY <1>13 DEF ListenerTimer, fdsets, returned, contexts, history, AskedOK, Watched
<1>14. ASSUME NEW a \in Actors, Accept(a) PROVE AskedOK'
  <2>1. {kPipe, kListenFD} \subseteq open
    BY ContextFDs DEF HoldsInv, FilesOK, Owned
  <2>2. PICK c \in Conns, fd \in ConnFDs \ open :
          task[c] = "none" /\ fFileDesc' = [fFileDesc EXCEPT ![c] = fd]
    BY <1>14, <2>1, AcceptStep DEF HoldsInv
  <2>3. fUniqueID[c] = NoId
    BY <2>2 DEF IdsInv, IdsOK, Gone
  <2>4. QED
    BY <1>14, <2>2, <2>3 DEF Accept, fdsets, returned, history, HoldsInv, TypeOK, AskedOK,
      Watched
<1>15. ASSUME NEW a \in Actors, AcceptFails(a) PROVE AskedOK'
  BY <1>15 DEF AcceptFails, fdsets, returned, contexts, AskedOK, Watched
<1>16. ASSUME NEW a \in Actors, NothingToAccept(a) PROVE AskedOK'
  BY <1>16 DEF NothingToAccept, fdsets, returned, contexts, history, AskedOK,
    Watched
<1>17. ASSUME NEW a \in Actors, WatchNew(a) PROVE AskedOK'
  <2>1. newConn[a] \in Contexts /\ fFileDesc[newConn[a]] \in FDs
    BY <1>17, ContextFDs DEF WatchNew, Contexts, ConnFDs
  <2>2. /\ ModWatch(newConn[a], NextId, "read")
        /\ UNCHANGED <<returned, selecting, fFileDesc>>
        /\ fUniqueID' = [fUniqueID EXCEPT ![newConn[a]] = NextId]
    BY <1>17 DEF WatchNew, FirstRequestEvent
  <2>3. QED
    BY <2>1, <2>2, ModWatchAsked DEF HoldsInv, TypeOK
<1>18. ASSUME NEW a \in Actors, WakeForNew(a) PROVE AskedOK'
  BY <1>18 DEF WakeForNew, fdsets, returned, contexts, history, AskedOK, Watched
<1>19. ASSUME NEW a \in Actors, Rearm(a) PROVE AskedOK'
  <2>1. /\ ModWatch(Listener, fUniqueID[Listener], "read")
        /\ UNCHANGED <<returned, selecting, fFileDesc, fUniqueID>>
    BY <1>19 DEF Rearm, contexts
  <2>2. QED
    BY <2>1, ContextFDs, ModWatchAsked
<1>20. ASSUME NEW a \in Actors, WakeForSelf(a) PROVE AskedOK'
  BY <1>20 DEF WakeForSelf, fdsets, returned, contexts, history, AskedOK, Watched
<1>21. ASSUME NEW c \in Conns, Run(c) PROVE AskedOK'
  BY <1>21 DEF Run, fdsets, returned, contexts, history, AskedOK, Watched
<1>22. ASSUME NEW c \in Conns, ReadsAll(c) PROVE AskedOK'
  BY <1>22 DEF ReadsAll, fdsets, returned, contexts, history, AskedOK, Watched
<1>23. ASSUME NEW c \in Conns, FlowControlled(c) PROVE AskedOK'
  BY <1>23 DEF FlowControlled, fdsets, returned, contexts, history, AskedOK, Watched
<1>24. ASSUME NEW c \in Conns, RequestEvent(c) PROVE AskedOK'
  <2>1. c \in Contexts /\ fFileDesc[c] \in FDs
    BY <1>24, ContextFDs DEF RequestEvent, Moves, Gone, Contexts, ConnFDs
  <2>2. PICK mask \in {"read", "write"} : ModWatch(c, fUniqueID[c], mask)
    BY <1>24 DEF RequestEvent
  <2>3. UNCHANGED <<returned, selecting, fFileDesc, fUniqueID>>
    BY <1>24 DEF RequestEvent, contexts
  <2>4. QED
    BY <2>1, <2>2, <2>3, ModWatchAsked
<1>25. ASSUME NEW c \in Conns, WakeForTask(c) PROVE AskedOK'
  BY <1>25 DEF WakeForTask, fdsets, returned, contexts, history, AskedOK, Watched
<1>26. ASSUME NEW c \in Conns, CleanupStarts(c) PROVE AskedOK'
  BY <1>26 DEF CleanupStarts, UnRegister, fdsets, returned, history, AskedOK,
    Watched
<1>27. ASSUME NEW c \in Conns, CleanupRemoves(c) PROVE AskedOK'
  <2>1. c \in Contexts
    BY DEF Contexts
  <2>2. /\ fFileDesc' = [fFileDesc EXCEPT ![c] = kInvalidFileDesc]
        /\ fUniqueID' = [fUniqueID EXCEPT ![c] = NoId]
        /\ asked' = asked \ {c}
        /\ Watched' \subseteq Watched
    BY <1>27 DEF CleanupRemoves, Forget, RemoveEvent, ClearFD, Watched
  <2>3. QED
    BY <2>1, <2>2 DEF HoldsInv, TypeOK, AskedOK
<1>28. ASSUME NEW c \in Conns, CleanupEnds(c) PROVE AskedOK'
  BY <1>28 DEF CleanupEnds, fdsets, returned, contexts, history, AskedOK, Watched
<1>29. ASSUME NEW c \in Conns, RunAnyway(c) PROVE AskedOK'
  BY <1>29 DEF RunAnyway, fdsets, returned, contexts, history, AskedOK, Watched
<1>30. ASSUME NEW c \in Conns, Dies(c) PROVE AskedOK'
  BY <1>30 DEF Dies, fdsets, returned, contexts, history, AskedOK, Watched
<1>31. ASSUME Connect PROVE AskedOK'
  BY <1>31 DEF Connect, fdsets, returned, contexts, history, AskedOK, Watched
<1>32. ASSUME NEW fd \in ConnFDs, DataArrives(fd) PROVE AskedOK'
  BY <1>32 DEF DataArrives, fdsets, returned, contexts, history, AskedOK, Watched
<1>33. ASSUME NEW fd \in ConnFDs, OutputDrains(fd) PROVE AskedOK'
  BY <1>33 DEF OutputDrains, fdsets, returned, contexts, history, AskedOK, Watched
<1>34. CASE UNCHANGED vars
  BY <1>34 DEF vars, fdsets, returned, contexts, history, AskedOK, Watched
<1>35. QED
  BY <1>1, <1>2, <1>3, <1>4, <1>5, <1>6, <1>7, <1>8, <1>9, <1>10, <1>11, <1>12,
    <1>13, <1>14, <1>15, <1>16, <1>17, <1>18, <1>19, <1>20, <1>21, <1>22, <1>23,
    <1>24, <1>25, <1>26, <1>27, <1>28, <1>29, <1>30, <1>31, <1>32, <1>33, <1>34 DEF
    Next, Event, Listens, Runs

LEMMA AskedHolds == ASSUME ReusesIds = FALSE PROVE Spec => []AskedOK
<1>1. HoldsInv /\ IdsInv /\ SetsInv /\ AskedOK /\ [Next]_vars => AskedOK'
  BY AskedStep
<1>2. QED
  BY <1>1, InitAsked, Holds, IdsHold, SetsHold, PTL DEF Spec

(* Only the scan takes an event.                                             *)
LEMMA OnlyScanTakes ==
  ASSUME [Next]_vars, pc = "scan", pc' = "deliver"
  PROVE  ScanReads \/ ScanWrites
BY DEF Next, Event, Listens, Runs, vars, eventThread, CopySets, CallSelect,
  SelectReturns, SelectTimesOut, DrainPipe, CloseRemoved, Resolve, ProcessEvent,
  ProcessListener, ListenerReturned, Release, ListenerTimer, Accept, AcceptFails,
  NothingToAccept, WatchNew, WakeForNew, Rearm, WakeForSelf, Run, ReadsAll,
  FlowControlled, RequestEvent, WakeForTask, CleanupStarts, CleanupRemoves,
  CleanupEnds, RunAnyway, Dies, Connect, DataArrives, OutputDrains
-----------------------------------------------------------------------------
(* A connection that is done with its socket is waited for, or an event of  *)
(* it is on its way to the very same connection: the event has its id and,   *)
(* once resolved, the event thread refers to it.                             *)
OnItsWay(c) ==
  \/ fFileDesc[c] \in sReadSet \union sWriteSet
  \/ pc = "deliver" /\ event.fd = fFileDesc[c] /\ event.id = fUniqueID[c]
  \/ pc = "process" /\ event.fd = fFileDesc[c] /\ resolved = c

ListenerBusy ==
  \/ \E a \in Actors : listener[a] \notin {"idle", "wakeSelf"}
  \/ listenerTimer \/ deaf

WaitedOK ==
  /\ \A c \in Conns : task[c] \in {"wake", "rest"} /\ c \notin signalled => OnItsWay(c)
  /\ OnItsWay(Listener) \/ ListenerBusy

LEMMA InitWaited == Init => WaitedOK
<1> SUFFICES ASSUME Init PROVE WaitedOK
  OBVIOUS
<1>1. Listener \in Contexts
  BY EventLoopAssumption DEF Contexts
<1>2. QED
  BY <1>1 DEF Init, WaitedOK, OnItsWay

(* What modwatch adds is waited for, and nothing else leaves the sets.       *)
LEMMA ModWatchWaited ==
  ASSUME HoldsInv, NEW c \in Contexts, NEW id, NEW mask \in {"read", "write"},
         ModWatch(c, id, mask), fFileDesc[c] \in FDs,
         UNCHANGED <<fFileDesc, eventThread>>,
         \A d \in Contexts : d # c => fUniqueID'[d] = fUniqueID[d]
  PROVE  OnItsWay(c)' /\ \A d \in Contexts : OnItsWay(d) => OnItsWay(d)'
<1>1. fFileDesc[c] \in sReadSet' \union sWriteSet'
  BY DEF ModWatch
<1>2. \A d \in Contexts : d # c => fFileDesc[d] # fFileDesc[c]
  BY ContextFDs DEF HoldsInv, FilesOK
<1>3. \A d \in Contexts : d # c /\ OnItsWay(d) => OnItsWay(d)'
  BY <1>2 DEF ModWatch, eventThread, OnItsWay
<1>4. QED
  BY <1>1, <1>3 DEF OnItsWay

(* The event of a resting connection is resolved to that connection and makes  *)
(* it run; the listener asks again, sleeps on its timer or is deaf.            *)
LEMMA WaitedStep ==
  ASSUME HoldsInv, IdsInv, WaitedOK, [Next]_vars
  PROVE  WaitedOK'
<1>1. ASSUME ScanReads \/ ScanWrites PROVE WaitedOK'
  <2>1. pc = "scan" /\ ScanFrame
    BY <1>1, ScanStep DEF HoldsInv
  <2>2. CASE MovesOn
    BY <2>1, <2>2 DEF ScanFrame, MovesOn, contexts, listening, tasks, history, WaitedOK,
      OnItsWay, ListenerBusy
  <2>3. ASSUME NEW fd \in FDs, Takes(fd) PROVE WaitedOK'
    <3>1. /\ event' = [fd |-> fd, id |-> sCookieArray[fd]] /\ pc' = "deliver"
          /\ sReadSet' = sReadSet \ {fd} /\ sWriteSet' = sWriteSet \ {fd}
          /\ UNCHANGED deaf
      BY <2>3 DEF Takes, TakeEvent
    <3>2. \A c \in Contexts : OnItsWay(c) => OnItsWay(c)'
      BY <2>1, <3>1 DEF ScanFrame, contexts, HoldsInv, IdsInv, EventsOK, OnItsWay
    <3>3. QED
      BY <2>1, <3>1, <3>2, ContextFDs DEF ScanFrame, listening, tasks, WaitedOK,
        ListenerBusy, Contexts
  <2>4. QED
    BY <1>1, <2>2, <2>3, ScanStep DEF HoldsInv
<1>2. ASSUME CopySets PROVE WaitedOK'
  BY <1>2 DEF CopySets, fdsets, contexts, listening, tasks, history, WaitedOK,
    OnItsWay, ListenerBusy, Contexts
<1>3. ASSUME CallSelect PROVE WaitedOK'
  BY <1>3 DEF CallSelect, fdsets, contexts, listening, tasks, history, WaitedOK,
    OnItsWay, ListenerBusy, Contexts
<1>4. ASSUME SelectReturns PROVE WaitedOK'
  BY <1>4 DEF SelectReturns, kPipe, kListenFD, Empty, fdsets, contexts, listening,
    tasks, history, WaitedOK, OnItsWay, ListenerBusy, Contexts
<1>5. ASSUME SelectTimesOut PROVE WaitedOK'
  BY <1>5 DEF SelectTimesOut, kPipe, kListenFD, Empty, fdsets, contexts, listening,
    tasks, history, WaitedOK, OnItsWay, ListenerBusy, Contexts
<1>6. ASSUME DrainPipe PROVE WaitedOK'
  BY <1>6 DEF DrainPipe, kPipe, fdsets, contexts, listening, tasks, history,
    WaitedOK, OnItsWay, ListenerBusy, Contexts
<1>7. ASSUME CloseRemoved PROVE WaitedOK'
  BY <1>7 DEF CloseRemoved, fdsets, contexts, listening, tasks, history, WaitedOK,
    OnItsWay, ListenerBusy, Contexts
<1>8. ASSUME Resolve PROVE WaitedOK'
  BY <1>8, EventLoopAssumption DEF Resolve, NoId, fdsets, contexts, listening,
    tasks, history, IdsInv, IdsOK, Gone, HoldsInv, TypeOK, WaitedOK, OnItsWay,
    ListenerBusy, Contexts
<1>9. ASSUME NEW c \in Conns, ProcessEvent(c) PROVE WaitedOK'
  BY <1>9, EventLoopAssumption DEF ProcessEvent, Signal, fdsets, contexts,
    listening, history, WaitedOK, OnItsWay, ListenerBusy, Contexts
<1>10. ASSUME ProcessListener PROVE WaitedOK'
  <2>1. \A c \in Conns : OnItsWay(c) => fFileDesc[c] \in sReadSet \union sWriteSet
    BY <1>10, ContextFDs DEF ProcessListener, OnItsWay
  <2>2. listener'["event"] = "accept" /\ "event" \in Actors
    BY <1>10 DEF ProcessListener, HoldsInv, TypeOK, Actors
  <2>3. ListenerBusy'
    BY <2>2 DEF ListenerBusy
  <2>4. QED
    BY <1>10, <2>1, <2>3 DEF ProcessListener, fdsets, contexts, tasks, WaitedOK, OnItsWay
<1>11. ASSUME ListenerReturned PROVE WaitedOK'
  BY <1>11 DEF ListenerReturned, fdsets, contexts, listening, tasks, history,
    WaitedOK, OnItsWay, ListenerBusy, Contexts
<1>12. ASSUME Release PROVE WaitedOK'
  BY <1>12 DEF Release, fdsets, contexts, listening, tasks, history, WaitedOK,
    OnItsWay, ListenerBusy, Contexts
<1>13. ASSUME ListenerTimer PROVE WaitedOK'
  BY <1>13 DEF ListenerTimer, Becomes, fdsets, contexts, eventThread, tasks,
    history, Actors, HoldsInv, TypeOK, WaitedOK, OnItsWay, ListenerBusy, Contexts
<1>14. ASSUME NEW a \in Actors, Accept(a) PROVE WaitedOK'
  <2>1. {kPipe, kListenFD} \subseteq open
    BY ContextFDs DEF HoldsInv, FilesOK, Owned
  <2>2. PICK c \in Conns, fd \in ConnFDs \ open :
          /\ task[c] = "none"
          /\ fFileDesc' = [fFileDesc EXCEPT ![c] = fd]
          /\ task' = [task EXCEPT ![c] = "new"]
    BY <1>14, <2>1, AcceptStep DEF HoldsInv
  <2>3. /\ listener' = [listener EXCEPT ![a] = "watch"]
        /\ UNCHANGED <<fdsets, fUniqueID, eventThread, signalled>>
    BY <1>14 DEF Accept, Becomes
  <2>4. ListenerBusy'
    BY <2>3 DEF ListenerBusy, HoldsInv, TypeOK
  <2>5. QED
    BY <2>2, <2>3, <2>4 DEF fdsets, eventThread, HoldsInv, TypeOK, WaitedOK, OnItsWay,
      Contexts
<1>15. ASSUME NEW a \in Actors, AcceptFails(a) PROVE WaitedOK'
  BY <1>15 DEF AcceptFails, Becomes, fdsets, contexts, eventThread, tasks,
    HoldsInv, TypeOK, WaitedOK, OnItsWay, ListenerBusy, Contexts
<1>16. ASSUME NEW a \in Actors, NothingToAccept(a) PROVE WaitedOK'
  BY <1>16 DEF NothingToAccept, Becomes, fdsets, contexts, eventThread, tasks,
    history, HoldsInv, TypeOK, WaitedOK, OnItsWay, ListenerBusy, Contexts
<1>17. ASSUME NEW a \in Actors, WatchNew(a) PROVE WaitedOK'
  <2>1. PICK c \in Contexts : c = newConn[a] /\ fFileDesc[c] \in FDs
    BY <1>17, ContextFDs DEF WatchNew, Contexts, ConnFDs
  <2>2. /\ ModWatch(c, NextId, "read") /\ UNCHANGED <<fFileDesc, eventThread, signalled>>
        /\ fUniqueID' = [fUniqueID EXCEPT ![c] = NextId]
        /\ task' = [task EXCEPT ![c] = "rest"]
        /\ listener' = [listener EXCEPT ![a] = "wakeNew"]
    BY <1>17, <2>1 DEF WatchNew, FirstRequestEvent, Becomes
  <2>3. OnItsWay(c)' /\ \A d \in Contexts : OnItsWay(d) => OnItsWay(d)'
    BY <2>1, <2>2, ModWatchWaited DEF HoldsInv, TypeOK
  <2>4. ListenerBusy'
    BY <2>2 DEF ListenerBusy, HoldsInv, TypeOK
  <2>5. \A d \in Conns : task'[d] \in {"wake", "rest"} => d = c \/ task[d] = task'[d]
    BY <2>2 DEF HoldsInv, TypeOK
  <2>6. QED
    BY <2>2, <2>3, <2>4, <2>5 DEF WaitedOK, Contexts
<1>18. ASSUME NEW a \in Actors, WakeForNew(a) PROVE WaitedOK'
  BY <1>18 DEF WakeForNew, WakeSelect, Becomes, fdsets, contexts, eventThread,
    tasks, history, HoldsInv, TypeOK, WaitedOK, OnItsWay, ListenerBusy, Contexts
<1>19. ASSUME NEW a \in Actors, Rearm(a) PROVE WaitedOK'
  <2>1. /\ ModWatch(Listener, fUniqueID[Listener], "read")
        /\ UNCHANGED <<fFileDesc, fUniqueID, eventThread, task, signalled>>
    BY <1>19 DEF Rearm, contexts, tasks
  <2>2. OnItsWay(Listener)' /\ \A d \in Contexts : OnItsWay(d) => OnItsWay(d)'
    BY <2>1, ContextFDs, ModWatchWaited
  <2>3. QED
    BY <2>1, <2>2 DEF WaitedOK, Contexts
<1>20. ASSUME NEW a \in Actors, WakeForSelf(a) PROVE WaitedOK'
  BY <1>20 DEF WakeForSelf, WakeSelect, Becomes, fdsets, contexts, eventThread,
    tasks, history, HoldsInv, TypeOK, WaitedOK, OnItsWay, ListenerBusy, Contexts
<1>21. ASSUME NEW c \in Conns, Run(c) PROVE WaitedOK'
  BY <1>21 DEF Run, Moves, fdsets, contexts, eventThread, listening, history,
    HoldsInv, TypeOK, WaitedOK, OnItsWay, ListenerBusy, Contexts
<1>22. ASSUME NEW c \in Conns, ReadsAll(c) PROVE WaitedOK'
  BY <1>22 DEF ReadsAll, Moves, fdsets, contexts, eventThread, listening, history,
    HoldsInv, TypeOK, WaitedOK, OnItsWay, ListenerBusy, Contexts
<1>23. ASSUME NEW c \in Conns, FlowControlled(c) PROVE WaitedOK'
  BY <1>23 DEF FlowControlled, Moves, fdsets, contexts, eventThread, listening,
    history, HoldsInv, TypeOK, WaitedOK, OnItsWay, ListenerBusy, Contexts
<1>24. ASSUME NEW c \in Conns, RequestEvent(c) PROVE WaitedOK'
  <2>1. c \in Contexts /\ fFileDesc[c] \in FDs
    BY <1>24, ContextFDs DEF RequestEvent, Moves, Gone, Contexts, ConnFDs
  <2>2. PICK mask \in {"read", "write"} : ModWatch(c, fUniqueID[c], mask)
    BY <1>24 DEF RequestEvent
  <2>3. /\ UNCHANGED <<fFileDesc, fUniqueID, eventThread, listening, signalled, deaf>>
        /\ task' = [task EXCEPT ![c] = "wake"]
    BY <1>24, <2>2 DEF RequestEvent, Moves, ModWatch, contexts
  <2>4. OnItsWay(c)' /\ \A d \in Contexts : OnItsWay(d) => OnItsWay(d)'
    BY <2>1, <2>2, <2>3, ModWatchWaited
  <2>5. QED
    BY <2>1, <2>3, <2>4, ContextFDs DEF listening, HoldsInv, TypeOK, WaitedOK, ListenerBusy,
      Contexts
<1>25. ASSUME NEW c \in Conns, WakeForTask(c) PROVE WaitedOK'
  BY <1>25 DEF WakeForTask, Moves, WakeSelect, fdsets, contexts, eventThread,
    listening, history, HoldsInv, TypeOK, WaitedOK, OnItsWay, ListenerBusy, Contexts
<1>26. ASSUME NEW c \in Conns, CleanupStarts(c) PROVE WaitedOK'
  BY <1>26 DEF CleanupStarts, UnRegister, Moves, fdsets, eventThread, listening,
    history, HoldsInv, TypeOK, WaitedOK, OnItsWay, ListenerBusy, Contexts
<1>27. ASSUME NEW c \in Conns, CleanupRemoves(c) PROVE WaitedOK'
  <2> DEFINE fd == fFileDesc[c]
  <2>1. c \in Contexts /\ c # Listener /\ fd \in FDs /\ task[c] = "remove"
    BY <1>27, ContextFDs DEF CleanupRemoves, Moves, Gone, Contexts, ConnFDs
  <2>2. /\ sReadSet' = sReadSet \ {fd} /\ sWriteSet' = sWriteSet \ {fd}
        /\ fFileDesc' = [fFileDesc EXCEPT ![c] = kInvalidFileDesc]
        /\ fUniqueID' = [fUniqueID EXCEPT ![c] = NoId]
        /\ task' = [task EXCEPT ![c] = "wakeGone"]
        /\ UNCHANGED <<eventThread, listening, signalled, deaf>>
    BY <1>27 DEF CleanupRemoves, Moves, Forget, RemoveEvent, ClearFD
  <2>3. \A d \in Contexts : d # c => fFileDesc[d] # fd
    BY <2>1, ContextFDs DEF HoldsInv, FilesOK
  <2>4. \A d \in Contexts : d # c /\ OnItsWay(d) => OnItsWay(d)'
    BY <2>1, <2>2, <2>3 DEF eventThread, HoldsInv, TypeOK, OnItsWay
  <2>5. QED
    BY <2>1, <2>2, <2>4, ContextFDs DEF listening, HoldsInv, TypeOK, WaitedOK, ListenerBusy,
      Contexts
<1>28. ASSUME NEW c \in Conns, CleanupEnds(c) PROVE WaitedOK'
  BY <1>28 DEF CleanupEnds, Moves, WakeSelect, fdsets, contexts, eventThread,
    listening, history, HoldsInv, TypeOK, WaitedOK, OnItsWay, ListenerBusy, Contexts
<1>29. ASSUME NEW c \in Conns, RunAnyway(c) PROVE WaitedOK'
  BY <1>29 DEF RunAnyway, Moves, fdsets, contexts, eventThread, listening, history,
    HoldsInv, TypeOK, WaitedOK, OnItsWay, ListenerBusy, Contexts
<1>30. ASSUME NEW c \in Conns, Dies(c) PROVE WaitedOK'
  BY <1>30 DEF Dies, Moves, fdsets, contexts, eventThread, listening, history,
    HoldsInv, TypeOK, WaitedOK, OnItsWay, ListenerBusy, Contexts
<1>31. ASSUME Connect PROVE WaitedOK'
  BY <1>31 DEF Connect, Actors, fdsets, contexts, eventThread, listening, tasks,
    history, WaitedOK, OnItsWay, ListenerBusy, Contexts
<1>32. ASSUME NEW fd \in ConnFDs, DataArrives(fd) PROVE WaitedOK'
  BY <1>32 DEF DataArrives, fdsets, contexts, eventThread, listening, tasks,
    history, WaitedOK, OnItsWay, ListenerBusy, Contexts
<1>33. ASSUME NEW fd \in ConnFDs, OutputDrains(fd) PROVE WaitedOK'
  BY <1>33 DEF OutputDrains, fdsets, contexts, eventThread, listening, tasks,
    history, WaitedOK, OnItsWay, ListenerBusy, Contexts
<1>34. CASE UNCHANGED vars
  BY <1>34 DEF vars, fdsets, contexts, eventThread, listening, tasks, history, WaitedOK,
    OnItsWay, ListenerBusy
<1>35. QED
  BY <1>1, <1>2, <1>3, <1>4, <1>5, <1>6, <1>7, <1>8, <1>9, <1>10, <1>11, <1>12,
    <1>13, <1>14, <1>15, <1>16, <1>17, <1>18, <1>19, <1>20, <1>21, <1>22, <1>23,
    <1>24, <1>25, <1>26, <1>27, <1>28, <1>29, <1>30, <1>31, <1>32, <1>33, <1>34 DEF
    Next, Event, Listens, Runs

LEMMA WaitedHolds == ASSUME ReusesIds = FALSE PROVE Spec => []WaitedOK
<1>1. HoldsInv /\ IdsInv /\ WaitedOK /\ [Next]_vars => WaitedOK'
  BY WaitedStep
<1>2. QED
  BY <1>1, InitWaited, Holds, IdsHold, PTL DEF Spec

-----------------------------------------------------------------------------
(* Every variable of the event loop keeps its type: no position or descriptor  *)
(* leaves the sets select() can hold, and the count of what is left to scan    *)
(* never goes below zero (select_waitevent).                                   *)
THEOREM TypeCorrect == Spec => []TypeOK
<1>1. HoldsInv => TypeOK
  BY DEF HoldsInv
<1>2. QED
  BY <1>1, Holds, PTL

(* select() is never handed a closed descriptor, whatever ids come round       *)
(* (select_removeevent and selecthasdata).                                     *)
THEOREM WatchedAreOpenHolds == Spec => []WatchedAreOpen
<1>1. SetsInv => WatchedAreOpen
  BY DEF SetsInv
<1>2. QED
  BY <1>1, SetsHold, PTL

(* The event thread never sleeps on outdated sets, or on descriptors to close, *)
(* without a byte in the pipe, now or soon (select_modwatch and                *)
(* select_removeevent write to it after they have changed the sets).           *)
THEOREM SleepsSoundlyHolds == Spec => []SleepsSoundly
<1>1. SleepInv => SleepsSoundly
  BY DEF SleepInv
<1>2. QED
  BY <1>1, SleepHolds, PTL

(* As long as no id comes round while it is in use, an event is delivered to   *)
(* the context that owns its descriptor (EventThread::Entry).                  *)
THEOREM OwnEventHolds == ASSUME ReusesIds = FALSE PROVE Spec => []OwnEvent
<1>1. IdsInv => OwnEvent
  BY DEF IdsInv
<1>2. QED
  BY <1>1, IdsHold, PTL

(* Under the same condition no resting connection, and no idle listener but    *)
(* the deaf one, is forgotten by the event thread (EventContext::RequestEvent).*)
THEOREM NobodyForgottenHolds == ASSUME ReusesIds = FALSE PROVE Spec => []NobodyForgotten
<1>1. ASSUME WaitedOK PROVE NobodyForgotten
  <2>1. \A c \in Contexts : OnItsWay(c) => WaitedFor(c)
    BY DEF OnItsWay, WaitedFor
  <2>2. QED
    BY <1>1, <2>1, EventLoopAssumption DEF WaitedOK, ListenerBusy, NobodyForgotten, Contexts
<1>2. QED
  BY <1>1, WaitedHolds, PTL

(* Under the same condition no context is given an event it has not asked for  *)
(* since its last one (constructeventreq).                                     *)
THEOREM OneEventPerRequestHolds == ASSUME ReusesIds = FALSE PROVE Spec => OneEventPerRequest
<1>1. ASSUME HoldsInv, IdsInv, AskedOK, [Next]_vars
      PROVE  [\A c \in Contexts : TakesEventOf(c) => c \in asked]_vars
  <2>1. SUFFICES ASSUME NEW c \in Contexts, TakesEventOf(c) PROVE c \in asked
    OBVIOUS
  <2>2. ScanReads \/ ScanWrites
    BY <1>1, <2>1, OnlyScanTakes DEF TakesEventOf
  <2>3. PICK fd \in FDs : Takes(fd)
    BY <1>1, <2>1, <2>2, ScanStep DEF TakesEventOf, MovesOn, HoldsInv
  <2>4. fd \in Watched /\ sCookieArray[fd] = fUniqueID[c] /\ fUniqueID[c] # NoId
    BY <2>1, <2>3 DEF TakesEventOf, Takes, TakenFrom, TakeEvent, Watched
  <2>5. fFileDesc[c] = fd
    BY <1>1, <2>4, OwnerOfCookie
  <2>6. QED
    BY <1>1, <2>4, <2>5 DEF AskedOK
<1>2. QED
  BY <1>1, Holds, IdsHold, AskedHolds, PTL DEF Spec, OneEventPerRequest

=============================================================================
