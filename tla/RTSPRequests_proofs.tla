------------------------- MODULE RTSPRequests_proofs -------------------------
(***************************************************************************)
(* For any number of sessions: who is in the tunnel is in the map; and, if *)
(* no session joins one that its own thread serves, a request keeps its    *)
(* input, and a module told of the global lock has it.                     *)
(***************************************************************************)
EXTENDS RTSPRequests, TLAPS

-----------------------------------------------------------------------------
Places == {"locking", "binding", "releasing"}

(* A session that has found its other half is the only one that has, and   *)
(* the count of references is that of the sessions that have found it.     *)
RefsOK ==
  \A s \in Sessions :
    /\ other[s] # None <=> pc[s] \in Places
    /\ other[s] # s
    /\ fRefCount[s] = IF \E t \in Sessions : other[t] = s THEN 1 ELSE 0
    /\ \A t \in Sessions : other[s] # None /\ other[t] = other[s] => t = s

(* Until it joins the other half, that one has the entry of the map: it is *)
(* resolved, so it cannot leave, and nobody else can take its place.       *)
HalvesOK ==
  \A s \in Sessions :
    /\ pc[s] = "none" => fState[s] = "first"
    /\ pc[s] \in {"locking", "binding"} => map = other[s] /\ ~Alike(s, other[s])
    /\ map = s => pc[s] # "none"

IInv == TypeOK /\ RefsOK /\ HalvesOK /\ TunnelIsFound

LEMMA InitIInv == Init => IInv
BY RequestsAssumption DEF Init, IInv, TypeOK, RefsOK, HalvesOK, TunnelIsFound, InTunnel,
                          NoLock, Places

Locks == [asked : BOOLEAN, due : BOOLEAN, held : BOOLEAN]

(* The flags of one session change, those of the others stay.              *)
LEMMA LockSet ==
  ASSUME NEW f \in [Sessions -> Locks], NEW s \in Sessions, NEW r \in Locks
  PROVE  [f EXCEPT ![s] = r] \in [Sessions -> Locks]
OBVIOUS

LEMMA LockGivenBack ==
  ASSUME lock \in [Sessions -> Locks], NEW s \in Sessions
  PROVE  /\ [lock EXCEPT ![s].held = FALSE] \in [Sessions -> Locks]
         /\ [lock EXCEPT ![s].asked = FALSE] \in [Sessions -> Locks]
<1>1. [lock[s] EXCEPT !.held = FALSE] \in Locks /\ [lock[s] EXCEPT !.asked = FALSE] \in Locks
  <2>1. lock[s] \in Locks OBVIOUS
  <2> QED BY <2>1 DEF Locks
<1> QED BY <1>1, LockSet

LEMMA LockTaken ==
  ASSUME lock \in [Sessions -> Locks], NEW s \in Sessions
  PROVE  [lock EXCEPT ![s].held = lock[s].due, ![s].due = FALSE] \in [Sessions -> Locks]
<1>1. /\ [lock[s] EXCEPT !.held = lock[s].due] \in Locks
      /\ \A r \in Locks : [r EXCEPT !.due = FALSE] \in Locks
  <2>1. lock[s] \in Locks OBVIOUS
  <2> QED BY <2>1 DEF Locks
<1>2. [lock EXCEPT ![s].held = lock[s].due] \in [Sessions -> Locks] BY <1>1, LockSet
<1>3. PICK f : f = [lock EXCEPT ![s].held = lock[s].due] OBVIOUS
<1>4. f \in [Sessions -> Locks] /\ f[s] \in Locks BY <1>2, <1>3
<1>5. [f[s] EXCEPT !.due = FALSE] \in Locks BY <1>1, <1>4
<1>6. [f EXCEPT ![s].due = FALSE] \in [Sessions -> Locks] BY <1>4, <1>5, LockSet
<1> QED BY <1>3, <1>6

(* A step of one session in which it neither enters nor leaves the places  *)
(* where it has found the other half, nor enters the tunnel.               *)
Private(s) ==
  /\ UNCHANGED tunnel
  /\ \A t \in Sessions \ {s} :
       pc'[t] = pc[t] /\ fState'[t] = fState[t] /\ fInputSocketP'[t] = fInputSocketP[t]
  /\ pc'[s] \in Places <=> pc[s] \in Places
  /\ pc'[s] \in {"locking", "binding"} => pc[s] \in {"locking", "binding"}
  /\ pc'[s] = "none" => pc[s] = "none" /\ fState'[s] = fState[s]
  /\ InTunnel(s)' => InTunnel(s)

LEMMA PrivateKeeps ==
  ASSUME IInv, NEW s \in Sessions, Private(s), TypeOK'
  PROVE  IInv'
<1>1. RefsOK' BY DEF IInv, Private, RefsOK, tunnel
<1>2. HalvesOK' BY DEF IInv, Private, HalvesOK, tunnel, Alike
<1>3. TunnelIsFound' BY DEF IInv, Private, TunnelIsFound, InTunnel, tunnel
<1> QED BY <1>1, <1>2, <1>3 DEF IInv

(* The steps of a session outside the tunnel, and those of clients.        *)
LEMMA PrivateSteps ==
  ASSUME IInv, NEW s \in Sessions, NEW what \in {"request", "closed"}, NEW locked \in BOOLEAN,
         \/ Connect(s) \/ Arrive(s, what) \/ TimeOut(s) \/ Run(s)
         \/ ReadFirstRequest(s) \/ AwaitRequest(s) \/ ReadRequest(s) \/ InputIsGone(s)
         \/ HaveMessage(s) \/ CallModules(s) \/ ModuleWaits(s, locked) \/ SendResponse(s)
         \/ CleanUp(s) \/ WaitToBind(s)
  PROVE  IInv'
<1> USE DEF At, Goto, Return, End, CleanupRequest, Enter
<1>1. TypeOK /\ HalvesOK /\ lock \in [Sessions -> Locks] BY DEF IInv, TypeOK, Locks
<1>2. ASSUME Connect(s) PROVE IInv'
  <2>1. TypeOK' BY <1>1, <1>2, RequestsAssumption DEF TypeOK, tunnel, Connect
  <2>2. Private(s)
    BY <1>1, <1>2, RequestsAssumption
       DEF TypeOK, HalvesOK, Private, Places, InTunnel, tunnel, Connect
  <2> QED BY <2>1, <2>2, PrivateKeeps
<1>3. ASSUME Arrive(s, what) PROVE IInv'
  <2>1. TypeOK' BY <1>1, <1>3, RequestsAssumption DEF TypeOK, tunnel, Arrive
  <2>2. Private(s)
    BY <1>1, <1>3, RequestsAssumption
       DEF TypeOK, HalvesOK, Private, Places, InTunnel, tunnel, Arrive
  <2> QED BY <2>1, <2>2, PrivateKeeps
<1>4. ASSUME TimeOut(s) PROVE IInv'
  <2>1. TypeOK' BY <1>1, <1>4, RequestsAssumption DEF TypeOK, tunnel, TimeOut, input
  <2>2. Private(s)
    BY <1>1, <1>4, RequestsAssumption
       DEF TypeOK, HalvesOK, Private, Places, InTunnel, tunnel, TimeOut, input
  <2> QED BY <2>1, <2>2, PrivateKeeps
<1>5. ASSUME Run(s) PROVE IInv'
  <2>1. TypeOK'
    <3>1. events' \in [Sessions -> SUBSET {"read", "kill"}]
      BY <1>1, <1>5 DEF TypeOK, Run, input
    <3>2. lock' \in [Sessions -> Locks]
      <4>1. lock' = [lock EXCEPT ![s].held = lock[s].due, ![s].due = FALSE]
        BY <1>5
           DEF Run, input
      <4> QED BY <1>1, <4>1, LockTaken
    <3>3. pc' \in [Sessions -> {"none", "idle", "run", "registering", "locking",
                              "binding", "releasing", "deleting"}]
      BY <1>1, <1>5 DEF TypeOK, Run, input
    <3>4. fReadMutex' \in [Sessions -> Sessions \cup {None}]
      BY <1>1, <1>5 DEF TypeOK, Run, input
    <3> QED BY <3>1, <3>2, <3>3, <3>4, <1>1, <1>5 DEF TypeOK, Locks, Run, tunnel, input
  <2>2. Private(s)
    BY <1>1, <1>5, RequestsAssumption
       DEF TypeOK, HalvesOK, Private, Places, InTunnel, tunnel, Run, input
  <2> QED BY <2>1, <2>2, PrivateKeeps
<1>6. ASSUME ReadFirstRequest(s) PROVE IInv'
  <2>1. TypeOK'
    BY <1>1, <1>6, RequestsAssumption
       DEF TypeOK, tunnel, ReadFirstRequest, input
  <2>2. Private(s)
    BY <1>1, <1>6, RequestsAssumption
       DEF TypeOK, HalvesOK, Private, Places, InTunnel, tunnel, ReadFirstRequest, input
  <2> QED BY <2>1, <2>2, PrivateKeeps
<1>7. ASSUME AwaitRequest(s) PROVE IInv'
  <2>1. TypeOK' BY <1>1, <1>7, RequestsAssumption DEF TypeOK, tunnel, AwaitRequest
  <2>2. Private(s)
    BY <1>1, <1>7, RequestsAssumption
       DEF TypeOK, HalvesOK, Private, Places, InTunnel, tunnel, AwaitRequest
  <2> QED BY <2>1, <2>2, PrivateKeeps
<1>8. ASSUME ReadRequest(s) PROVE IInv'
  <2>1. TypeOK' BY <1>1, <1>8, RequestsAssumption DEF TypeOK, tunnel, ReadRequest
  <2>2. Private(s)
    BY <1>1, <1>8, RequestsAssumption
       DEF TypeOK, HalvesOK, Private, Places, InTunnel, tunnel, ReadRequest
  <2> QED BY <2>1, <2>2, PrivateKeeps
<1>9. ASSUME InputIsGone(s) PROVE IInv'
  <2>1. TypeOK'
    <3>1. pc' \in [Sessions -> {"none", "idle", "run", "registering", "locking",
                              "binding", "releasing", "deleting"}]
      BY <1>1, <1>9 DEF TypeOK, InputIsGone, Without
    <3>2. fReadMutex' \in [Sessions -> Sessions \cup {None}]
      BY <1>1, <1>9 DEF TypeOK, InputIsGone, Without
    <3>3. fInputSocketP' \in [Sessions -> Sessions \cup {None}]
      BY <1>1, <1>9 DEF TypeOK, InputIsGone, Without
    <3>4. lock' \in [Sessions -> Locks]
      <4>1. lock' = lock \/ lock' = [lock EXCEPT ![s].held = FALSE]
        BY <1>9
           DEF InputIsGone, input
      <4> QED BY <1>1, <4>1, LockGivenBack
    <3>5. connection' \in [Sessions -> {"quiet", "request", "closed"}]
      BY <1>1, <1>9 DEF TypeOK, InputIsGone, Without
    <3> QED
      BY <3>1, <3>2, <3>3, <3>4, <3>5, <1>1, <1>9
         DEF TypeOK, Locks, InputIsGone, tunnel, input
  <2>2. Private(s)
    BY <1>1, <1>9, RequestsAssumption
       DEF TypeOK, HalvesOK, Private, Places, InTunnel, tunnel, InputIsGone, Without
  <2> QED BY <2>1, <2>2, PrivateKeeps
<1>10. ASSUME HaveMessage(s) PROVE IInv'
  <2>1. TypeOK'
    BY <1>1, <1>10, RequestsAssumption
       DEF TypeOK, tunnel, HaveMessage, InHand, ModuleRoles, input
  <2>2. Private(s)
    BY <1>1, <1>10, RequestsAssumption
       DEF TypeOK, HalvesOK, Private, Places, InTunnel, tunnel, HaveMessage, InHand,
           ModuleRoles, input
  <2> QED BY <2>1, <2>2, PrivateKeeps
<1>11. ASSUME CallModules(s) PROVE IInv'
  <2>1. TypeOK'
    <3>1. isLive' \in [Sessions -> BOOLEAN]
      BY <1>1, <1>11 DEF TypeOK, CallModules, After, InHand, ModuleRoles, input
    <3>2. fState' \in [Sessions -> {"first", "waiting", "bound", "reading", "message"}
                                      \cup InHand]
      BY <1>1, <1>11 DEF TypeOK, CallModules, After, InHand, ModuleRoles, input
    <3>3. lock' \in [Sessions -> Locks]
      <4>1. lock' = [lock EXCEPT ![s].asked = FALSE] BY <1>11 DEF CallModules, input
      <4> QED BY <1>1, <4>1, LockGivenBack
    <3> QED BY <3>1, <3>2, <3>3, <1>1, <1>11 DEF TypeOK, Locks, CallModules, tunnel, input
  <2>2. Private(s)
    BY <1>1, <1>11, RequestsAssumption
       DEF TypeOK, HalvesOK, Private, Places, InTunnel, tunnel, CallModules, After,
           InHand, ModuleRoles, input
  <2> QED BY <2>1, <2>2, PrivateKeeps
<1>12. ASSUME ModuleWaits(s, locked) PROVE IInv'
  <2>1. TypeOK'
    BY <1>1, <1>12, RequestsAssumption
       DEF TypeOK, tunnel, ModuleWaits, ModuleRoles, input
  <2>2. Private(s)
    BY <1>1, <1>12, RequestsAssumption
       DEF TypeOK, HalvesOK, Private, Places, InTunnel, tunnel, ModuleWaits, ModuleRoles,
           input
  <2> QED BY <2>1, <2>2, PrivateKeeps
<1>13. ASSUME SendResponse(s) PROVE IInv'
  <2>1. TypeOK'
    <3>1. pc' \in [Sessions -> {"none", "idle", "run", "registering", "locking",
                              "binding", "releasing", "deleting"}]
      BY <1>1, <1>13 DEF TypeOK, SendResponse, InHand, input
    <3>2. fReadMutex' \in [Sessions -> Sessions \cup {None}]
      BY <1>1, <1>13 DEF TypeOK, SendResponse, InHand, input
    <3>3. fState' \in [Sessions -> {"first", "waiting", "bound", "reading", "message"}
                                      \cup InHand]
      BY <1>1, <1>13 DEF TypeOK, SendResponse, InHand, input
    <3>4. lock' \in [Sessions -> Locks]
      <4>1. lock' = lock \/ lock' = [lock EXCEPT ![s].held = FALSE]
        BY <1>13
           DEF SendResponse, input
      <4> QED BY <1>1, <4>1, LockGivenBack
    <3> QED
      BY <3>1, <3>2, <3>3, <3>4, <1>1, <1>13
         DEF TypeOK, Locks, SendResponse, tunnel, input
  <2>2. Private(s)
    BY <1>1, <1>13, RequestsAssumption
       DEF TypeOK, HalvesOK, Private, Places, InTunnel, tunnel, SendResponse, InHand,
           input
  <2> QED BY <2>1, <2>2, PrivateKeeps
<1>14. ASSUME CleanUp(s) PROVE IInv'
  <2>1. TypeOK'
    <3>1. pc' \in [Sessions -> {"none", "idle", "run", "registering", "locking",
                              "binding", "releasing", "deleting"}]
      BY <1>1, <1>14 DEF TypeOK, CleanUp, input
    <3>2. fReadMutex' \in [Sessions -> Sessions \cup {None}]
      BY <1>1, <1>14 DEF TypeOK, CleanUp, input
    <3>3. fState' \in [Sessions -> {"first", "waiting", "bound", "reading", "message"}
                                      \cup InHand]
      BY <1>1, <1>14 DEF TypeOK, CleanUp, input
    <3>4. lock' \in [Sessions -> Locks]
      <4>1. lock' = lock \/ lock' = [lock EXCEPT ![s].held = FALSE]
        BY <1>14
           DEF CleanUp, input
      <4> QED BY <1>1, <4>1, LockGivenBack
    <3> QED BY <3>1, <3>2, <3>3, <3>4, <1>1, <1>14 DEF TypeOK, Locks, CleanUp, tunnel, input
  <2>2. Private(s)
    BY <1>1, <1>14, RequestsAssumption
       DEF TypeOK, HalvesOK, Private, Places, InTunnel, tunnel, CleanUp, input
  <2> QED BY <2>1, <2>2, PrivateKeeps
<1>15. ASSUME WaitToBind(s) PROVE IInv'
  <2>1. TypeOK'
    <3>1. pc' \in [Sessions -> {"none", "idle", "run", "registering", "locking",
                              "binding", "releasing", "deleting"}]
      BY <1>1, <1>15 DEF TypeOK, WaitToBind, input
    <3>2. lock' \in [Sessions -> Locks]
      <4>1. lock' = lock \/ lock' = [lock EXCEPT ![s].held = FALSE]
        BY <1>15
           DEF WaitToBind, input
      <4> QED BY <1>1, <4>1, LockGivenBack
    <3> QED BY <3>1, <3>2, <1>1, <1>15 DEF TypeOK, Locks, WaitToBind, tunnel, input
  <2>2. Private(s)
    BY <1>1, <1>15, RequestsAssumption
       DEF TypeOK, HalvesOK, Private, Places, InTunnel, tunnel, WaitToBind, input
  <2> QED BY <2>1, <2>2, PrivateKeeps
<1> QED
  BY <1>2, <1>3, <1>4, <1>5, <1>6, <1>7, <1>8, <1>9, <1>10, <1>11, <1>12, <1>13, <1>14, <1>15

-----------------------------------------------------------------------------
(* The steps of the tunnel.                                                *)
LEMMA RegisterKeeps ==
  ASSUME IInv, NEW s \in Sessions, Register(s)
  PROVE  IInv'
<1> USE RequestsAssumption DEF IInv
<1>1. TypeOK /\ RefsOK /\ HalvesOK /\ TunnelIsFound /\ pc[s] = "registering"
  BY DEF Register
<1>2. /\ other[s] = None
      /\ UNCHANGED <<fState, isLive, events, input, fReadMutex, lock>>
  BY <1>1 DEF RefsOK, Register, Places
<1>3. CASE map = None
  <2>1. map' = s /\ pc' = [pc EXCEPT ![s] = "run"] /\ UNCHANGED <<fRefCount, other>>
    BY <1>3 DEF Register, Goto
  <2>2. TypeOK' BY <1>1, <1>2, <2>1 DEF TypeOK, input
  <2>3. RefsOK' BY <1>1, <2>1 DEF TypeOK, RefsOK, Places
  <2>4. HalvesOK' BY <1>1, <1>2, <1>3, <2>1 DEF TypeOK, RefsOK, HalvesOK, Places, Alike
  <2>5. TunnelIsFound' BY <1>1, <1>2, <1>3, <2>1 DEF TypeOK, TunnelIsFound, InTunnel, input
  <2> QED BY <2>2, <2>3, <2>4, <2>5
<1>4. CASE map # None /\ (fRefCount[map] > 0 \/ Alike(s, map))
  <2>1. pc' = [pc EXCEPT ![s] = "deleting"] /\ UNCHANGED tunnel
    BY <1>4 DEF Register, Goto
  <2>2. TypeOK' BY <1>1, <1>2, <2>1 DEF TypeOK, input, tunnel
  <2>3. Private(s) BY <1>1, <1>2, <2>1 DEF TypeOK, Private, InTunnel, input, Places
  <2> QED BY <2>2, <2>3, PrivateKeeps
<1>5. CASE map # None /\ ~(fRefCount[map] > 0 \/ Alike(s, map))
  <2>1. /\ fRefCount' = [fRefCount EXCEPT ![map] = @ + 1]
        /\ other' = [other EXCEPT ![s] = map]
        /\ pc' = [pc EXCEPT ![s] = "locking"] /\ map' = map
    BY <1>5 DEF Register, Goto
  <2>2. map \in Sessions /\ map # s /\ fRefCount[map] = 0 /\ \A t \in Sessions : other[t] # map
    BY <1>1, <1>5 DEF TypeOK, RefsOK, Alike, Sessions
  <2>3. TypeOK' BY <1>1, <1>2, <2>1, <2>2 DEF TypeOK, input
  <2>4. RefsOK' BY <1>1, <1>2, <2>1, <2>2 DEF TypeOK, RefsOK, Places
  <2>5. HalvesOK' BY <1>1, <1>2, <1>5, <2>1 DEF TypeOK, RefsOK, HalvesOK, Alike
  <2>6. TunnelIsFound' BY <1>1, <1>2, <2>1 DEF TypeOK, TunnelIsFound, InTunnel, input
  <2> QED BY <2>3, <2>4, <2>5, <2>6
<1> QED BY <1>3, <1>4, <1>5

(* The other half, or its place, is given back.                            *)
LEMMA ReleaseOtherKeeps ==
  ASSUME IInv, NEW s \in Sessions, pc[s] \in Places, ReleaseOther(s),
         NEW p \in {"run", "deleting"}, pc' = [pc EXCEPT ![s] = p],
         UNCHANGED <<fState, isLive, events, input, lock>>,
         fReadMutex' \in [Sessions -> Sessions \cup {None}],
         pc[s] = "releasing" \/ p = "deleting"
  PROVE  IInv'
<1> USE RequestsAssumption DEF IInv
<1>1. TypeOK /\ RefsOK /\ HalvesOK /\ TunnelIsFound OBVIOUS
<1>2. other[s] \in Sessions /\ other[s] # s /\ fRefCount[other[s]] = 1
  BY <1>1 DEF TypeOK, RefsOK
<1>3. /\ fRefCount' = [fRefCount EXCEPT ![other[s]] = 0]
      /\ other' = [other EXCEPT ![s] = None] /\ map' = map
  BY <1>1, <1>2 DEF TypeOK, ReleaseOther
<1>4. TypeOK' BY <1>1, <1>2, <1>3 DEF TypeOK, input
<1>5. RefsOK' BY <1>1, <1>2, <1>3 DEF TypeOK, RefsOK, Places
<1>6. HalvesOK' BY <1>1, <1>3 DEF TypeOK, HalvesOK, Alike
<1>7. TunnelIsFound' BY <1>1, <1>3 DEF TypeOK, TunnelIsFound, InTunnel, input
<1> QED BY <1>4, <1>5, <1>6, <1>7

LEMMA TryLockKeeps ==
  ASSUME IInv, NEW s \in Sessions, TryLock(s)
  PROVE  IInv'
<1> USE RequestsAssumption
<1>1. TypeOK /\ RefsOK /\ HalvesOK /\ pc[s] = "locking" BY DEF IInv, TryLock
<1>2. other[s] \in Sessions BY <1>1 DEF TypeOK, RefsOK, Places
<1>3. UNCHANGED <<fState, isLive, events, input, lock>> BY DEF TryLock
<1>4. \/ /\ fReadMutex' = fReadMutex
         /\ pc' = [pc EXCEPT ![s] = "deleting"] /\ ReleaseOther(s)
      \/ /\ fReadMutex' = [fReadMutex EXCEPT ![other[s]] = other[s]]
         /\ pc' = [pc EXCEPT ![s] = "binding"] /\ UNCHANGED tunnel
      \/ /\ fReadMutex' = [fReadMutex EXCEPT ![other[s]] = s]
         /\ pc' = [pc EXCEPT ![s] = "binding"] /\ UNCHANGED tunnel
  BY DEF TryLock, Goto
<1>5. fReadMutex' \in [Sessions -> Sessions \cup {None}]
  BY <1>1, <1>2, <1>4 DEF TypeOK
<1>6. CASE pc' = [pc EXCEPT ![s] = "deleting"] /\ ReleaseOther(s)
  BY <1>1, <1>3, <1>5, <1>6, ReleaseOtherKeeps DEF Places
<1>7. CASE pc' = [pc EXCEPT ![s] = "binding"] /\ UNCHANGED tunnel
  <2>1. TypeOK' BY <1>1, <1>3, <1>5, <1>7 DEF TypeOK, input, tunnel
  <2>2. Private(s) BY <1>1, <1>3, <1>7 DEF TypeOK, Private, InTunnel, input, Places
  <2> QED BY <2>1, <2>2, PrivateKeeps
<1> QED BY <1>4, <1>6, <1>7

LEMMA ReleaseKeeps ==
  ASSUME IInv, NEW s \in Sessions, Release(s)
  PROVE  IInv'
<1>1. TypeOK /\ RefsOK /\ pc[s] = "releasing" BY DEF IInv, Release
<1>2. fReadMutex' \in [Sessions -> Sessions \cup {None}]
  BY <1>1 DEF TypeOK, Release
<1>3. /\ ReleaseOther(s) /\ UNCHANGED <<fState, isLive, events, input, lock>>
      /\ \/ pc' = [pc EXCEPT ![s] = "run"] \/ pc' = [pc EXCEPT ![s] = "deleting"]
  BY DEF Release, Goto
<1> QED BY <1>1, <1>2, <1>3, ReleaseOtherKeeps DEF Places

LEMMA SnarfType ==
  ASSUME TypeOK, NEW g \in Sessions, NEW p \in Sessions, Snarf(g, p)
  PROVE  /\ fInputSocketP' \in [Sessions -> Sessions \cup {None}]
         /\ armed' \in [Sessions -> BOOLEAN] /\ isLive' \in [Sessions -> BOOLEAN]
         /\ fState' \in [Sessions -> {"first", "waiting", "bound", "reading", "message"}
                                      \cup InHand]
         /\ connection' \in [Sessions -> {"quiet", "request", "closed"}]
<1>1. connection' \in [Sessions -> {"quiet", "request", "closed"}]
  BY DEF TypeOK, Snarf, Without
<1>2. fInputSocketP' \in [Sessions -> Sessions \cup {None}] BY DEF TypeOK, Snarf
<1>3. armed' \in [Sessions -> BOOLEAN] /\ isLive' \in [Sessions -> BOOLEAN]
  BY DEF TypeOK, Snarf
<1>4. fState' \in [Sessions -> {"first", "waiting", "bound", "reading", "message"} \cup InHand]
  BY DEF TypeOK, Snarf
<1> QED BY <1>1, <1>2, <1>3, <1>4

(* Both halves have joined: the GET is in the tunnel, the POST is not.     *)
LEMMA BindKeeps ==
  ASSUME IInv, NEW s \in Sessions, BindPost(s) \/ BindGet(s)
  PROVE  IInv'
<1> USE RequestsAssumption
<1>1. /\ TypeOK /\ RefsOK /\ HalvesOK /\ TunnelIsFound
      /\ pc[s] = "binding" /\ pc' = [pc EXCEPT ![s] = "releasing"]
      /\ UNCHANGED <<fReadMutex, fRefCount, other, lock>>
  BY DEF IInv, BindPost, BindGet, Goto, tunnel
<1>2. other[s] \in Sessions /\ other[s] # s /\ map = other[s] /\ ~Alike(s, other[s])
  BY <1>1 DEF TypeOK, RefsOK, HalvesOK, Places
<1>3. events' \in [Sessions -> SUBSET {"read", "kill"}]
  BY <1>1, <1>2 DEF TypeOK, BindPost, BindGet
<1>4. RefsOK' BY <1>1 DEF TypeOK, RefsOK, Places
<1>5. \A t \in Sessions : t # s => other[t] # other[s] BY <1>1, <1>2 DEF RefsOK
<1>6. CASE BindPost(s)
  <2>1. Snarf(other[s], s) /\ map' = map /\ s \in Posts BY <1>6 DEF BindPost, tunnel
  <2>2. TypeOK' BY <1>1, <1>2, <1>3, <2>1, SnarfType DEF TypeOK
  <2>3. /\ fState' = [fState EXCEPT ![other[s]] = "reading", ![s] = "bound"]
        /\ \A t \in Sessions \ {s, other[s]} : fInputSocketP'[t] = fInputSocketP[t]
    BY <1>1, <1>2, <2>1 DEF TypeOK, Snarf
  <2>4. HalvesOK' BY <1>1, <1>2, <2>1, <2>3 DEF TypeOK, HalvesOK, Alike
  <2>5. TunnelIsFound'
    BY <1>1, <1>2, <2>1, <2>3 DEF TypeOK, TunnelIsFound, InTunnel
  <2> QED BY <1>4, <2>2, <2>4, <2>5 DEF IInv
<1>7. CASE BindGet(s)
  <2>1. Snarf(s, other[s]) /\ map' = s /\ s \in Gets BY <1>7 DEF BindGet
  <2>2. TypeOK' BY <1>1, <1>2, <1>3, <2>1, SnarfType DEF TypeOK
  <2>3. /\ fState' = [fState EXCEPT ![s] = "reading", ![other[s]] = "bound"]
        /\ \A t \in Sessions \ {s, other[s]} : fInputSocketP'[t] = fInputSocketP[t]
    BY <1>1, <1>2, <2>1 DEF TypeOK, Snarf
  <2>4. HalvesOK' BY <1>1, <1>2, <1>5, <2>1, <2>3 DEF TypeOK, HalvesOK, RefsOK, Alike
  <2>5. other[s] \notin Gets BY <1>2, <2>1 DEF Alike
  <2>6. TunnelIsFound'
    BY <1>1, <1>2, <2>1, <2>3, <2>5 DEF TypeOK, TunnelIsFound, InTunnel
  <2> QED BY <1>4, <2>2, <2>4, <2>6 DEF IInv
<1> QED BY <1>1, <1>6, <1>7

LEMMA UnRegisterKeeps ==
  ASSUME IInv, NEW s \in Sessions, UnRegister(s)
  PROVE  IInv'
<1> USE RequestsAssumption
<1>1. /\ TypeOK /\ RefsOK /\ HalvesOK /\ TunnelIsFound
      /\ pc[s] = "deleting" /\ pc' = [pc EXCEPT ![s] = "none"]
      /\ map' = IF map = s THEN None ELSE map
      /\ Forget(s) /\ UNCHANGED <<fReadMutex, fRefCount, other>>
      /\ fRefCount[s] = 0
  BY DEF IInv, UnRegister, Goto
<1>2. lock' \in [Sessions -> Locks] BY <1>1 DEF TypeOK, Forget, NoLock, Locks
<1>3. connection' \in [Sessions -> {"quiet", "request", "closed"}]
  BY <1>1 DEF TypeOK, Forget, Without
<1>4. /\ fState' \in [Sessions -> {"first", "waiting", "bound", "reading", "message"} \cup InHand]
      /\ isLive' \in [Sessions -> BOOLEAN] /\ armed' \in [Sessions -> BOOLEAN]
      /\ events' \in [Sessions -> SUBSET {"read", "kill"}]
      /\ fInputSocketP' \in [Sessions -> Sessions \cup {None}]
  BY <1>1 DEF TypeOK, Forget
<1>5. TypeOK' BY <1>1, <1>2, <1>3, <1>4 DEF TypeOK, Locks
<1>6. RefsOK' BY <1>1 DEF TypeOK, RefsOK, Places
<1>7. \A t \in Sessions : other[t] # s BY <1>1 DEF RefsOK
<1>8. /\ fState' = [fState EXCEPT ![s] = "first"]
      /\ fInputSocketP' = [fInputSocketP EXCEPT ![s] = None]
  BY <1>1 DEF Forget
<1>9. HalvesOK' BY <1>1, <1>7, <1>8 DEF TypeOK, HalvesOK, Alike
<1>10. TunnelIsFound' BY <1>1, <1>8 DEF TypeOK, TunnelIsFound, InTunnel
<1> QED BY <1>5, <1>6, <1>9, <1>10 DEF IInv

LEMMA NextIInv == IInv /\ [Next]_vars => IInv'
<1> SUFFICES ASSUME IInv, [Next]_vars PROVE IInv' OBVIOUS
<1>1. CASE UNCHANGED vars
  BY <1>1
     DEF vars, tunnel, input, IInv, TypeOK, RefsOK, HalvesOK, TunnelIsFound, InTunnel,
         Alike
<1>2. CASE Next
  <2>1. PICK s \in Sessions :
          \/ Environment(s) \/ Run(s) \/ Step(s)
          \/ CallModules(s) \/ ModuleWaits(s, TRUE) \/ ModuleWaits(s, FALSE)
          \/ SendResponse(s) \/ CleanUp(s)
    BY <1>2 DEF Next
  <2>2. CASE Environment(s) \/ Run(s) \/ CallModules(s) \/ ModuleWaits(s, TRUE)
             \/ ModuleWaits(s, FALSE) \/ SendResponse(s) \/ CleanUp(s)
    <3>1. "request" \in {"request", "closed"} /\ "closed" \in {"request", "closed"}
          /\ TRUE \in BOOLEAN /\ FALSE \in BOOLEAN
      OBVIOUS
    <3> QED BY <2>2, <3>1, PrivateSteps DEF Environment
  <2>3. CASE Step(s)
    BY <2>3, PrivateSteps, RegisterKeeps, TryLockKeeps, BindKeeps, ReleaseKeeps,
       UnRegisterKeeps DEF Step
  <2> QED BY <2>1, <2>2, <2>3
<1> QED BY <1>1, <1>2

LEMMA Invariance == Spec => []IInv
<1>1. Init => IInv BY InitIInv
<1>2. IInv /\ [Next]_vars => IInv' BY NextIInv
<1> QED BY <1>1, <1>2, PTL DEF Spec

(* Every variable keeps its type; in particular no reference is given back *)
(* that was not taken.                                                     *)
THEOREM TypeCorrect == Spec => []TypeOK
<1>1. IInv => TypeOK BY DEF IInv
<1> QED BY <1>1, Invariance, PTL

(* Whoever is in the tunnel is found there by the next half that comes,    *)
(* whatever number of halves come and go.                                  *)
THEOREM TunnelIsFoundHolds == Spec => []TunnelIsFound
<1>1. IInv => TunnelIsFound BY DEF IInv
<1> QED BY <1>1, Invariance, PTL

-----------------------------------------------------------------------------
(* The mutex: a session has its own while it has a request in hand, and    *)
(* another half has it while the two join.                                 *)
InRequest(s) == pc[s] \in {"idle", "run"} /\ fState[s] \in InHand

MutexOK ==
  \A s \in Sessions :
    /\ fReadMutex[s] = s <=> InRequest(s)
    /\ pc[s] \in {"binding", "releasing"} => fReadMutex[other[s]] = s
    /\ pc[s] \in Places \cup {"registering"} => fState[s] \notin InHand

(* A request for the global lock is due until the next run, which has it.  *)
LockOK ==
  \A s \in Sessions :
    lock[s].asked =>
      \/ pc[s] = "idle" /\ fState[s] \in ModuleRoles /\ lock[s].due
      \/ pc[s] = "run" /\ fState[s] \in ModuleRoles /\ lock[s].held
      \/ pc[s] = "deleting"

LEMMA InitMutexOK == Init => MutexOK
BY RequestsAssumption DEF Init, MutexOK, InRequest, InHand, ModuleRoles, Places

(* A step of one session that leaves the mutexes of the others alone.      *)
OwnMutex(s) ==
  /\ \A t \in Sessions \ {s} :
       /\ pc'[t] = pc[t] /\ fState'[t] = fState[t]
       /\ fReadMutex'[t] = fReadMutex[t] /\ other'[t] = other[t]
  /\ pc'[s] \in {"binding", "releasing"} =>
       pc[s] \in {"binding", "releasing"} /\ other'[s] = other[s]
  /\ pc'[s] \in Places \cup {"registering"} => fState'[s] \notin InHand
  /\ \/ fReadMutex'[s] = fReadMutex[s] /\ (InRequest(s)' <=> InRequest(s))
     \/ fReadMutex[s] \in {None, s} /\ fReadMutex'[s] = s /\ InRequest(s)'
     \/ fReadMutex[s] = s /\ fReadMutex'[s] = None /\ ~InRequest(s)'

LEMMA OwnMutexKeeps ==
  ASSUME IInv, MutexOK, NEW s \in Sessions, OwnMutex(s)
  PROVE  MutexOK'
<1>1. \A t \in Sessions : pc[t] \in {"binding", "releasing"} =>
        other[t] \in Sessions /\ other[t] # t /\ fReadMutex[other[t]] = t
  BY DEF IInv, TypeOK, RefsOK, Places, MutexOK
<1> QED BY <1>1, RequestsAssumption DEF MutexOK, OwnMutex, InRequest

LEMMA OwnSteps ==
  ASSUME IInv, MutexOK, NEW s \in Sessions,
         NEW what \in {"request", "closed"}, NEW locked \in BOOLEAN,
         \/ Connect(s) \/ Arrive(s, what) \/ TimeOut(s) \/ Run(s)
         \/ ReadFirstRequest(s) \/ AwaitRequest(s) \/ ReadRequest(s) \/ InputIsGone(s)
         \/ HaveMessage(s) \/ CallModules(s) \/ ModuleWaits(s, locked) \/ SendResponse(s)
         \/ CleanUp(s) \/ WaitToBind(s) \/ Register(s) \/ UnRegister(s)
  PROVE  OwnMutex(s)
<1> USE DEF At, Goto, Return, End, CleanupRequest, Enter, InRequest, InHand, ModuleRoles
<1>1. /\ TypeOK /\ HalvesOK /\ None \notin Sessions
      /\ fReadMutex[s] = s <=> InRequest(s)
      /\ pc[s] \in Places \cup {"registering"} => fState[s] \notin InHand
  BY RequestsAssumption DEF IInv, MutexOK
<1>2. ASSUME Connect(s) PROVE OwnMutex(s)
  BY <1>1, <1>2 DEF TypeOK, HalvesOK, OwnMutex, Places, tunnel, Connect
<1>3. ASSUME Arrive(s, what) PROVE OwnMutex(s)
  BY <1>1, <1>3 DEF TypeOK, HalvesOK, OwnMutex, Places, tunnel, Arrive
<1>4. ASSUME TimeOut(s) PROVE OwnMutex(s)
  BY <1>1, <1>4 DEF TypeOK, HalvesOK, OwnMutex, Places, tunnel, TimeOut, input
<1>5. ASSUME Run(s) PROVE OwnMutex(s)
  BY <1>1, <1>5 DEF TypeOK, HalvesOK, OwnMutex, Places, tunnel, Run, input
<1>6. ASSUME ReadFirstRequest(s) PROVE OwnMutex(s)
  BY <1>1, <1>6 DEF TypeOK, HalvesOK, OwnMutex, Places, tunnel, ReadFirstRequest, input
<1>7. ASSUME AwaitRequest(s) PROVE OwnMutex(s)
  BY <1>1, <1>7 DEF TypeOK, HalvesOK, OwnMutex, Places, tunnel, AwaitRequest
<1>8. ASSUME ReadRequest(s) PROVE OwnMutex(s)
  BY <1>1, <1>8 DEF TypeOK, HalvesOK, OwnMutex, Places, tunnel, ReadRequest
<1>9. ASSUME InputIsGone(s) PROVE OwnMutex(s)
  BY <1>1, <1>9 DEF TypeOK, HalvesOK, OwnMutex, Places, tunnel, InputIsGone, Without
<1>10. ASSUME HaveMessage(s) PROVE OwnMutex(s)
  BY <1>1, <1>10 DEF TypeOK, HalvesOK, OwnMutex, Places, tunnel, HaveMessage, input
<1>11. ASSUME CallModules(s) PROVE OwnMutex(s)
  BY <1>1, <1>11 DEF TypeOK, HalvesOK, OwnMutex, Places, tunnel, CallModules, After, input
<1>12. ASSUME ModuleWaits(s, locked) PROVE OwnMutex(s)
  BY <1>1, <1>12 DEF TypeOK, HalvesOK, OwnMutex, Places, tunnel, ModuleWaits, input
<1>13. ASSUME SendResponse(s) PROVE OwnMutex(s)
  BY <1>1, <1>13 DEF TypeOK, HalvesOK, OwnMutex, Places, tunnel, SendResponse, input
<1>14. ASSUME CleanUp(s) PROVE OwnMutex(s)
  BY <1>1, <1>14 DEF TypeOK, HalvesOK, OwnMutex, Places, tunnel, CleanUp, input
<1>15. ASSUME WaitToBind(s) PROVE OwnMutex(s)
  BY <1>1, <1>15 DEF TypeOK, HalvesOK, OwnMutex, Places, tunnel, WaitToBind, input
<1>16. ASSUME Register(s) PROVE OwnMutex(s)
  BY <1>1, <1>16 DEF TypeOK, HalvesOK, OwnMutex, Places, tunnel, Register, input
<1>17. ASSUME UnRegister(s) PROVE OwnMutex(s)
  BY <1>1, <1>17 DEF TypeOK, HalvesOK, OwnMutex, Places, tunnel, UnRegister, Forget
<1> QED
  BY <1>2, <1>3, <1>4, <1>5, <1>6, <1>7, <1>8, <1>9, <1>10, <1>11, <1>12, <1>13, <1>14, <1>15, <1>16, <1>17

(* One session takes, uses and gives back the mutex of the other half.     *)
LEMMA TunnelMutex ==
  ASSUME ~SharesThread, IInv, MutexOK, NEW s \in Sessions,
         TryLock(s) \/ BindPost(s) \/ BindGet(s) \/ Release(s)
  PROVE  MutexOK'
<1>1. TypeOK /\ RefsOK /\ HalvesOK /\ None \notin Sessions BY RequestsAssumption DEF IInv
<1>2. /\ other[s] \in Sessions /\ other[s] # s
      /\ \A t \in Sessions : other[t] = other[s] => t = s
      /\ pc[s] \in Places /\ fState[s] \notin InHand
  BY <1>1 DEF TypeOK, RefsOK, Places, TryLock, BindPost, BindGet, Release, MutexOK
<1>3. CASE TryLock(s)
  <2>1. CASE fReadMutex[other[s]] = None
    <3>1. /\ fReadMutex' = [fReadMutex EXCEPT ![other[s]] = s]
          /\ pc' = [pc EXCEPT ![s] = "binding"]
          /\ UNCHANGED <<fState, other>>
      BY <1>3, <2>1 DEF TryLock, Goto, tunnel
    <3> QED BY <1>1, <1>2, <2>1, <3>1 DEF TypeOK, MutexOK, InRequest, Places
  <2>2. CASE fReadMutex[other[s]] # None
    <3>1. /\ fReadMutex' = fReadMutex /\ fState' = fState
          /\ pc' = [pc EXCEPT ![s] = "deleting"] /\ other' = [other EXCEPT ![s] = None]
      BY <1>3, <2>2 DEF TryLock, Goto, ReleaseOther
    <3> QED BY <1>1, <1>2, <3>1 DEF TypeOK, RefsOK, MutexOK, InRequest, Places
  <2> QED BY <2>1, <2>2
<1>4. CASE BindPost(s) \/ BindGet(s)
  <2>1. /\ pc[s] = "binding" /\ pc' = [pc EXCEPT ![s] = "releasing"]
        /\ UNCHANGED <<fReadMutex, other>>
        /\ fReadMutex[other[s]] = s
    BY <1>4 DEF BindPost, BindGet, Goto, tunnel, MutexOK
  <2>2. /\ \A t \in Sessions \ {s, other[s]} : fState'[t] = fState[t]
        /\ \A t \in {s, other[s]} : fState'[t] \in {"reading", "bound"}
    BY <1>1, <1>2, <1>4 DEF TypeOK, BindPost, BindGet, Snarf
  <2>3. \A t \in {s, other[s]} : ~InRequest(t)' /\ fState'[t] \notin InHand /\ ~InRequest(t)
    BY <1>1, <1>2, <2>1, <2>2 DEF InRequest, InHand, ModuleRoles, MutexOK, Places
  <2>4. \A t \in Sessions \ {s, other[s]} : InRequest(t)' <=> InRequest(t)
    BY <1>1, <2>1, <2>2 DEF TypeOK, InRequest
  <2>5. ASSUME NEW t \in Sessions
        PROVE  /\ fReadMutex'[t] = t <=> InRequest(t)'
               /\ pc'[t] \in {"binding", "releasing"} => fReadMutex'[other'[t]] = t
               /\ pc'[t] \in Places \cup {"registering"} => fState'[t] \notin InHand
    BY <1>1, <1>2, <2>1, <2>2, <2>3, <2>4 DEF TypeOK, MutexOK, Places
  <2> QED BY <2>5 DEF MutexOK
<1>5. CASE Release(s)
  <2>1. /\ pc[s] = "releasing" /\ fReadMutex[other[s]] = s
        /\ fReadMutex' = [fReadMutex EXCEPT ![other[s]] = None]
        /\ other' = [other EXCEPT ![s] = None] /\ fState' = fState
        /\ \/ pc' = [pc EXCEPT ![s] = "run"] \/ pc' = [pc EXCEPT ![s] = "deleting"]
    BY <1>5 DEF Release, ReleaseOther, Goto, MutexOK
  <2> QED BY <1>1, <1>2, <2>1 DEF TypeOK, RefsOK, MutexOK, InRequest, Places
<1> QED BY <1>3, <1>4, <1>5

LEMMA NextMutexOK ==
  ASSUME ~SharesThread
  PROVE  IInv /\ MutexOK /\ [Next]_vars => MutexOK'
<1> SUFFICES ASSUME IInv, MutexOK, [Next]_vars PROVE MutexOK' OBVIOUS
<1>1. CASE UNCHANGED vars
  BY <1>1 DEF vars, tunnel, MutexOK, InRequest
<1>2. CASE Next
  <2>1. PICK s \in Sessions :
          \/ Environment(s) \/ Run(s) \/ Step(s)
          \/ CallModules(s) \/ ModuleWaits(s, TRUE) \/ ModuleWaits(s, FALSE)
          \/ SendResponse(s) \/ CleanUp(s)
    BY <1>2 DEF Next
  <2>2. CASE TryLock(s) \/ BindPost(s) \/ BindGet(s) \/ Release(s)
    BY <2>2, TunnelMutex
  <2>3. CASE ~(TryLock(s) \/ BindPost(s) \/ BindGet(s) \/ Release(s))
    <3>1. OwnMutex(s) BY <2>1, <2>3, OwnSteps DEF Environment, Step
    <3> QED BY <3>1, OwnMutexKeeps
  <2> QED BY <2>2, <2>3
<1> QED BY <1>1, <1>2

LEMMA MutexInvariance ==
  ASSUME ~SharesThread
  PROVE  Spec => [](IInv /\ MutexOK)
<1>1. Init => MutexOK BY InitMutexOK
<1>2. IInv /\ MutexOK /\ [Next]_vars => MutexOK' BY NextMutexOK
<1> QED BY <1>1, <1>2, Invariance, PTL DEF Spec

(* Nobody takes a session's input, or gives it another, while it has a     *)
(* request in hand.                                                        *)
LEMMA StepUndisturbed ==
  ASSUME IInv, MutexOK, [Next]_vars, NEW t \in Sessions, InRequest(t)
  PROVE  fInputSocketP'[t] = fInputSocketP[t]
<1>1. CASE UNCHANGED vars BY <1>1 DEF vars, input
<1>2. CASE Next
  <2>1. PICK s \in Sessions :
          \/ Environment(s) \/ Run(s) \/ Step(s)
          \/ CallModules(s) \/ ModuleWaits(s, TRUE) \/ ModuleWaits(s, FALSE)
          \/ SendResponse(s) \/ CleanUp(s)
    BY <1>2 DEF Next
  <2>2. TypeOK /\ RefsOK /\ fReadMutex[t] = t BY DEF IInv, MutexOK
  <2>3. CASE BindPost(s) \/ BindGet(s)
    <3>1. pc[s] = "binding" /\ fReadMutex[other[s]] = s /\ other[s] # s
      BY <2>2, <2>3 DEF BindPost, BindGet, MutexOK, RefsOK
    <3>2. t # s /\ t # other[s] BY <2>2, <3>1 DEF InRequest
    <3> QED BY <2>2, <2>3, <3>2 DEF TypeOK, BindPost, BindGet, Snarf
  <2>4. CASE Connect(s) \/ InputIsGone(s) \/ UnRegister(s)
    <3>1. t # s
      BY <2>4 DEF InRequest, Connect, InputIsGone, UnRegister, At, InHand, ModuleRoles
    <3> QED BY <2>2, <2>4, <3>1 DEF TypeOK, Connect, InputIsGone, UnRegister, Forget
  <2>5. CASE ~(BindPost(s) \/ BindGet(s) \/ Connect(s) \/ InputIsGone(s) \/ UnRegister(s))
    BY <2>1, <2>5 DEF Environment, Arrive, TimeOut, Run, Step, ReadFirstRequest,
       AwaitRequest, ReadRequest, HaveMessage, Register, TryLock, Release, WaitToBind,
       CallModules, ModuleWaits, SendResponse, CleanUp, input
  <2> QED BY <2>3, <2>4, <2>5
<1> QED BY <1>1, <1>2

(* From the filter role to the end of its answer a request keeps its       *)
(* input, when no session joins one that its own thread serves: the halves *)
(* of other clients may come at any time.                                  *)
THEOREM InputUndisturbedHolds ==
  ASSUME ~SharesThread
  PROVE  Spec => InputUndisturbed
<1>1. IInv /\ MutexOK /\ [Next]_vars =>
        [\A s \in Sessions :
           pc[s] \in {"idle", "run"} /\ fState[s] \in InHand
             => fInputSocketP'[s] = fInputSocketP[s]]_vars
  BY StepUndisturbed DEF InRequest
<1> QED BY <1>1, MutexInvariance, PTL DEF Spec, InputUndisturbed

-----------------------------------------------------------------------------
LEMMA InitLockOK == Init => LockOK
BY DEF Init, LockOK, NoLock

(* A step of one session does not ask for, or take away, the lock of       *)
(* another.                                                                *)
OwnLock(s) ==
  /\ \A t \in Sessions \ {s} :
       pc'[t] = pc[t] /\ fState'[t] = fState[t] /\ lock'[t] = lock[t]
  /\ lock'[s].asked =>
       \/ pc'[s] = "idle" /\ fState'[s] \in ModuleRoles /\ lock'[s].due
       \/ pc'[s] = "run" /\ fState'[s] \in ModuleRoles /\ lock'[s].held
       \/ pc'[s] = "deleting"

LEMMA OwnLockKeeps ==
  ASSUME LockOK, NEW s \in Sessions, OwnLock(s)
  PROVE  LockOK'
BY DEF LockOK, OwnLock

LEMMA LockSteps ==
  ASSUME ~Relocks, IInv, MutexOK, LockOK, NEW s \in Sessions,
         NEW what \in {"request", "closed"}, NEW locked \in BOOLEAN,
         \/ Connect(s) \/ Arrive(s, what) \/ TimeOut(s) \/ Run(s)
         \/ ReadFirstRequest(s) \/ AwaitRequest(s) \/ ReadRequest(s) \/ InputIsGone(s)
         \/ HaveMessage(s) \/ CallModules(s) \/ ModuleWaits(s, locked) \/ SendResponse(s)
         \/ CleanUp(s) \/ WaitToBind(s) \/ Register(s) \/ UnRegister(s)
         \/ TryLock(s) \/ Release(s)
  PROVE  OwnLock(s)
<1> USE DEF At, Goto, Return, End, Enter, InHand, ModuleRoles
<1>1. /\ TypeOK /\ lock \in [Sessions -> Locks]
      /\ lock[s].asked =>
           \/ pc[s] = "idle" /\ fState[s] \in ModuleRoles /\ lock[s].due
           \/ pc[s] = "run" /\ fState[s] \in ModuleRoles /\ lock[s].held
           \/ pc[s] = "deleting"
      /\ pc[s] = "none" => ~lock[s].asked
  BY DEF IInv, TypeOK, LockOK, Locks
<1>2. ASSUME Connect(s) PROVE OwnLock(s)
  BY <1>1, <1>2 DEF TypeOK, OwnLock, Locks, Connect
<1>3. ASSUME Arrive(s, what) PROVE OwnLock(s)
  BY <1>1, <1>3 DEF TypeOK, OwnLock, Locks, Arrive
<1>4. ASSUME TimeOut(s) PROVE OwnLock(s)
  BY <1>1, <1>4 DEF TypeOK, OwnLock, Locks, TimeOut, input
<1>5. ASSUME Run(s) PROVE OwnLock(s)
  BY <1>1, <1>5 DEF TypeOK, OwnLock, Locks, Run, input
<1>6. ASSUME ReadFirstRequest(s) PROVE OwnLock(s)
  BY <1>1, <1>6 DEF TypeOK, OwnLock, Locks, ReadFirstRequest, input
<1>7. ASSUME AwaitRequest(s) PROVE OwnLock(s)
  BY <1>1, <1>7 DEF TypeOK, OwnLock, Locks, AwaitRequest
<1>8. ASSUME ReadRequest(s) PROVE OwnLock(s)
  BY <1>1, <1>8 DEF TypeOK, OwnLock, Locks, ReadRequest
<1>9. ASSUME InputIsGone(s) PROVE OwnLock(s)
  BY <1>1, <1>9 DEF TypeOK, OwnLock, Locks, InputIsGone, Without
<1>10. ASSUME HaveMessage(s) PROVE OwnLock(s)
  BY <1>1, <1>10 DEF TypeOK, OwnLock, Locks, HaveMessage, input
<1>11. ASSUME CallModules(s) PROVE OwnLock(s)
  BY <1>1, <1>11 DEF TypeOK, OwnLock, Locks, CallModules, After, input
<1>12. ASSUME ModuleWaits(s, locked) PROVE OwnLock(s)
  BY <1>1, <1>12 DEF TypeOK, OwnLock, Locks, ModuleWaits, input
<1>13. ASSUME SendResponse(s) PROVE OwnLock(s)
  BY <1>1, <1>13 DEF TypeOK, OwnLock, Locks, SendResponse, input
<1>14. ASSUME CleanUp(s) PROVE OwnLock(s)
  BY <1>1, <1>14 DEF TypeOK, OwnLock, Locks, CleanUp, input
<1>15. ASSUME WaitToBind(s) PROVE OwnLock(s)
  BY <1>1, <1>15 DEF TypeOK, OwnLock, Locks, WaitToBind, input
<1>16. ASSUME Register(s) PROVE OwnLock(s)
  BY <1>1, <1>16 DEF TypeOK, OwnLock, Locks, Register, input
<1>17. ASSUME UnRegister(s) PROVE OwnLock(s)
  BY <1>1, <1>17 DEF TypeOK, OwnLock, Locks, UnRegister, Forget, NoLock
<1>18. ASSUME TryLock(s) PROVE OwnLock(s)
  BY <1>1, <1>18 DEF TypeOK, OwnLock, Locks, TryLock
<1>19. ASSUME Release(s) PROVE OwnLock(s)
  BY <1>1, <1>19 DEF TypeOK, OwnLock, Locks, Release
<1> QED
  BY <1>2, <1>3, <1>4, <1>5, <1>6, <1>7, <1>8, <1>9, <1>10, <1>11, <1>12, <1>13, <1>14, <1>15, <1>16, <1>17, <1>18, <1>19

LEMMA NextLockOK ==
  ASSUME ~Relocks
  PROVE  IInv /\ MutexOK /\ LockOK /\ [Next]_vars => LockOK'
<1> SUFFICES ASSUME IInv, MutexOK, LockOK, [Next]_vars PROVE LockOK' OBVIOUS
<1>1. CASE UNCHANGED vars
  BY <1>1 DEF vars, LockOK
<1>2. CASE Next
  <2>1. PICK s \in Sessions :
          \/ Environment(s) \/ Run(s) \/ Step(s)
          \/ CallModules(s) \/ ModuleWaits(s, TRUE) \/ ModuleWaits(s, FALSE)
          \/ SendResponse(s) \/ CleanUp(s)
    BY <1>2 DEF Next
  <2>2. CASE BindPost(s) \/ BindGet(s)
    <3>1. /\ TypeOK /\ pc[s] = "binding" /\ pc' = [pc EXCEPT ![s] = "releasing"]
          /\ lock' = lock /\ fReadMutex[other[s]] = s /\ other[s] \in Sessions
          /\ other[s] # s
      BY <2>2, RequestsAssumption
         DEF IInv, TypeOK, RefsOK, Places, MutexOK, BindPost, BindGet, Goto
    <3>2. \A t \in Sessions \ {s, other[s]} : fState'[t] = fState[t]
      BY <2>2, <3>1 DEF TypeOK, BindPost, BindGet, Snarf
    <3>3. ~InRequest(other[s]) BY <3>1 DEF MutexOK
    <3>4. ~lock[s].asked /\ (lock[other[s]].asked => pc[other[s]] = "deleting")
      BY <3>1, <3>3 DEF LockOK, InRequest, InHand
    <3> QED BY <3>1, <3>2, <3>4 DEF TypeOK, LockOK
  <2>3. CASE ~(BindPost(s) \/ BindGet(s))
    <3>1. OwnLock(s) BY <2>1, <2>3, LockSteps DEF Environment, Step
    <3> QED BY <3>1, OwnLockKeeps
  <2> QED BY <2>2, <2>3
<1> QED BY <1>1, <1>2

(* A module that is told it has the global lock has it, when no module     *)
(* asks for the lock in a run that has it already: neither a timeout nor   *)
(* the other half of a tunnel comes between the request and the call.      *)
THEOREM LockedWhenToldHolds ==
  ASSUME ~SharesThread, ~Relocks
  PROVE  Spec => []LockedWhenTold
<1>1. Init => LockOK BY InitLockOK
<1>2. IInv /\ MutexOK /\ LockOK /\ [Next]_vars => LockOK' BY NextLockOK
<1>3. LockOK => LockedWhenTold BY DEF LockOK, LockedWhenTold
<1> QED BY <1>1, <1>2, <1>3, MutexInvariance, PTL DEF Spec
=============================================================================
