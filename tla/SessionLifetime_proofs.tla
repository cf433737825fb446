------------------------ MODULE SessionLifetime_proofs ------------------------
(***************************************************************************)
(* For any number of connections and of sessions, none of which is killed  *)
(* while it is created: the counters of SessionLifetime are exact, nobody  *)
(* keeps a pointer to what is deleted, and the limit on the sessions is    *)
(* exceeded by at most one for each connection.                            *)
(*                                                                         *)
(* The invariant is built in three layers, each inductive relative to the  *)
(* one before it: who uses a session, who holds a connection, and what the *)
(* server counts.                                                          *)
(***************************************************************************)
EXTENDS SessionLifetime, FiniteSetTheorems, TLAPS

(* The types; that a counter is not negative follows later, from what it   *)
(* counts.                                                                 *)
Types ==
  /\ at \in [Conns -> Places]
  /\ fLiveSession \in [Conns -> BOOLEAN]
  /\ fObjectHolders \in [Conns -> Int]
  /\ fRTPSession \in [Conns -> Sessions \union {None}]
  /\ stage \in [Sessions -> {"unborn", "open", "closing", "unlisted"}]
  /\ fRTSPSession \in [Sessions -> Conns \union {None}]
  /\ fModule \in [Sessions -> BOOLEAN]
  /\ fIsFirstPlay \in [Sessions -> BOOLEAN]
  /\ fRTPMap \subseteq Sessions
  /\ fRefCount \in [Sessions -> Int]
  /\ clientSessions \subseteq Sessions
  /\ fNumRTPSessions \in Int
  /\ fNumRTPPlayingSessions \in Int
  /\ killed \in [Tasks -> BOOLEAN]
  /\ owed \in [Tasks -> Conns \union {None}]

-----------------------------------------------------------------------------
(* Layer 1: who uses a session                                             *)

CreatingPlaces == {"registering", "listing", "resolving"}
IdlePlaces     == {"reading", "ending", "dead", "deleted"}

(* A connection has a session from the moment it finds or creates it until *)
(* the cleanup, and the session is open and, once registered, in the map.  *)
RequestsOK ==
  \A c \in Conns :
    /\ fRTPSession[c] = None <=> at[c] \in IdlePlaces
    /\ fRTPSession[c] # None =>
         /\ stage[fRTPSession[c]] = "open"
         /\ fRTPSession[c] \in fRTPMap <=> at[c] # "registering"

(* A session that is being created is its creator's alone, fresh, and not  *)
(* told to go.                                                             *)
CreatorsOK ==
  \A c \in Conns : at[c] \in CreatingPlaces =>
    /\ \A d \in Conns : d # c => fRTPSession[d] # fRTPSession[c]
    /\ ~fModule[fRTPSession[c]] /\ fIsFirstPlay[fRTPSession[c]]
    /\ ~killed[fRTPSession[c]]

(* Only a session in the map is told to go, and it is open.                *)
MapOK ==
  \A s \in Sessions :
    /\ s \in fRTPMap => stage[s] = "open"
    /\ killed[s] => s \in fRTPMap

UseInv == Types /\ RequestsOK /\ CreatorsOK /\ MapOK /\ RefsAreExact

(* The connections that count are finitely many, so counting them is       *)
(* counting up and down by one.                                            *)
LEMMA UsersFinite ==
  ASSUME NEW s
  PROVE  IsFiniteSet(Users(s)) /\ Cardinality(Users(s)) \in Nat
<1>1. Users(s) \subseteq Conns
  BY DEF Users
<1>2. QED
  BY <1>1, SessionAssumption, FS_Subset, FS_CardinalityType

(* What Drop does to the types.                                            *)
LEMMA DropTypes ==
  ASSUME Types, NEW x \in Tasks, NEW s \in Sessions, Drop(x, s)
  PROVE  /\ fRTSPSession' \in [Sessions -> Conns \union {None}]
         /\ fObjectHolders' \in [Conns -> Int]
         /\ owed' \in [Tasks -> Conns \union {None}]
<1>1. CASE fRTSPSession[s] = None
  BY <1>1 DEF Drop, Types
<1>2. CASE fRTSPSession[s] # None
  <2>1. fRTSPSession[s] \in Conns
    BY <1>2 DEF Types
  <2>2. /\ fRTSPSession' = [fRTSPSession EXCEPT ![s] = None]
        /\ fObjectHolders' = [fObjectHolders EXCEPT ![fRTSPSession[s]] = @ - 1]
        /\ owed' = [owed EXCEPT ![x] = fRTSPSession[s]] \/ owed' = owed
    BY <1>2 DEF Drop
  <2>3. QED
    BY <2>1, <2>2 DEF Types
<1>3. QED
  BY <1>1, <1>2

(* Most steps leave who uses what alone.                                   *)
LEMMA SameUse ==
  ASSUME UseInv, Types',
         UNCHANGED <<fRTPSession, stage, fRTPMap, fRefCount>>,
         \A c \in Conns :
           /\ at'[c] \in CreatingPlaces <=> at[c] \in CreatingPlaces
           /\ at'[c] \in IdlePlaces <=> at[c] \in IdlePlaces
           /\ at'[c] = "registering" <=> at[c] = "registering",
         \A s \in Sessions :
           /\ Creating(s) => fModule'[s] = fModule[s] /\ fIsFirstPlay'[s] = fIsFirstPlay[s]
           /\ killed'[s] => killed[s] \/ (s \in fRTPMap /\ ~Creating(s))
  PROVE  UseInv'
<1> USE DEF UseInv
<1>1. RequestsOK'
  BY DEF RequestsOK
<1>2. \A c \in Conns : at[c] \in CreatingPlaces =>
        fRTPSession[c] \in Sessions /\ Creating(fRTPSession[c])
  BY DEF RequestsOK, Types, Creating, CreatingPlaces, IdlePlaces
<1>3. CreatorsOK'
  BY <1>2 DEF CreatorsOK
<1>4. MapOK'
  BY DEF MapOK
<1>5. \A s \in Sessions : Users(s)' = Users(s)
  BY DEF Users, CreatingPlaces
<1>6. RefsAreExact'
  BY <1>5 DEF RefsAreExact
<1>7. QED
  BY <1>1, <1>3, <1>4, <1>6

(* The places of a connection that handles a request, and those before it. *)
LEMMA Handled ==
  ASSUME UseInv, NEW c \in Conns, at[c] \notin IdlePlaces
  PROVE  /\ fRTPSession[c] \in Sessions
         /\ stage[fRTPSession[c]] = "open"
         /\ at[c] \notin CreatingPlaces =>
              fRTPSession[c] \in fRTPMap /\ ~Creating(fRTPSession[c])
BY SessionAssumption DEF UseInv, Types, RequestsOK, CreatorsOK, Creating, CreatingPlaces

LEMMA InitUse == Init => UseInv
<1> SUFFICES ASSUME Init PROVE UseInv
  OBVIOUS
<1> USE SessionAssumption DEF Init
<1>1. Types
  BY DEF Types, Places
<1>2. RequestsOK /\ CreatorsOK /\ MapOK
  BY DEF RequestsOK, CreatorsOK, MapOK, IdlePlaces, CreatingPlaces, Tasks
<1>3. \A s \in Sessions : Users(s) = {}
  BY DEF Users
<1>4. RefsAreExact
  BY <1>3, FS_EmptySet DEF RefsAreExact
<1>5. QED
  BY <1>1, <1>2, <1>4 DEF UseInv

(* A request is answered under the mutex of its session.                   *)
LEMMA AnswerUse ==
  ASSUME UseInv, NEW c \in Conns, \E keepAlive \in BOOLEAN : Answer(c, keepAlive)
  PROVE  /\ at[c] = "processing" /\ at' = [at EXCEPT ![c] = "postprocessing"]
         /\ \E keepAlive \in BOOLEAN : fLiveSession' = [fLiveSession EXCEPT ![c] = keepAlive]
         /\ UNCHANGED <<fRTPSession, stage, fRTPMap, fRefCount, clientSessions, fNumRTPSessions>>
         /\ fRTPSession[c] \in fRTPMap /\ ~Creating(fRTPSession[c])
<1>1. at[c] = "processing"
  BY DEF Answer
<1>2. QED
  BY <1>1, Handled DEF Answer, mapVars, IdlePlaces, CreatingPlaces

LEMMA StepUse == ASSUME ~KillsWhileCreating, UseInv, [Next]_vars PROVE UseInv'
<1> USE SessionAssumption DEF UseInv, connVars, sessVars, mapVars, srvVars, holdVars
<1> USE DEF CreatingPlaces, IdlePlaces
<1>1. ASSUME NEW c \in Conns, NEW s \in Sessions, FindRTPSession(c, s)
      PROVE  UseInv'
  <2>1. /\ at[c] = "reading" /\ s \in fRTPMap /\ ~Creating(s)
        /\ fRefCount' = [fRefCount EXCEPT ![s] = @ + 1]
        /\ fRTPSession' = [fRTPSession EXCEPT ![c] = s]
        /\ at' = [at EXCEPT ![c] = "processing"]
        /\ UNCHANGED <<fLiveSession, fRTPMap, sessVars, srvVars, holdVars, killed, owed>>
    BY <1>1 DEF FindRTPSession
  <2>2. Types'
    BY <2>1 DEF Types, Places
  <2>3. RequestsOK' /\ MapOK'
    BY <2>1 DEF Types, RequestsOK, MapOK
  <2>4. CreatorsOK'
    BY <2>1 DEF Types, Creating, CreatorsOK
  <2>5. Users(s)' = Users(s) \union {c} /\ c \notin Users(s)
    BY <2>1 DEF Users, Types, RequestsOK
  <2>6. \A q \in Sessions \ {s} : Users(q)' = Users(q)
    BY <2>1 DEF Users, Types, RequestsOK
  <2>7. RefsAreExact'
    <3>1. Cardinality(Users(s)') = Cardinality(Users(s)) + 1
      BY <2>5, UsersFinite, FS_AddElement
    <3>2. QED
      BY <2>1, <2>6, <3>1 DEF RefsAreExact, Types
  <2>8. QED
    BY <2>2, <2>3, <2>4, <2>7
<1>2. ASSUME NEW c \in Conns, NEW s \in Sessions, CreateNewRTPSession(c, s)
      PROVE  UseInv'
  <2>1. /\ at[c] = "reading" /\ stage[s] = "unborn"
        /\ stage' = [stage EXCEPT ![s] = "open"]
        /\ fModule' = [fModule EXCEPT ![s] = FALSE]
        /\ fIsFirstPlay' = [fIsFirstPlay EXCEPT ![s] = TRUE]
        /\ fRTPSession' = [fRTPSession EXCEPT ![c] = s]
        /\ at' = [at EXCEPT ![c] = "registering"]
        /\ UNCHANGED <<fLiveSession, mapVars, srvVars, holdVars, killed, owed>>
    BY <1>2 DEF CreateNewRTPSession
  <2>2. Types'
    BY <2>1 DEF Types, Places
  <2>3. /\ s \notin fRTPMap /\ ~killed[s]
        /\ \A d \in Conns : fRTPSession[d] # s
    BY <2>1 DEF MapOK, RequestsOK
  <2>4. RequestsOK' /\ MapOK'
    BY <2>1, <2>3 DEF Types, RequestsOK, MapOK
  <2>5. CreatorsOK'
    <3>1. ASSUME NEW d \in Conns, d # c, at[d] \in CreatingPlaces
          PROVE  fRTPSession[d] \in Sessions \ {s}
      BY <2>3, <3>1, Handled
    <3>2. QED
      BY <2>1, <2>3, <3>1 DEF Types, CreatorsOK
  <2>6. \A q \in Sessions : Users(q)' = Users(q)
    BY <2>1, <2>3 DEF Users, Types, RequestsOK
  <2>7. RefsAreExact'
    BY <2>1, <2>6 DEF RefsAreExact
  <2>8. QED
    BY <2>2, <2>4, <2>5, <2>7
<1>3. ASSUME NEW c \in Conns, Register(c)
      PROVE  UseInv'
  <2>1. PICK s \in Sessions : s = fRTPSession[c]
    BY <1>3, Handled DEF Register
  <2>2. /\ at[c] = "registering" /\ fRTPMap' = fRTPMap \union {s}
        /\ at' = [at EXCEPT ![c] = "listing"]
        /\ UNCHANGED <<fLiveSession, fRTPSession, fRefCount, sessVars, srvVars, holdVars, killed, owed>>
    BY <1>3, <2>1 DEF Register
  <2>3. \A d \in Conns : d # c => fRTPSession[d] # s
    BY <2>1, <2>2 DEF CreatorsOK
  <2>4. Types' /\ CreatorsOK' /\ MapOK'
    BY <2>1, <2>2, Handled DEF Types, Places, CreatorsOK, MapOK
  <2>5. RequestsOK'
    BY <2>1, <2>2, <2>3 DEF Types, RequestsOK
  <2>6. \A q \in Sessions : Users(q)' = Users(q)
    BY <2>2 DEF Users, Types
  <2>7. QED
    BY <2>2, <2>4, <2>5, <2>6 DEF RefsAreExact
<1>4. ASSUME NEW c \in Conns, ResolveNew(c)
      PROVE  UseInv'
  <2>1. PICK s \in Sessions : s = fRTPSession[c]
    BY <1>4, Handled DEF ResolveNew
  <2>2. at[c] = "resolving" /\ s \in fRTPMap
    BY <1>4, <2>1 DEF ResolveNew, RequestsOK
  <2>3. /\ fRefCount' = [fRefCount EXCEPT ![s] = @ + 1]
        /\ at' = [at EXCEPT ![c] = "processing"]
        /\ UNCHANGED <<fLiveSession, fRTPSession, fRTPMap, sessVars, srvVars, holdVars, killed, owed>>
    BY <1>4, <2>1, <2>2 DEF ResolveNew
  <2>4. Types' /\ RequestsOK' /\ CreatorsOK' /\ MapOK'
    BY <2>2, <2>3 DEF Types, Places, RequestsOK, CreatorsOK, MapOK
  <2>5. Users(s)' = Users(s) \union {c} /\ c \notin Users(s)
    BY <2>1, <2>2, <2>3 DEF Users, Types
  <2>6. \A q \in Sessions \ {s} : Users(q)' = Users(q)
    BY <2>1, <2>3 DEF Users, Types
  <2>7. RefsAreExact'
    <3>1. Cardinality(Users(s)') = Cardinality(Users(s)) + 1
      BY <2>5, UsersFinite, FS_AddElement
    <3>2. QED
      BY <2>3, <2>6, <3>1 DEF RefsAreExact, Types
  <2>8. QED
    BY <2>4, <2>7
<1>5. ASSUME NEW c \in Conns, CleanupRequest(c)
      PROVE  UseInv'
  <2>1. PICK s \in Sessions : s = fRTPSession[c]
    BY <1>5, Handled DEF CleanupRequest
  <2>2. PICK place \in {"reading", "ending"} : at' = [at EXCEPT ![c] = place]
    BY <1>5 DEF CleanupRequest
  <2>3. /\ at[c] = "cleaning"
        /\ fRefCount' = [fRefCount EXCEPT ![s] = @ - 1]
        /\ fRTPSession' = [fRTPSession EXCEPT ![c] = None]
        /\ UNCHANGED <<fLiveSession, fRTPMap, sessVars, srvVars, holdVars, killed, owed>>
    BY <1>5, <2>1 DEF CleanupRequest
  <2>4. Types' /\ RequestsOK' /\ MapOK'
    BY <2>2, <2>3 DEF Types, Places, RequestsOK, MapOK
  <2>5. CreatorsOK'
    <3>1. ASSUME NEW d \in Conns, at[d] \in CreatingPlaces
          PROVE  fRTPSession[d] \in Sessions
      BY <3>1, Handled
    <3>2. QED
      BY <2>2, <2>3, <3>1 DEF Types, CreatorsOK
  <2>6. Users(s)' = Users(s) \ {c} /\ c \in Users(s)
    BY <2>1, <2>2, <2>3 DEF Users, Types
  <2>7. \A q \in Sessions \ {s} : Users(q)' = Users(q)
    BY <2>1, <2>2, <2>3 DEF Users, Types
  <2>8. RefsAreExact'
    <3>1. Cardinality(Users(s)') = Cardinality(Users(s)) - 1
      BY <2>6, UsersFinite, FS_RemoveElement
    <3>2. QED
      BY <2>3, <2>7, <3>1 DEF RefsAreExact, Types
  <2>9. QED
    BY <2>4, <2>5, <2>8
<1>6. ASSUME NEW s \in Sessions, TryUnRegister(s)
      PROVE  UseInv'
  <2>1. CASE fRefCount[s] # 0
    <3>1. UNCHANGED vars
      BY <1>6, <2>1 DEF TryUnRegister, vars
    <3>2. Types'
      BY <3>1 DEF Types, vars
    <3>3. QED
      BY <3>1, <3>2, SameUse DEF vars
  <2>2. CASE fRefCount[s] = 0
    <3>1. /\ s \in fRTPMap /\ killed[s]
          /\ fRTPMap' = fRTPMap \ {s}
          /\ stage' = [stage EXCEPT ![s] = "closing"]
          /\ killed' = [killed EXCEPT ![s] = FALSE]
          /\ UNCHANGED <<connVars, fModule, fIsFirstPlay, fRefCount, srvVars, holdVars, owed>>
      BY <1>6, <2>2 DEF TryUnRegister
    <3>2. Users(s) = {}
      BY <2>2, UsersFinite, FS_EmptySet DEF RefsAreExact
    <3>3. \A c \in Conns : fRTPSession[c] # s
      BY <3>1, <3>2 DEF Users, CreatorsOK
    <3>4. Types'
      BY <3>1 DEF Types, Tasks
    <3>5. RequestsOK' /\ MapOK'
      BY <3>1, <3>3 DEF Types, RequestsOK, MapOK, Tasks
    <3>6. CreatorsOK'
      BY <3>1 DEF Types, CreatorsOK, Tasks
    <3>7. RefsAreExact'
      BY <3>1 DEF RefsAreExact, Users
    <3>8. QED
      BY <3>4, <3>5, <3>6, <3>7
  <2>3. QED
    BY <2>1, <2>2
<1>7. ASSUME NEW s \in Sessions, Unlist(s) \/ Destroy(s)
      PROVE  UseInv'
  <2>1. PICK next \in {"unlisted", "unborn"} : stage' = [stage EXCEPT ![s] = next]
    BY <1>7 DEF Unlist, Destroy
  <2>2. /\ stage[s] \in {"closing", "unlisted"}
        /\ UNCHANGED <<connVars, fModule, fIsFirstPlay, mapVars, killed>>
    BY <1>7 DEF Unlist, Destroy
  <2>3. Types'
    <3>1. CASE Unlist(s)
      BY <3>1 DEF Unlist, Types
    <3>2. CASE Destroy(s)
      BY <2>1, <2>2, <3>2, DropTypes DEF Destroy, Types, Tasks
    <3>3. QED
      BY <1>7, <3>1, <3>2
  <2>4. RequestsOK' /\ MapOK'
    BY <2>1, <2>2 DEF Types, RequestsOK, MapOK
  <2>5. CreatorsOK' /\ RefsAreExact'
    BY <2>2 DEF CreatorsOK, RefsAreExact, Users
  <2>6. QED
    BY <2>3, <2>4, <2>5
<1>8. ASSUME NEW c \in Conns, ListSession(c)
      PROVE  UseInv'
  <2>1. fRTPSession[c] \in Sessions
    BY <1>8, Handled DEF ListSession
  <2>2. Types'
    BY <1>8, <2>1 DEF ListSession, Types, Places
  <2>3. QED
    BY <1>8, <2>2, SameUse DEF ListSession, Types
<1>9. ASSUME NEW c \in Conns, Setup(c) \/ Play(c) \/ OtherRequest(c)
      PROVE  UseInv'
  <2>1. \E keepAlive \in BOOLEAN : Answer(c, keepAlive)
    BY <1>9 DEF Setup, Play, OtherRequest
  <2>2. /\ UNCHANGED <<holdVars, killed, owed>>
        /\ fModule' \in [Sessions -> BOOLEAN]
        /\ fIsFirstPlay' \in [Sessions -> BOOLEAN]
        /\ fNumRTPPlayingSessions' \in Int
        /\ \A s \in Sessions : Creating(s) =>
             fModule'[s] = fModule[s] /\ fIsFirstPlay'[s] = fIsFirstPlay[s]
    <3>1. fRTPSession[c] \in Sessions /\ ~Creating(fRTPSession[c])
      BY <2>1, AnswerUse DEF Types
    <3>2. CASE Setup(c)
      BY <3>1, <3>2 DEF Setup, Types
    <3>3. CASE Play(c)
      <4>1. PICK s \in Sessions : s = fRTPSession[c] /\ ~Creating(s)
        BY <3>1
      <4>2. /\ fIsFirstPlay' = [fIsFirstPlay EXCEPT ![s] = FALSE]
            /\ fNumRTPPlayingSessions' = fNumRTPPlayingSessions + 1
            /\ UNCHANGED <<fModule, holdVars, killed, owed>>
        BY <3>3, <4>1 DEF Play
      <4>3. \A q \in Sessions : Creating(q) => fIsFirstPlay'[q] = fIsFirstPlay[q]
        BY <4>1, <4>2 DEF Types
      <4>4. /\ fModule' \in [Sessions -> BOOLEAN] /\ fNumRTPPlayingSessions' \in Int
            /\ fIsFirstPlay' \in [Sessions -> BOOLEAN]
        BY <4>2 DEF Types
      <4>5. QED
        BY <4>2, <4>3, <4>4
    <3>4. CASE OtherRequest(c)
      BY <3>4 DEF OtherRequest, Types
    <3>5. QED
      BY <1>9, <3>2, <3>3, <3>4
  <2>3. Types'
    BY <2>1, <2>2, AnswerUse DEF Types, Places
  <2>4. QED
    BY <2>1, <2>2, <2>3, AnswerUse, SameUse DEF Types
<1>10. ASSUME NEW c \in Conns, TeardownRequest(c)
       PROVE  UseInv'
  <2>1. \E keepAlive \in BOOLEAN : Answer(c, keepAlive)
    BY <1>10 DEF TeardownRequest
  <2>2. PICK s \in Sessions : s = fRTPSession[c] /\ s \in fRTPMap /\ ~Creating(s)
    BY <2>1, AnswerUse DEF Types
  <2>3. /\ Drop(c, s) /\ killed' = [killed EXCEPT ![s] = TRUE]
        /\ UNCHANGED <<fModule, fIsFirstPlay, fNumRTPPlayingSessions>>
    BY <1>10, <2>2 DEF TeardownRequest, Kill
  <2>4. Types'
    <3>1. /\ fRTSPSession' \in [Sessions -> Conns \union {None}]
          /\ fObjectHolders' \in [Conns -> Int]
          /\ owed' \in [Tasks -> Conns \union {None}]
      BY <2>3, DropTypes DEF Tasks
    <3>2. /\ at' \in [Conns -> Places]
          /\ fLiveSession' \in [Conns -> BOOLEAN]
          /\ UNCHANGED <<fRTPSession, stage, fRTPMap, fRefCount, clientSessions, fNumRTPSessions>>
      <4>1. PICK keepAlive \in BOOLEAN : fLiveSession' = [fLiveSession EXCEPT ![c] = keepAlive]
        BY <2>1, AnswerUse
      <4>2. /\ at' = [at EXCEPT ![c] = "postprocessing"]
            /\ UNCHANGED <<fRTPSession, stage, fRTPMap, fRefCount, clientSessions, fNumRTPSessions>>
        BY <2>1, AnswerUse
      <4>3. QED
        BY <4>1, <4>2 DEF Types, Places
    <3>3. killed' \in [Tasks -> BOOLEAN]
      BY <2>3 DEF Types
    <3>4. QED
      BY <2>3, <3>1, <3>2, <3>3 DEF Types
  <2>5. QED
    BY <2>1, <2>2, <2>3, <2>4, AnswerUse, SameUse DEF Types, Tasks
<1>11. ASSUME NEW c \in Conns, PostProcess(c)
       PROVE  UseInv'
  <2>1. PICK s \in Sessions : s = fRTPSession[c]
    BY <1>11, Handled DEF PostProcess
  <2>2. PICK place \in {"joining", "cleaning"} : at' = [at EXCEPT ![c] = place]
    BY <1>11 DEF PostProcess
  <2>3. /\ at[c] = "postprocessing"
        /\ Drop(c, s) \/ UNCHANGED <<holdVars, owed>>
        /\ UNCHANGED <<fLiveSession, fRTPSession, sessVars, mapVars, srvVars, killed>>
    BY <1>11, <2>1 DEF PostProcess
  <2>4. Types'
    BY <2>2, <2>3, DropTypes DEF Types, Places, Tasks
  <2>5. QED
    BY <2>2, <2>3, <2>4, SameUse DEF Types
<1>12. ASSUME NEW c \in Conns, Join(c)
       PROVE  UseInv'
  <2>1. PICK s \in Sessions : s = fRTPSession[c]
    BY <1>12, Handled DEF Join
  <2>2. Types'
    BY <1>12, <2>1 DEF Join, Types, Places
  <2>3. QED
    BY <1>12, <2>2, SameUse DEF Join, Types
<1>13. ASSUME NEW c \in Conns, TakeEvents(c) \/ EndRun(c) \/ ClientCloses(c) \/ Accept(c)
       PROVE  UseInv'
  <2>1. PICK place \in Places : at' = [at EXCEPT ![c] = place]
    BY <1>13 DEF TakeEvents, EndRun, ClientCloses, Accept, Places
  <2>2. /\ at[c] \notin CreatingPlaces /\ place \notin CreatingPlaces
        /\ at[c] \in IdlePlaces <=> place \in IdlePlaces
    BY <1>13, <2>1 DEF TakeEvents, EndRun, ClientCloses, Accept, RequestsOK, Types
  <2>3. /\ fLiveSession' \in [Conns -> BOOLEAN]
        /\ killed' = [killed EXCEPT ![c] = FALSE] \/ killed' = killed
        /\ UNCHANGED <<fRTPSession, sessVars, mapVars, srvVars, holdVars, owed>>
    BY <1>13 DEF TakeEvents, EndRun, ClientCloses, Accept, Types
  <2>4. Types'
    BY <2>1, <2>3 DEF Types, Tasks
  <2>5. QED
    BY <2>1, <2>2, <2>3, <2>4, SameUse DEF Types, Tasks
<1>14. ASSUME NEW c \in Conns, TimeoutConnection(c)
       PROVE  UseInv'
  <2>1. Types'
    BY <1>14 DEF TimeoutConnection, Types, Tasks
  <2>2. QED
    BY <1>14, <2>1, SameUse DEF TimeoutConnection, Types, Tasks
<1>15. ASSUME NEW x \in Tasks, SignalOwed(x)
       PROVE  UseInv'
  <2>1. owed[x] \in Conns
    BY <1>15 DEF SignalOwed, Types
  <2>2. Types'
    BY <1>15, <2>1 DEF SignalOwed, Types, Tasks
  <2>3. QED
    BY <1>15, <2>1, <2>2, SameUse DEF SignalOwed, Types, Tasks
<1>16. ASSUME NEW s \in Sessions, TimeoutSession(s)
       PROVE  UseInv'
  <2>1. Types'
    BY <1>16 DEF TimeoutSession, Types, Tasks
  <2>2. QED
    BY <1>16, <2>1, SameUse DEF TimeoutSession, MayBeKilled, Types, Tasks
<1>17. ASSUME KillAllRTPSessions
       PROVE  UseInv'
  <2>1. Types'
    BY <1>17 DEF KillAllRTPSessions, Types, Tasks
  <2>2. QED
    BY <1>17, <2>1, SameUse DEF KillAllRTPSessions, MayBeKilled, Types, Tasks
<1>18. ASSUME NEW s \in Sessions, ModuleTeardown(s)
       PROVE  UseInv'
  <2>1. /\ s \in fRTPMap /\ fModule[s] /\ Drop(s, s)
        /\ killed' = [killed EXCEPT ![s] = TRUE]
        /\ UNCHANGED <<connVars, sessVars, mapVars, srvVars>>
    BY <1>18 DEF ModuleTeardown, Kill
  <2>2. ~Creating(s)
    BY <2>1 DEF Creating, CreatorsOK
  <2>3. Types'
    BY <2>1, DropTypes DEF Types, Tasks
  <2>4. QED
    BY <2>1, <2>2, <2>3, SameUse DEF Types, Tasks
<1>19. CASE UNCHANGED vars
  <2>1. Types'
    BY <1>19 DEF Types, vars
  <2>2. QED
    BY <1>19, <2>1, SameUse DEF vars
<1>20. ASSUME NEW c \in Conns, ConnStep(c)
       PROVE  UseInv'
  BY <1>3, <1>4, <1>5, <1>8, <1>9, <1>10, <1>11, <1>12, <1>13, <1>15, <1>20
  DEF ConnStep, Process, Tasks
<1>21. ASSUME NEW s \in Sessions, SessionStep(s)
       PROVE  UseInv'
  BY <1>6, <1>7, <1>15, <1>21 DEF SessionStep, Tasks
<1>22. QED
  BY <1>1, <1>2, <1>13, <1>14, <1>16, <1>17, <1>18, <1>19, <1>20, <1>21 DEF Next

LEMMA UseInductive == ASSUME ~KillsWhileCreating PROVE Spec => []UseInv
<1>1. Init => UseInv
  BY InitUse
<1>2. UseInv /\ [Next]_vars => UseInv'
  BY StepUse
<1>3. QED
  BY <1>1, <1>2, PTL DEF Spec

-----------------------------------------------------------------------------
(* Layer 2: who holds a connection                                         *)

(* Between the two halves of UpdateRTSPSession the session points nowhere, *)
(* and its mutex keeps every other connection out.                         *)
JoinersOK ==
  \A c \in Conns : at[c] = "joining" =>
    /\ fRTSPSession[fRTPSession[c]] = None
    /\ \A d \in Conns : d # c /\ at[d] = "joining" => fRTPSession[d] # fRTPSession[c]

HoldInv == HoldersAreExact /\ HeldNeverGoesAway /\ JoinersOK

LEMMA HoldersFinite ==
  ASSUME NEW c
  PROVE  IsFiniteSet(Holders(c)) /\ Cardinality(Holders(c)) \in Nat
<1>1. Holders(c) \subseteq Sessions
  BY DEF Holders
<1>2. QED
  BY <1>1, SessionAssumption, FS_Subset, FS_CardinalityType

(* DecrementObjectHolderCount counts off exactly the session that lets go. *)
LEMMA DropHold ==
  ASSUME Types, HoldersAreExact, NEW x, NEW s \in Sessions, Drop(x, s)
  PROVE  HoldersAreExact' /\ fRTSPSession' = [fRTSPSession EXCEPT ![s] = None]
<1> USE SessionAssumption DEF Types
<1>1. fRTSPSession' = [fRTSPSession EXCEPT ![s] = None]
  BY DEF Drop
<1>2. CASE fRTSPSession[s] = None
  <2>1. fObjectHolders' = fObjectHolders
    BY <1>2 DEF Drop
  <2>2. \A c \in Conns : Holders(c)' = Holders(c)
    BY <1>1, <1>2 DEF Holders
  <2>3. QED
    BY <1>1, <2>1, <2>2 DEF HoldersAreExact
<1>3. CASE fRTSPSession[s] # None
  <2>1. PICK c \in Conns : c = fRTSPSession[s]
    BY <1>3
  <2>2. fObjectHolders' = [fObjectHolders EXCEPT ![c] = @ - 1]
    BY <1>3, <2>1 DEF Drop
  <2>3. Holders(c)' = Holders(c) \ {s} /\ s \in Holders(c)
    BY <1>1, <2>1 DEF Holders
  <2>4. \A d \in Conns \ {c} : Holders(d)' = Holders(d)
    BY <1>1, <2>1 DEF Holders
  <2>5. Cardinality(Holders(c)') = Cardinality(Holders(c)) - 1
    BY <2>3, HoldersFinite, FS_RemoveElement
  <2>6. QED
    BY <1>1, <2>2, <2>4, <2>5 DEF HoldersAreExact
<1>4. QED
  BY <1>2, <1>3

(* Most steps leave the pointers alone or only clear them.                 *)
LEMMA SameHold ==
  ASSUME UseInv, HoldInv, HoldersAreExact',
         \A s \in Sessions : fRTSPSession'[s] \in {fRTSPSession[s], None},
         \A c \in Conns :
           /\ at'[c] = "joining" => at[c] = "joining" /\ fRTPSession'[c] = fRTPSession[c]
           /\ at'[c] = "deleted" => at[c] = "deleted"
  PROVE  HoldInv'
<1>1. HeldNeverGoesAway'
  BY DEF UseInv, Types, HoldInv, HeldNeverGoesAway
<1>2. \A c \in Conns : at[c] = "joining" => fRTPSession[c] \in Sessions
  BY Handled DEF IdlePlaces
<1>3. JoinersOK'
  BY <1>2 DEF HoldInv, JoinersOK
<1>4. QED
  BY <1>1, <1>3 DEF HoldInv

LEMMA InitHold == Init => HoldInv
<1> SUFFICES ASSUME Init PROVE HoldInv
  OBVIOUS
<1> USE SessionAssumption DEF Init
<1>1. \A c \in Conns : Holders(c) = {}
  BY DEF Holders
<1>2. HoldersAreExact
  BY <1>1, FS_EmptySet DEF HoldersAreExact
<1>3. QED
  BY <1>2 DEF HoldInv, HeldNeverGoesAway, JoinersOK

LEMMA StepHold == ASSUME UseInv, UseInv', HoldInv, [Next]_vars PROVE HoldInv'
<1> USE SessionAssumption DEF UseInv, HoldInv, connVars, sessVars, mapVars, srvVars, holdVars
<1>1. ASSUME UNCHANGED holdVars,
             \A c \in Conns :
               /\ at'[c] = "joining" => at[c] = "joining" /\ fRTPSession'[c] = fRTPSession[c]
               /\ at'[c] = "deleted" => at[c] = "deleted"
      PROVE  HoldInv'
  <2>1. HoldersAreExact'
    BY <1>1 DEF HoldersAreExact, Holders
  <2>2. QED
    BY <1>1, <2>1, SameHold
<1>2. ASSUME NEW x, NEW s \in Sessions, Drop(x, s),
             \A c \in Conns :
               /\ at'[c] = "joining" => at[c] = "joining" /\ fRTPSession'[c] = fRTPSession[c]
               /\ at'[c] = "deleted" => at[c] = "deleted"
      PROVE  HoldInv'
  <2>1. HoldersAreExact' /\ \A q \in Sessions : fRTSPSession'[q] \in {fRTSPSession[q], None}
    BY <1>2, DropHold DEF Types
  <2>2. QED
    BY <1>2, <2>1, SameHold
<1>3. ASSUME NEW c \in Conns, NEW s \in Sessions,
             FindRTPSession(c, s) \/ CreateNewRTPSession(c, s)
      PROVE  HoldInv'
  BY <1>1, <1>3 DEF FindRTPSession, CreateNewRTPSession, Types
<1>4. ASSUME NEW c \in Conns,
             \/ Register(c) \/ ListSession(c) \/ ResolveNew(c) \/ CleanupRequest(c)
             \/ Setup(c) \/ Play(c) \/ OtherRequest(c)
             \/ TakeEvents(c) \/ ClientCloses(c) \/ TimeoutConnection(c) \/ Accept(c)
      PROVE  HoldInv'
  <2>1. CASE \/ Register(c) \/ ListSession(c) \/ ResolveNew(c) \/ CleanupRequest(c)
    BY <1>1, <2>1 DEF Register, ListSession, ResolveNew, CleanupRequest, Types
  <2>2. CASE Setup(c) \/ Play(c) \/ OtherRequest(c)
    BY <1>1, <2>2, AnswerUse DEF Setup, Play, OtherRequest, Types
  <2>3. CASE TakeEvents(c) \/ ClientCloses(c) \/ TimeoutConnection(c) \/ Accept(c)
    BY <1>1, <2>3 DEF TakeEvents, ClientCloses, TimeoutConnection, Accept, Types
  <2>4. QED
    BY <1>4, <2>1, <2>2, <2>3
<1>5. ASSUME NEW c \in Conns, TeardownRequest(c)
      PROVE  HoldInv'
  <2>1. \E keepAlive \in BOOLEAN : Answer(c, keepAlive)
    BY <1>5 DEF TeardownRequest
  <2>2. PICK s \in Sessions : s = fRTPSession[c] /\ Drop(c, s)
    BY <1>5, <2>1, AnswerUse DEF TeardownRequest, Types
  <2>3. QED
    BY <1>2, <2>1, <2>2, AnswerUse DEF Types
<1>6. ASSUME NEW c \in Conns, PostProcess(c)
      PROVE  HoldInv'
  <2>1. PICK s \in Sessions : s = fRTPSession[c]
    BY <1>6, Handled DEF PostProcess, IdlePlaces
  <2>2. at[c] = "postprocessing" /\ UNCHANGED <<fLiveSession, fRTPSession, sessVars>>
    BY <1>6 DEF PostProcess
  <2>3. CASE fLiveSession[c] /\ fRTSPSession[s] # c
    <3>1. at' = [at EXCEPT ![c] = "joining"] /\ Drop(c, s)
      BY <1>6, <2>1, <2>3 DEF PostProcess
    <3>2. HoldersAreExact' /\ fRTSPSession' = [fRTSPSession EXCEPT ![s] = None]
      BY <3>1, DropHold
    <3>3. HeldNeverGoesAway'
      BY <3>1, <3>2 DEF HeldNeverGoesAway, Types
    <3>4. \A d \in Conns : at[d] = "joining" => fRTPSession[d] # s
      BY <1>6, <2>1 DEF PostProcess, SessionBusy
    <3>5. JoinersOK'
      BY <2>1, <2>2, <3>1, <3>2, <3>4 DEF JoinersOK, Types
    <3>6. QED
      BY <3>2, <3>3, <3>5
  <2>4. CASE ~(fLiveSession[c] /\ fRTSPSession[s] # c)
    <3>1. at' = [at EXCEPT ![c] = "cleaning"] /\ UNCHANGED holdVars
      BY <1>6, <2>1, <2>4 DEF PostProcess
    <3>2. QED
      BY <1>1, <2>2, <3>1 DEF Types
  <2>5. QED
    BY <2>3, <2>4
<1>7. ASSUME NEW c \in Conns, Join(c)
      PROVE  HoldInv'
  <2>1. PICK s \in Sessions : s = fRTPSession[c]
    BY <1>7, Handled DEF Join, IdlePlaces
  <2>2. /\ at[c] = "joining" /\ at' = [at EXCEPT ![c] = "cleaning"]
        /\ fRTSPSession' = [fRTSPSession EXCEPT ![s] = c]
        /\ fObjectHolders' = [fObjectHolders EXCEPT ![c] = @ + 1]
        /\ fRTPSession' = fRTPSession
    BY <1>7, <2>1 DEF Join
  <2>3. fRTSPSession[s] = None /\ \A d \in Conns : d # c /\ at[d] = "joining" => fRTPSession[d] # s
    BY <2>1, <2>2 DEF JoinersOK
  <2>4. Holders(c)' = Holders(c) \union {s} /\ s \notin Holders(c)
    BY <2>2, <2>3 DEF Holders, Types
  <2>5. \A d \in Conns \ {c} : Holders(d)' = Holders(d)
    BY <2>2, <2>3 DEF Holders, Types
  <2>6. Cardinality(Holders(c)') = Cardinality(Holders(c)) + 1
    BY <2>4, HoldersFinite, FS_AddElement
  <2>7. HoldersAreExact'
    BY <2>2, <2>5, <2>6 DEF HoldersAreExact, Types
  <2>8. HeldNeverGoesAway'
    BY <2>2 DEF HeldNeverGoesAway, Types
  <2>9. JoinersOK'
    BY <2>2, <2>3 DEF JoinersOK, Types
  <2>10. QED
    BY <2>7, <2>8, <2>9
<1>8. ASSUME NEW c \in Conns, EndRun(c)
      PROVE  HoldInv'
  <2>1. at[c] = "ending" /\ UNCHANGED <<fRTPSession, holdVars>>
    BY <1>8 DEF EndRun
  <2>2. CASE fObjectHolders[c] = 0
    <3>1. at' = [at EXCEPT ![c] = "deleted"]
      BY <1>8, <2>2 DEF EndRun
    <3>2. Holders(c) = {}
      BY <2>2, HoldersFinite, FS_EmptySet DEF HoldersAreExact
    <3>3. HeldNeverGoesAway'
      BY <2>1, <3>1, <3>2 DEF HeldNeverGoesAway, Holders, Types
    <3>4. HoldersAreExact' /\ JoinersOK'
      BY <2>1, <3>1 DEF HoldersAreExact, Holders, JoinersOK, Types
    <3>5. QED
      BY <3>3, <3>4
  <2>3. CASE fObjectHolders[c] # 0
    <3>1. at' = [at EXCEPT ![c] = "dead"]
      BY <1>8, <2>3 DEF EndRun
    <3>2. QED
      BY <1>1, <2>1, <3>1 DEF Types
  <2>4. QED
    BY <2>2, <2>3
<1>9. ASSUME NEW s \in Sessions, TryUnRegister(s) \/ Unlist(s) \/ TimeoutSession(s)
      PROVE  HoldInv'
  BY <1>1, <1>9 DEF TryUnRegister, Unlist, TimeoutSession
<1>10. ASSUME NEW s \in Sessions, Destroy(s) \/ ModuleTeardown(s)
       PROVE  HoldInv'
  BY <1>2, <1>10 DEF Destroy, ModuleTeardown
<1>11. ASSUME NEW x, SignalOwed(x)
       PROVE  HoldInv'
  BY <1>1, <1>11 DEF SignalOwed
<1>12. CASE KillAllRTPSessions
  BY <1>1, <1>12 DEF KillAllRTPSessions
<1>13. CASE UNCHANGED vars
  BY <1>1, <1>13 DEF vars
<1>14. ASSUME NEW c \in Conns, ConnStep(c)
       PROVE  HoldInv'
  BY <1>4, <1>5, <1>6, <1>7, <1>8, <1>11, <1>14 DEF ConnStep, Process
<1>15. ASSUME NEW s \in Sessions, SessionStep(s)
       PROVE  HoldInv'
  BY <1>9, <1>10, <1>11, <1>15 DEF SessionStep
<1>16. QED
  BY <1>3, <1>4, <1>9, <1>10, <1>12, <1>13, <1>14, <1>15 DEF Next

LEMMA HoldInductive == ASSUME ~KillsWhileCreating PROVE Spec => []HoldInv
<1>1. Init => HoldInv
  BY InitHold
<1>2. UseInv /\ UseInv' /\ HoldInv /\ [Next]_vars => HoldInv'
  BY StepHold
<1>3. QED
  BY <1>1, <1>2, UseInductive, PTL DEF Spec

-----------------------------------------------------------------------------
(* Layer 3: what the server counts                                         *)

(* The connections that have passed the test of the limit and have not yet *)
(* counted their session.                                                  *)
Entering == {c \in Conns : at[c] \in {"registering", "listing"}}

(* The list holds the sessions that are counted and not yet taken off.     *)
ListOK ==
  \A s \in Sessions :
    s \in clientSessions <=>
      (stage[s] \in {"open", "closing"} /\ \A c \in Entering : fRTPSession[c] # s)

LimitOK == fNumRTPSessions + Cardinality(Entering) <= MaxConnections + Cardinality(Conns)

CountInv ==
  /\ ListOK /\ LimitOK
  /\ fNumRTPSessions = Cardinality(clientSessions)
  /\ PlayingNotUndercounted

LEMMA CountedFinite ==
  ASSUME Types
  PROVE  /\ IsFiniteSet(clientSessions) /\ Cardinality(clientSessions) \in Nat
         /\ IsFiniteSet(Played) /\ Cardinality(Played) \in Nat
         /\ IsFiniteSet(Entering) /\ Cardinality(Entering) \in Nat
         /\ Cardinality(Entering) <= Cardinality(Conns) /\ Cardinality(Conns) \in Nat
<1>1. clientSessions \subseteq Sessions /\ Played \subseteq Sessions /\ Entering \subseteq Conns
  BY DEF Types, Played, Entering
<1>2. QED
  BY <1>1, SessionAssumption, FS_Subset, FS_CardinalityType

(* Most steps count nothing.                                               *)
LEMMA SameCount ==
  ASSUME UseInv, CountInv,
         UNCHANGED <<stage, clientSessions, fNumRTPSessions, fNumRTPPlayingSessions, fIsFirstPlay>>,
         \A c \in Conns :
           /\ at'[c] \in {"registering", "listing"} <=> at[c] \in {"registering", "listing"}
           /\ at[c] \in {"registering", "listing"} => fRTPSession'[c] = fRTPSession[c]
  PROVE  CountInv'
<1>1. Entering' = Entering
  BY DEF Entering
<1>2. ListOK'
  BY <1>1 DEF CountInv, ListOK, Entering
<1>3. LimitOK'
  BY <1>1 DEF CountInv, LimitOK
<1>4. Played' = Played
  BY DEF Played
<1>5. QED
  BY <1>2, <1>3, <1>4 DEF CountInv, PlayingNotUndercounted

LEMMA InitCount == Init => CountInv
<1> SUFFICES ASSUME Init PROVE CountInv
  OBVIOUS
<1> USE SessionAssumption DEF Init
<1>1. Entering = {} /\ Played = {} /\ clientSessions = {}
  BY DEF Entering, Played
<1>2. Cardinality({}) = 0 /\ Cardinality(Conns) \in Nat
  BY FS_EmptySet, FS_CardinalityType
<1>3. ListOK
  BY DEF ListOK
<1>4. LimitOK /\ PlayingNotUndercounted /\ fNumRTPSessions = Cardinality(clientSessions)
  BY <1>1, <1>2 DEF LimitOK, PlayingNotUndercounted
<1>5. QED
  BY <1>3, <1>4 DEF CountInv

LEMMA StepCount == ASSUME UseInv, UseInv', CountInv, [Next]_vars PROVE CountInv'
<1> USE SessionAssumption DEF UseInv, CountInv, connVars, sessVars, mapVars, srvVars, holdVars
<1>1. ASSUME NEW c \in Conns, NEW s \in Sessions, FindRTPSession(c, s)
      PROVE  CountInv'
  BY <1>1, SameCount DEF FindRTPSession, Types
<1>2. ASSUME NEW c \in Conns, NEW s \in Sessions, CreateNewRTPSession(c, s)
      PROVE  CountInv'
  <2>1. /\ at[c] = "reading" /\ stage[s] = "unborn" /\ fNumRTPSessions <= MaxConnections
        /\ stage' = [stage EXCEPT ![s] = "open"]
        /\ fIsFirstPlay' = [fIsFirstPlay EXCEPT ![s] = TRUE]
        /\ fRTPSession' = [fRTPSession EXCEPT ![c] = s]
        /\ at' = [at EXCEPT ![c] = "registering"]
        /\ UNCHANGED srvVars
    BY <1>2 DEF CreateNewRTPSession, OverMaxConnections, Types
  <2>2. s \notin clientSessions
    BY <2>1 DEF ListOK
  <2>3. Entering' = Entering \union {c} /\ c \notin Entering
    BY <2>1 DEF Entering, Types
  <2>4. ListOK'
    BY <2>1, <2>2, <2>3 DEF ListOK, Types, Entering
  <2>5. LimitOK'
    <3>1. Entering' \subseteq Conns
      BY <2>3 DEF Entering
    <3>2. /\ Cardinality(Entering') <= Cardinality(Conns)
          /\ Cardinality(Entering') \in Nat /\ Cardinality(Conns) \in Nat
      BY <3>1, FS_Subset, FS_CardinalityType
    <3>3. QED
      BY <2>1, <3>2 DEF LimitOK, Types
  <2>6. Played' = Played
    BY <2>1, <2>2 DEF Played, Types
  <2>7. QED
    BY <2>1, <2>4, <2>5, <2>6 DEF PlayingNotUndercounted
<1>3. ASSUME NEW c \in Conns, ListSession(c)
      PROVE  CountInv'
  <2>1. PICK s \in Sessions : s = fRTPSession[c]
    BY <1>3, Handled DEF ListSession, IdlePlaces
  <2>2. /\ at[c] = "listing" /\ at' = [at EXCEPT ![c] = "resolving"]
        /\ clientSessions' = clientSessions \union {s}
        /\ fNumRTPSessions' = fNumRTPSessions + 1
        /\ UNCHANGED <<fRTPSession, fNumRTPPlayingSessions, sessVars>>
    BY <1>3, <2>1 DEF ListSession
  <2>3. Entering' = Entering \ {c} /\ c \in Entering
    BY <2>2 DEF Entering, Types
  <2>4. /\ s \notin clientSessions /\ stage[s] = "open" /\ fIsFirstPlay[s]
        /\ \A d \in Conns : d # c => fRTPSession[d] # s
    BY <2>1, <2>2, <2>3, Handled DEF ListOK, CreatorsOK, CreatingPlaces, IdlePlaces
  <2>5. ListOK'
    BY <2>1, <2>2, <2>3, <2>4 DEF ListOK, Entering
  <2>6. Cardinality(clientSessions') = Cardinality(clientSessions) + 1
    BY <2>2, <2>4, CountedFinite, FS_AddElement
  <2>7. Cardinality(Entering') = Cardinality(Entering) - 1
    BY <2>3, CountedFinite, FS_RemoveElement
  <2>8. LimitOK'
    BY <2>2, <2>7, CountedFinite DEF LimitOK, Types
  <2>9. Played' = Played
    BY <2>2, <2>4 DEF Played
  <2>10. QED
    BY <2>2, <2>5, <2>6, <2>8, <2>9 DEF PlayingNotUndercounted
<1>4. ASSUME NEW c \in Conns, Register(c) \/ ResolveNew(c) \/ CleanupRequest(c)
      PROVE  CountInv'
  BY <1>4, SameCount DEF Register, ResolveNew, CleanupRequest, Types
<1>5. ASSUME NEW c \in Conns, Setup(c) \/ OtherRequest(c) \/ TeardownRequest(c)
      PROVE  CountInv'
  <2>1. \E keepAlive \in BOOLEAN : Answer(c, keepAlive)
    BY <1>5 DEF Setup, OtherRequest, TeardownRequest
  <2>2. UNCHANGED <<fIsFirstPlay, fNumRTPPlayingSessions>>
    BY <1>5 DEF Setup, OtherRequest, TeardownRequest
  <2>3. QED
    BY <2>1, <2>2, AnswerUse, SameCount DEF Types
<1>6. ASSUME NEW c \in Conns, Play(c)
      PROVE  CountInv'
  <2>1. \E keepAlive \in BOOLEAN : Answer(c, keepAlive)
    BY <1>6 DEF Play
  <2>2. PICK s \in Sessions : s = fRTPSession[c]
    BY <2>1, AnswerUse DEF Types
  <2>3. /\ fIsFirstPlay' = [fIsFirstPlay EXCEPT ![s] = FALSE]
        /\ fNumRTPPlayingSessions' = fNumRTPPlayingSessions + 1
    BY <1>6, <2>2 DEF Play
  <2>4. /\ at[c] = "processing" /\ at' = [at EXCEPT ![c] = "postprocessing"]
        /\ UNCHANGED <<fRTPSession, stage, clientSessions, fNumRTPSessions>>
    BY <2>1, AnswerUse
  <2>5. Entering' = Entering
    BY <2>4 DEF Entering, Types
  <2>6. ListOK' /\ LimitOK'
    BY <2>4, <2>5 DEF ListOK, LimitOK
  <2>7. Played' = Played \/ (Played' = Played \union {s} /\ s \notin Played)
    <3>1. Played' = {q \in clientSessions : q = s \/ ~fIsFirstPlay[q]}
      BY <2>3, <2>4 DEF Played, Types
    <3>2. CASE s \in clientSessions /\ fIsFirstPlay[s]
      BY <3>1, <3>2 DEF Played
    <3>3. CASE ~(s \in clientSessions /\ fIsFirstPlay[s])
      BY <3>1, <3>3 DEF Played
    <3>4. QED
      BY <3>2, <3>3
  <2>8. Cardinality(Played') <= Cardinality(Played) + 1
    <3>1. IsFiniteSet(Played) /\ Cardinality(Played) \in Nat
      BY CountedFinite
    <3>2. CASE Played' = Played
      BY <3>1, <3>2
    <3>3. CASE Played' = Played \union {s} /\ s \notin Played
      <4>1. Cardinality(Played') = Cardinality(Played) + 1
        BY <3>1, <3>3, FS_AddElement
      <4>2. QED
        BY <3>1, <4>1
    <3>4. QED
      BY <2>7, <3>2, <3>3
  <2>9. PlayingNotUndercounted'
    <3>1. Cardinality(Played') \in Nat /\ Cardinality(Played) \in Nat
      BY <2>7, CountedFinite, FS_AddElement, FS_CardinalityType
    <3>2. QED
      BY <2>3, <2>8, <3>1 DEF PlayingNotUndercounted, Types
  <2>10. QED
    BY <2>4, <2>6, <2>9
<1>7. ASSUME NEW c \in Conns,
             \/ PostProcess(c) \/ Join(c) \/ TakeEvents(c) \/ EndRun(c)
             \/ Accept(c) \/ TimeoutConnection(c) \/ ClientCloses(c)
      PROVE  CountInv'
  <2>1. CASE PostProcess(c) \/ Join(c)
    BY <2>1, SameCount DEF PostProcess, Join, Types
  <2>2. CASE TakeEvents(c) \/ EndRun(c)
    BY <2>2, SameCount DEF TakeEvents, EndRun, Types
  <2>3. CASE Accept(c) \/ TimeoutConnection(c) \/ ClientCloses(c)
    BY <2>3, SameCount DEF Accept, TimeoutConnection, ClientCloses, Types
  <2>4. QED
    BY <1>7, <2>1, <2>2, <2>3
<1>8. ASSUME NEW s \in Sessions, TryUnRegister(s)
      PROVE  CountInv'
  <2>1. CASE fRefCount[s] # 0
    BY <1>8, <2>1, SameCount DEF TryUnRegister
  <2>2. CASE fRefCount[s] = 0
    <3>1. /\ s \in fRTPMap /\ stage' = [stage EXCEPT ![s] = "closing"]
          /\ UNCHANGED <<connVars, fIsFirstPlay, srvVars>>
      BY <1>8, <2>2 DEF TryUnRegister
    <3>2. stage[s] = "open"
      BY <3>1 DEF MapOK
    <3>3. ListOK'
      BY <3>1, <3>2 DEF ListOK, Entering, Types
    <3>4. QED
      BY <3>1, <3>3 DEF LimitOK, Entering, PlayingNotUndercounted, Played
  <2>3. QED
    BY <2>1, <2>2
<1>9. ASSUME NEW s \in Sessions, Unlist(s)
      PROVE  CountInv'
  <2>1. /\ stage[s] = "closing" /\ stage' = [stage EXCEPT ![s] = "unlisted"]
        /\ clientSessions' = clientSessions \ {s}
        /\ fNumRTPSessions' = fNumRTPSessions - 1
        /\ fNumRTPPlayingSessions' = fNumRTPPlayingSessions - (IF fIsFirstPlay[s] THEN 0 ELSE 1)
        /\ UNCHANGED <<connVars, fIsFirstPlay>>
    BY <1>9 DEF Unlist
  <2>2. \A c \in Conns : fRTPSession[c] # s
    BY <2>1 DEF RequestsOK
  <2>3. s \in clientSessions
    BY <2>1, <2>2 DEF ListOK, Entering
  <2>4. ListOK'
    BY <2>1 DEF ListOK, Entering, Types
  <2>5. Cardinality(clientSessions') = Cardinality(clientSessions) - 1
    BY <2>1, <2>3, CountedFinite, FS_RemoveElement
  <2>6. LimitOK'
    <3>1. Entering' = Entering
      BY <2>1 DEF Entering
    <3>2. QED
      BY <2>1, <3>1, CountedFinite DEF LimitOK, Types
  <2>7. PlayingNotUndercounted'
    <3>1. CASE fIsFirstPlay[s]
      <4>1. Played' = Played
        BY <2>1, <3>1 DEF Played
      <4>2. QED
        BY <2>1, <3>1, <4>1 DEF PlayingNotUndercounted, Types
    <3>2. CASE ~fIsFirstPlay[s]
      <4>1. Played' = Played \ {s} /\ s \in Played
        BY <2>1, <2>3, <3>2 DEF Played, Types
      <4>2. Cardinality(Played') = Cardinality(Played) - 1
        BY <4>1, CountedFinite, FS_RemoveElement
      <4>3. QED
        BY <2>1, <3>2, <4>2, CountedFinite DEF PlayingNotUndercounted, Types
    <3>3. QED
      BY <3>1, <3>2
  <2>8. QED
    BY <2>1, <2>4, <2>5, <2>6, <2>7
<1>10. ASSUME NEW s \in Sessions, Destroy(s)
       PROVE  CountInv'
  <2>1. /\ stage[s] = "unlisted" /\ stage' = [stage EXCEPT ![s] = "unborn"]
        /\ UNCHANGED <<connVars, fIsFirstPlay, srvVars>>
    BY <1>10 DEF Destroy
  <2>2. ListOK'
    BY <2>1 DEF ListOK, Entering, Types
  <2>3. QED
    BY <2>1, <2>2 DEF LimitOK, Entering, PlayingNotUndercounted, Played
<1>11. ASSUME NEW s \in Sessions, TimeoutSession(s) \/ ModuleTeardown(s)
       PROVE  CountInv'
  BY <1>11, SameCount DEF TimeoutSession, ModuleTeardown
<1>12. ASSUME NEW x, SignalOwed(x)
       PROVE  CountInv'
  BY <1>12, SameCount DEF SignalOwed
<1>13. CASE KillAllRTPSessions
  BY <1>13, SameCount DEF KillAllRTPSessions
<1>14. CASE UNCHANGED vars
  BY <1>14, SameCount DEF vars
<1>15. ASSUME NEW c \in Conns, ConnStep(c)
       PROVE  CountInv'
  BY <1>3, <1>4, <1>5, <1>6, <1>7, <1>12, <1>15 DEF ConnStep, Process
<1>16. ASSUME NEW s \in Sessions, SessionStep(s)
       PROVE  CountInv'
  BY <1>8, <1>9, <1>10, <1>12, <1>16 DEF SessionStep
<1>17. QED
  BY <1>1, <1>2, <1>7, <1>11, <1>13, <1>14, <1>15, <1>16 DEF Next

LEMMA CountInductive == ASSUME ~KillsWhileCreating PROVE Spec => []CountInv
<1>1. Init => CountInv
  BY InitCount
<1>2. UseInv /\ UseInv' /\ CountInv /\ [Next]_vars => CountInv'
  BY StepCount
<1>3. QED
  BY <1>1, <1>2, UseInductive, PTL DEF Spec

-----------------------------------------------------------------------------
(* Every variable keeps its type; in particular no counter goes below      *)
(* zero, whoever decrements it and in whichever order.                     *)
THEOREM TypeCorrect == ASSUME ~KillsWhileCreating PROVE Spec => []TypeOK
<1>1. UseInv /\ HoldInv /\ CountInv => TypeOK
  <2> SUFFICES ASSUME UseInv, HoldInv, CountInv PROVE TypeOK
    OBVIOUS
  <2>1. Types
    BY DEF UseInv
  <2>2. fObjectHolders \in [Conns -> Nat]
    BY <2>1, HoldersFinite DEF Types, HoldInv, HoldersAreExact
  <2>3. fRefCount \in [Sessions -> Nat]
    BY <2>1, UsersFinite DEF Types, UseInv, RefsAreExact
  <2>4. fNumRTPSessions \in Nat /\ fNumRTPPlayingSessions \in Nat
    BY <2>1, CountedFinite DEF Types, CountInv, PlayingNotUndercounted
  <2>5. QED
    BY <2>1, <2>2, <2>3, <2>4 DEF Types, TypeOK
<1>2. QED
  BY <1>1, UseInductive, HoldInductive, CountInductive, PTL

(* A session is not deleted, nor on its way, while a request uses it.      *)
THEOREM RequestsKeepTheirSessionHolds ==
  ASSUME ~KillsWhileCreating PROVE Spec => []RequestsKeepTheirSession
<1>1. UseInv => RequestsKeepTheirSession
  BY DEF UseInv, RequestsOK, RequestsKeepTheirSession
<1>2. QED
  BY <1>1, UseInductive, PTL

(* The reference counter of a session is the number of requests that use   *)
(* it, on every path on which a request may end.                           *)
THEOREM RefsHold == ASSUME ~KillsWhileCreating PROVE Spec => []RefsAreExact
<1>1. UseInv => RefsAreExact
  BY DEF UseInv
<1>2. QED
  BY <1>1, UseInductive, PTL

(* fObjectHolders is the number of sessions that point at the connection,  *)
(* through moves, teardowns and deletions.                                 *)
THEOREM HoldersHold == ASSUME ~KillsWhileCreating PROVE Spec => []HoldersAreExact
<1>1. HoldInv => HoldersAreExact
  BY DEF HoldInv
<1>2. QED
  BY <1>1, HoldInductive, PTL

(* No session points at a deleted connection.                              *)
THEOREM HeldNeverGoesAwayHolds ==
  ASSUME ~KillsWhileCreating PROVE Spec => []HeldNeverGoesAway
<1>1. HoldInv => HeldNeverGoesAway
  BY DEF HoldInv
<1>2. QED
  BY <1>1, HoldInductive, PTL

(* A session that closes is in the server's list, and the count of         *)
(* sessions is the length of that list.                                    *)
THEOREM ClosingIsListedHolds == ASSUME ~KillsWhileCreating PROVE Spec => []ClosingIsListed
<1>1. UseInv /\ CountInv => ClosingIsListed
  <2> SUFFICES ASSUME UseInv, CountInv PROVE ClosingIsListed
    OBVIOUS
  <2>1. ASSUME NEW s \in Sessions, stage[s] = "closing"
        PROVE  s \in clientSessions
    <3>1. \A c \in Entering : fRTPSession[c] # s
      <4>1. ASSUME NEW c \in Entering PROVE stage[fRTPSession[c]] = "open"
        BY Handled DEF Entering, IdlePlaces
      <4>2. QED
        BY <2>1, <4>1
    <3>2. QED
      BY <2>1, <3>1 DEF CountInv, ListOK
  <2>2. QED
    BY <2>1 DEF ClosingIsListed, CountInv
<1>2. QED
  BY <1>1, UseInductive, CountInductive, PTL

(* The count of playing sessions never falls below the number of sessions  *)
(* that have played, so a close cannot wrap it.                            *)
THEOREM PlayingHolds == ASSUME ~KillsWhileCreating PROVE Spec => []PlayingNotUndercounted
<1>1. CountInv => PlayingNotUndercounted
  BY DEF CountInv
<1>2. QED
  BY <1>1, CountInductive, PTL

(* The limit is exceeded by no more than one session for each connection.  *)
THEOREM NearlyMaxHolds == ASSUME ~KillsWhileCreating PROVE Spec => []NearlyMaxConnections
<1>1. UseInv /\ CountInv => NearlyMaxConnections
  BY CountedFinite, SessionAssumption DEF UseInv, Types, CountInv, LimitOK, NearlyMaxConnections
<1>2. QED
  BY <1>1, UseInductive, CountInductive, PTL
=============================================================================
