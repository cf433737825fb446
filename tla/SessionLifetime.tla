---------------------------- MODULE SessionLifetime ----------------------------
(***************************************************************************)
(* How long an RTSP connection (RTSPSession) and an RTP session            *)
(* (RTPSession) live, Server.tproj/RTSPSession.cpp and RTPSession.cpp.     *)
(* They are tasks of different threads and point at each other:            *)
(*   - a request finds its RTP session in the server's RTP map and keeps   *)
(*     it there by the reference count (OSRefTable) until it is done;      *)
(*   - an RTP session points at the connection of its last request, which  *)
(*     counts such pointers in fObjectHolders and is not deleted before    *)
(*     there are none;                                                     *)
(*   - timeouts, KillAllRTPSessions, QTSS_Teardown and a client that       *)
(*     closes may ask either of them to go, at any time.                   *)
(*                                                                         *)
(* What is done under the mutex of an RTP session is one step, except that *)
(* DecrementObjectHolderCount is two: the counter, then the signal.  A     *)
(* request without an RTP session (OPTIONS, or one that is refused) leaves *)
(* all of this alone and is not modelled.                                  *)
(*                                                                         *)
(* A definition named <operation>_<slip> is that operation with a slip,    *)
(* kept to show that a property would notice it.                           *)
(***************************************************************************)
EXTENDS Integers, FiniteSets

CONSTANTS
  Conns,              (* RTSPSession objects                               *)
  Sessions,           (* RTPSession objects                                *)
  None,
  MaxConnections,     (* the preference maximum_connections                *)
  MaxPlays,           (* bound on fNumRTPPlayingSessions                   *)
  KillsWhileCreating  (* may a session time out or be killed between the   *)
                      (* Register and the Resolve of CreateNewRTPSession?  *)

ASSUME SessionAssumption ==
  /\ IsFiniteSet(Conns) /\ IsFiniteSet(Sessions)
  /\ Conns \intersect Sessions = {}
  /\ None \notin Conns \union Sessions
  /\ MaxConnections \in Nat /\ MaxPlays \in Nat
  /\ KillsWhileCreating \in BOOLEAN

VARIABLES
  at,                 (* per connection: where its Run is                  *)
  fLiveSession,       (* per connection                                    *)
  fObjectHolders,     (* per connection                                    *)
  fRTPSession,        (* per connection: the session of its request        *)
  stage,              (* per session: unborn, open, or how far it is gone  *)
  fRTSPSession,       (* per session: the connection it points at          *)
  fModule,            (* per session: has a stream been set up?            *)
  fIsFirstPlay,       (* per session                                       *)
  fRTPMap,            (* the sessions in the server's RTP map              *)
  fRefCount,          (* per session: its counter in that map              *)
  clientSessions,     (* the attribute qtssSvrClientSessions               *)
  fNumRTPSessions, fNumRTPPlayingSessions,
  killed,             (* per task: has it a kill or timeout event that its *)
                      (* Run has not taken yet?                            *)
  owed                (* per task: the connection whose last holder it     *)
                      (* has just counted off and will signal, or None     *)

connVars == <<at, fLiveSession, fRTPSession>>
sessVars == <<stage, fModule, fIsFirstPlay>>
mapVars  == <<fRTPMap, fRefCount>>
srvVars  == <<clientSessions, fNumRTPSessions, fNumRTPPlayingSessions>>
holdVars == <<fObjectHolders, fRTSPSession>>
vars == <<connVars, sessVars, mapVars, srvVars, holdVars, killed, owed>>

Tasks == Conns \union Sessions

Places == {"reading", "registering", "listing", "resolving", "processing",
           "postprocessing", "joining", "cleaning", "ending", "dead", "deleted"}

(* Between the constructor and the end of CreateNewRTPSession.             *)
Creating(s) ==
  \E c \in Conns : fRTPSession[c] = s /\ at[c] \in {"registering", "listing", "resolving"}

(* The connections that count in fRefCount of the session.                 *)
Users(s) ==
  {c \in Conns : fRTPSession[c] = s /\ at[c] \notin {"registering", "listing", "resolving"}}

Holders(c) == {s \in Sessions : fRTSPSession[s] = c}

TypeOK ==
  /\ at \in [Conns -> Places]
  /\ fLiveSession \in [Conns -> BOOLEAN]
  /\ fObjectHolders \in [Conns -> Nat]
  /\ fRTPSession \in [Conns -> Sessions \union {None}]
  /\ stage \in [Sessions -> {"unborn", "open", "closing", "unlisted"}]
  /\ fRTSPSession \in [Sessions -> Conns \union {None}]
  /\ fModule \in [Sessions -> BOOLEAN]
  /\ fIsFirstPlay \in [Sessions -> BOOLEAN]
  /\ fRTPMap \subseteq Sessions
  /\ fRefCount \in [Sessions -> Nat]
  /\ clientSessions \subseteq Sessions
  /\ fNumRTPSessions \in Nat
  /\ fNumRTPPlayingSessions \in Nat
  /\ killed \in [Tasks -> BOOLEAN]
  /\ owed \in [Tasks -> Conns \union {None}]

Init ==
  /\ at = [c \in Conns |-> "deleted"]
  /\ fLiveSession = [c \in Conns |-> FALSE]
  /\ fObjectHolders = [c \in Conns |-> 0]
  /\ fRTPSession = [c \in Conns |-> None]
  /\ stage = [s \in Sessions |-> "unborn"]
  /\ fRTSPSession = [s \in Sessions |-> None]
  /\ fModule = [s \in Sessions |-> FALSE]
  /\ fIsFirstPlay = [s \in Sessions |-> TRUE]
  /\ fRTPMap = {}
  /\ fRefCount = [s \in Sessions |-> 0]
  /\ clientSessions = {}
  /\ fNumRTPSessions = 0 /\ fNumRTPPlayingSessions = 0
  /\ killed = [x \in Tasks |-> FALSE]
  /\ owed = [x \in Tasks |-> None]

-----------------------------------------------------------------------------
(* The counter of object holders                                           *)

Drop_OldValue(x, s) ==
  LET c == fRTSPSession[s]
  IN  /\ fRTSPSession' = [fRTSPSession EXCEPT ![s] = None]
      /\ IF c = None THEN UNCHANGED <<fObjectHolders, owed>>
         ELSE /\ fObjectHolders' = [fObjectHolders EXCEPT ![c] = @ - 1]
              /\ owed' = IF fObjectHolders[c] = 0 THEN [owed EXCEPT ![x] = c] ELSE owed

(* Task x counts session s off its connection: DecrementObjectHolderCount, *)
(* up to the signal it owes if no holder is left.                          *)
Drop(x, s) ==
  LET c == fRTSPSession[s]
  IN  /\ fRTSPSession' = [fRTSPSession EXCEPT ![s] = None]
      /\ IF c = None THEN UNCHANGED <<fObjectHolders, owed>>
         ELSE /\ fObjectHolders' = [fObjectHolders EXCEPT ![c] = @ - 1]
              /\ owed' = IF fObjectHolders[c] = 1 THEN [owed EXCEPT ![x] = c] ELSE owed

SignalOwed(x) ==
  /\ owed[x] # None
  /\ killed' = [killed EXCEPT ![owed[x]] = TRUE]
  /\ owed' = [owed EXCEPT ![x] = None]
  /\ UNCHANGED <<connVars, sessVars, mapVars, srvVars, holdVars>>

(* The mutex of the session is taken by a step that is not over.           *)
SessionBusy(s) ==
  \/ owed[s] # None
  \/ \E c \in Conns : fRTPSession[c] = s /\ (owed[c] # None \/ at[c] = "joining")

-----------------------------------------------------------------------------
(* The connection                                                          *)

Accept(c) ==
  /\ at[c] = "deleted" /\ \A x \in Tasks : owed[x] # c
  /\ owed[c] = None
  /\ at' = [at EXCEPT ![c] = "reading"]
  /\ fLiveSession' = [fLiveSession EXCEPT ![c] = TRUE]
  /\ killed' = [killed EXCEPT ![c] = FALSE]
  /\ UNCHANGED <<fRTPSession, sessVars, mapVars, srvVars, holdVars, owed>>

FindRTPSession_NoRef(c, s) ==
  /\ at[c] = "reading" /\ fLiveSession[c]
  /\ s \in fRTPMap /\ ~Creating(s)
  /\ fRTPSession' = [fRTPSession EXCEPT ![c] = s]
  /\ at' = [at EXCEPT ![c] = "processing"]
  /\ UNCHANGED <<fLiveSession, sessVars, mapVars, srvVars, holdVars, killed, owed>>

(* A request names a session that is in the map, in its Session header or  *)
(* because it was the last one of the connection.  No client knows the     *)
(* identifier of a session that is still being created.                    *)
FindRTPSession(c, s) ==
  /\ at[c] = "reading" /\ fLiveSession[c]
  /\ s \in fRTPMap /\ ~Creating(s)
  /\ fRefCount' = [fRefCount EXCEPT ![s] = @ + 1]
  /\ fRTPSession' = [fRTPSession EXCEPT ![c] = s]
  /\ at' = [at EXCEPT ![c] = "processing"]
  /\ UNCHANGED <<fLiveSession, fRTPMap, sessVars, srvVars, holdVars, killed, owed>>

(* The code also refuses when there are too many RTSP connections; the     *)
(* model lets more sessions be created.                                    *)
OverMaxConnections == fNumRTPSessions > MaxConnections

(* It names none: a new RTPSession is constructed, unless there are too    *)
(* many.                                                                   *)
CreateNewRTPSession(c, s) ==
  /\ at[c] = "reading" /\ fLiveSession[c]
  /\ ~OverMaxConnections
  /\ stage[s] = "unborn" /\ owed[s] = None
  /\ stage' = [stage EXCEPT ![s] = "open"]
  /\ fModule' = [fModule EXCEPT ![s] = FALSE]
  /\ fIsFirstPlay' = [fIsFirstPlay EXCEPT ![s] = TRUE]
  /\ fRTPSession' = [fRTPSession EXCEPT ![c] = s]
  /\ at' = [at EXCEPT ![c] = "registering"]
  /\ UNCHANGED <<fLiveSession, mapVars, srvVars, holdVars, killed, owed>>

(* Activate: first the session is put into the map ...                     *)
Register(c) ==
  /\ at[c] = "registering"
  /\ fRTPMap' = fRTPMap \union {fRTPSession[c]}
  /\ at' = [at EXCEPT ![c] = "listing"]
  /\ UNCHANGED <<fLiveSession, fRTPSession, fRefCount, sessVars, srvVars, holdVars, killed, owed>>

(* ... then, under the mutex of the server, listed and counted.            *)
ListSession(c) ==
  /\ at[c] = "listing"
  /\ clientSessions' = clientSessions \union {fRTPSession[c]}
  /\ fNumRTPSessions' = fNumRTPSessions + 1
  /\ at' = [at EXCEPT ![c] = "resolving"]
  /\ UNCHANGED <<fLiveSession, fRTPSession, fNumRTPPlayingSessions,
                 sessVars, mapVars, holdVars, killed, owed>>

(* The creator takes a reference like any other user.                      *)
ResolveNew(c) ==
  LET s == fRTPSession[c]
  IN  /\ at[c] = "resolving"
      /\ fRefCount' = IF s \in fRTPMap THEN [fRefCount EXCEPT ![s] = @ + 1] ELSE fRefCount
      /\ at' = [at EXCEPT ![c] = "processing"]
      /\ UNCHANGED <<fLiveSession, fRTPSession, fRTPMap, sessVars, srvVars, holdVars, killed, owed>>

-----------------------------------------------------------------------------
(* The modules handle the request under the mutex of its session, and say  *)
(* whether the connection is kept.                                         *)

Answer(c, keepAlive) ==
  /\ at[c] = "processing" /\ ~SessionBusy(fRTPSession[c])
  /\ at' = [at EXCEPT ![c] = "postprocessing"]
  /\ fLiveSession' = [fLiveSession EXCEPT ![c] = keepAlive]
  /\ UNCHANGED <<fRTPSession, stage, mapVars, clientSessions, fNumRTPSessions>>

(* GET_PARAMETER, PAUSE, an error, a PLAY that only keeps the session.     *)
OtherRequest(c) ==
  /\ \E keepAlive \in BOOLEAN : Answer(c, keepAlive)
  /\ UNCHANGED <<fModule, fIsFirstPlay, fNumRTPPlayingSessions, holdVars, killed, owed>>

(* A module adds a stream and becomes the one that sends its packets.      *)
Setup(c) ==
  /\ \E keepAlive \in BOOLEAN : Answer(c, keepAlive)
  /\ fModule' = [fModule EXCEPT ![fRTPSession[c]] = TRUE]
  /\ UNCHANGED <<fIsFirstPlay, fNumRTPPlayingSessions, holdVars, killed, owed>>

Play_NotCounted(c) ==
  LET s == fRTPSession[c]
  IN  /\ \E keepAlive \in BOOLEAN : Answer(c, keepAlive)
      /\ fModule[s] /\ fNumRTPPlayingSessions < MaxPlays
      /\ fIsFirstPlay' = [fIsFirstPlay EXCEPT ![s] = FALSE]
      /\ UNCHANGED <<fNumRTPPlayingSessions, fModule, holdVars, killed, owed>>

(* Every PLAY that gets this far is counted.                               *)
Play(c) ==
  LET s == fRTPSession[c]
  IN  /\ \E keepAlive \in BOOLEAN : Answer(c, keepAlive)
      /\ fModule[s] /\ fNumRTPPlayingSessions < MaxPlays
      /\ fIsFirstPlay' = [fIsFirstPlay EXCEPT ![s] = FALSE]
      /\ fNumRTPPlayingSessions' = fNumRTPPlayingSessions + 1
      /\ UNCHANGED <<fModule, holdVars, killed, owed>>

Kill(s) == killed' = [killed EXCEPT ![s] = TRUE]

(* TEARDOWN, or a module that cannot serve the request: the session lets   *)
(* its connection go and is told to go itself.                             *)
TeardownRequest(c) ==
  LET s == fRTPSession[c]
  IN  /\ \E keepAlive \in BOOLEAN : Answer(c, keepAlive)
      /\ Drop(c, s)
      /\ Kill(s)
      /\ UNCHANGED <<fModule, fIsFirstPlay, fNumRTPPlayingSessions>>

Process(c) == Setup(c) \/ Play(c) \/ TeardownRequest(c) \/ OtherRequest(c)

(* The session is made to point at this connection if the connection goes  *)
(* on: UpdateRTSPSession counts it off the old one ...                     *)
PostProcess(c) ==
  LET s == fRTPSession[c]
      moves == fLiveSession[c] /\ fRTSPSession[s] # c
  IN  /\ at[c] = "postprocessing" /\ owed[c] = None /\ ~SessionBusy(s)
      /\ at' = [at EXCEPT ![c] = IF moves THEN "joining" ELSE "cleaning"]
      /\ IF moves THEN Drop(c, s) ELSE UNCHANGED <<holdVars, owed>>
      /\ UNCHANGED <<fLiveSession, fRTPSession, sessVars, mapVars, srvVars, killed>>

Join_NoCount(c) ==
  /\ at[c] = "joining" /\ owed[c] = None
  /\ fRTSPSession' = [fRTSPSession EXCEPT ![fRTPSession[c]] = c]
  /\ at' = [at EXCEPT ![c] = "cleaning"]
  /\ UNCHANGED <<fObjectHolders, fLiveSession, fRTPSession, sessVars, mapVars, srvVars, killed, owed>>

(* ... and onto this one.                                                  *)
Join(c) ==
  /\ at[c] = "joining" /\ owed[c] = None
  /\ fRTSPSession' = [fRTSPSession EXCEPT ![fRTPSession[c]] = c]
  /\ fObjectHolders' = [fObjectHolders EXCEPT ![c] = @ + 1]
  /\ at' = [at EXCEPT ![c] = "cleaning"]
  /\ UNCHANGED <<fLiveSession, fRTPSession, sessVars, mapVars, srvVars, killed, owed>>

CleanupRequest_LiveOnly(c) ==
  /\ at[c] = "cleaning" /\ owed[c] = None
  /\ fRefCount' = IF fLiveSession[c]
                    THEN [fRefCount EXCEPT ![fRTPSession[c]] = @ - 1] ELSE fRefCount
  /\ fRTPSession' = [fRTPSession EXCEPT ![c] = None]
  /\ at' = [at EXCEPT ![c] = IF fLiveSession[c] THEN "reading" ELSE "ending"]
  /\ UNCHANGED <<fLiveSession, fRTPMap, sessVars, srvVars, holdVars, killed, owed>>

(* The response is sent and the reference given back.                      *)
CleanupRequest(c) ==
  /\ at[c] = "cleaning" /\ owed[c] = None
  /\ fRefCount' = [fRefCount EXCEPT ![fRTPSession[c]] = @ - 1]
  /\ fRTPSession' = [fRTPSession EXCEPT ![c] = None]
  /\ at' = [at EXCEPT ![c] = IF fLiveSession[c] THEN "reading" ELSE "ending"]
  /\ UNCHANGED <<fLiveSession, fRTPMap, sessVars, srvVars, holdVars, killed, owed>>

TimeoutConnection(c) ==
  /\ at[c] # "deleted"
  /\ killed' = [killed EXCEPT ![c] = TRUE]
  /\ UNCHANGED <<connVars, sessVars, mapVars, srvVars, holdVars, owed>>

(* Run takes a timeout or a kill: between requests, or in one, where a     *)
(* module asked to be called again or the client does not read.            *)
TakeEvents(c) ==
  /\ killed[c] /\ owed[c] = None
  /\ at[c] \in {"reading", "processing", "cleaning", "dead"}
  /\ killed' = [killed EXCEPT ![c] = FALSE]
  /\ fLiveSession' = [fLiveSession EXCEPT ![c] = FALSE]
  /\ at' = [at EXCEPT ![c] = IF fRTPSession[c] = None THEN "ending" ELSE "cleaning"]
  /\ UNCHANGED <<fRTPSession, sessVars, mapVars, srvVars, holdVars, owed>>

ClientCloses(c) ==
  /\ at[c] = "reading"
  /\ fLiveSession' = [fLiveSession EXCEPT ![c] = FALSE]
  /\ at' = [at EXCEPT ![c] = "ending"]
  /\ UNCHANGED <<fRTPSession, sessVars, mapVars, srvVars, holdVars, killed, owed>>

EndRun_NoTest(c) ==
  /\ at[c] = "ending"
  /\ at' = [at EXCEPT ![c] = "deleted"]
  /\ killed' = [killed EXCEPT ![c] = FALSE]
  /\ UNCHANGED <<fLiveSession, fRTPSession, sessVars, mapVars, srvVars, holdVars, owed>>

(* Run ends: -1 deletes the connection, 0 waits for the next event.        *)
EndRun(c) ==
  /\ at[c] = "ending"
  /\ IF fObjectHolders[c] = 0
       THEN /\ at' = [at EXCEPT ![c] = "deleted"]
            /\ killed' = [killed EXCEPT ![c] = FALSE]
       ELSE at' = [at EXCEPT ![c] = "dead"] /\ UNCHANGED killed
  /\ UNCHANGED <<fLiveSession, fRTPSession, sessVars, mapVars, srvVars, holdVars, owed>>

-----------------------------------------------------------------------------
(* The session                                                             *)

MayBeKilled(s) == KillsWhileCreating \/ ~Creating(s)

TimeoutSession(s) ==
  /\ s \in fRTPMap /\ MayBeKilled(s)
  /\ killed' = [killed EXCEPT ![s] = TRUE]
  /\ UNCHANGED <<connVars, sessVars, mapVars, srvVars, holdVars, owed>>

(* The server becomes idle or shuts down.                                  *)
KillAllRTPSessions ==
  /\ \A s \in fRTPMap : MayBeKilled(s)
  /\ killed' = [x \in Tasks |-> x \in fRTPMap \/ killed[x]]
  /\ UNCHANGED <<connVars, sessVars, mapVars, srvVars, holdVars, owed>>

(* A module that sends the packets of the session tears it down, from the  *)
(* Run of the session: the movie is over, or cannot be read.               *)
ModuleTeardown(s) ==
  /\ s \in fRTPMap /\ fModule[s] /\ ~killed[s] /\ ~SessionBusy(s)
  /\ Drop(s, s)
  /\ Kill(s)
  /\ UNCHANGED <<connVars, sessVars, mapVars, srvVars>>

(* Run takes a timeout or a kill.  It leaves the map if no request uses    *)
(* it; otherwise it signals itself and comes back.                         *)
TryUnRegister(s) ==
  /\ s \in fRTPMap /\ killed[s] /\ owed[s] = None
  /\ IF fRefCount[s] = 0
       THEN /\ fRTPMap' = fRTPMap \ {s}
            /\ stage' = [stage EXCEPT ![s] = "closing"]
            /\ killed' = [killed EXCEPT ![s] = FALSE]
       ELSE UNCHANGED <<fRTPMap, stage, killed>>
  /\ UNCHANGED <<connVars, fModule, fIsFirstPlay, fRefCount, srvVars, holdVars, owed>>

(* The closing modules have run; ~RTPSession takes the session off the     *)
(* list and the counters, under the mutex of the server.                   *)
Unlist(s) ==
  /\ stage[s] = "closing"
  /\ stage' = [stage EXCEPT ![s] = "unlisted"]
  /\ clientSessions' = clientSessions \ {s}
  /\ fNumRTPSessions' = fNumRTPSessions - 1
  /\ fNumRTPPlayingSessions' = fNumRTPPlayingSessions - (IF fIsFirstPlay[s] THEN 0 ELSE 1)
  /\ UNCHANGED <<connVars, fModule, fIsFirstPlay, mapVars, holdVars, killed, owed>>

(* ~RTPSessionInterface counts it off its connection.                      *)
Destroy(s) ==
  /\ stage[s] = "unlisted"
  /\ stage' = [stage EXCEPT ![s] = "unborn"]
  /\ Drop(s, s)
  /\ UNCHANGED <<connVars, fModule, fIsFirstPlay, mapVars, srvVars, killed>>

-----------------------------------------------------------------------------
(* What a connection and a session do by themselves once they have begun.  *)
ConnStep(c) ==
  \/ Register(c) \/ ListSession(c) \/ ResolveNew(c)
  \/ Process(c) \/ PostProcess(c) \/ Join(c) \/ CleanupRequest(c)
  \/ TakeEvents(c) \/ EndRun(c) \/ SignalOwed(c)

SessionStep(s) == TryUnRegister(s) \/ Unlist(s) \/ Destroy(s) \/ SignalOwed(s)

Next ==
  \/ \E c \in Conns :
       \/ ConnStep(c) \/ Accept(c) \/ TimeoutConnection(c) \/ ClientCloses(c)
       \/ \E s \in Sessions : FindRTPSession(c, s) \/ CreateNewRTPSession(c, s)
  \/ \E s \in Sessions : SessionStep(s) \/ TimeoutSession(s) \/ ModuleTeardown(s)
  \/ KillAllRTPSessions

Spec == Init /\ [][Next]_vars

(* The tasks are run when they have something to do (TaskScheduler), and a *)
(* module answers a request in the end.                                    *)
FairSpec ==
  /\ Spec
  /\ \A c \in Conns : WF_vars(ConnStep(c))
  /\ \A s \in Sessions : WF_vars(SessionStep(s))

-----------------------------------------------------------------------------
(* fObjectHolders is the number of sessions that point at the connection,  *)
(* whoever moved, tore down or deleted them.                               *)
HoldersAreExact ==
  \A c \in Conns : fObjectHolders[c] = Cardinality(Holders(c))

(* "If # of object holders is > 0, the RTSPSession will NEVER go away"     *)
(* (RTSPSessionInterface.h): no session points at a deleted connection, on *)
(* which it would write its interleaved packets.                           *)
HeldNeverGoesAway ==
  \A s \in Sessions : fRTSPSession[s] # None => at[fRTSPSession[s]] # "deleted"

(* The session of a request that is being handled is not being deleted:    *)
(* "at this point, we know no one is using this session" (RTPSession.cpp). *)
RequestsKeepTheirSession ==
  \A c \in Conns : fRTPSession[c] # None => stage[fRTPSession[c]] = "open"

(* The references in the map are those of the requests being handled: one  *)
(* more, and the session could never go; one less, and it would go early.  *)
RefsAreExact ==
  \A s \in Sessions : fRefCount[s] = Cardinality(Users(s))

(* ~RTPSession finds itself in the list ("Assert(y < theServer->           *)
(* GetNumRTPSessions())"), and the count is the length of the list.        *)
ClosingIsListed ==
  /\ \A s \in Sessions : stage[s] = "closing" => s \in clientSessions
  /\ fNumRTPSessions = Cardinality(clientSessions)

Played == {s \in clientSessions : ~fIsFirstPlay[s]}

(* The count of playing sessions is not too small, so that it never wraps  *)
(* below zero.                                                             *)
PlayingNotUndercounted == fNumRTPPlayingSessions >= Cardinality(Played)

(* The limit is tested before a session is counted, and with ">": it is    *)
(* exceeded by one session for each connection that passes the test at     *)
(* the same time, and by no more.                                          *)
NearlyMaxConnections == fNumRTPSessions <= MaxConnections + Cardinality(Conns)

(* A connection that ended while it was held is deleted when its last      *)
(* holder is gone, though nothing but that holder's signal wakes it.       *)
DeadIsDeleted ==
  \A c \in Conns : (at[c] = "dead" /\ Holders(c) = {}) ~> at[c] = "deleted"

(* A session that was killed goes away, unless requests for it keep        *)
(* coming; it is not kept by a request that is over or was cut short.      *)
KilledGoesAway ==
  \A s \in Sessions :
    <>[](stage[s] = "open" /\ killed[s]) => []<>(\E c \in Conns : fRTPSession[c] = s)

-----------------------------------------------------------------------------
(* What the source says and the code does not do.                          *)

(* "Lock the RTP session down so that it won't delete itself in the        *)
(* unusual event there is a timeout while we are doing this."              *)
(* (RTSPSession.cpp, CreateNewRTPSession.)                                 *)
SetupIsLockedDown ==
  \A c \in Conns : at[c] = "listing" => stage[fRTPSession[c]] = "open"
=============================================================================
