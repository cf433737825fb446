----------------------------- MODULE RTSPRequests -----------------------------
(***************************************************************************)
(* RTSPSession::Run (Server.tproj/RTSPSession.cpp): the states a request   *)
(* goes through, and the HTTP tunnel, in which the connection of a GET     *)
(* (the output) takes over the socket of a POST (the input) with the same  *)
(* magic number.  The two halves are tasks of different threads; whichever *)
(* comes first waits in sHTTPProxyTunnelMap, the other one joins them      *)
(* under the fReadMutex of the first.  Later POSTs may replace the input.  *)
(*                                                                         *)
(* All GETs and POSTs here have the same magic number.  A request in hand  *)
(* keeps the mutexes of its session between two runs of the task; the      *)
(* module takes such a session to be the only one its thread serves unless *)
(* SharesThread (TryLock).  Whether fObjectHolders lets a session go is    *)
(* the module SessionLifetime.  What modules do is free: each role may be  *)
(* called later, be called back under the global lock, answer or pass on.  *)
(*                                                                         *)
(* A definition named <operation>_<slip> is that operation with a slip,    *)
(* kept to show that a property would notice it.                           *)
(***************************************************************************)
EXTENDS Naturals, FiniteSets

CONSTANTS
  Gets,           (* sessions whose client sends a GET, or just RTSP       *)
  Posts,          (* sessions whose client sends a POST                    *)
  None,
  SharesThread,   (* may a session join one that waits for a module, or    *)
                  (* for its client, with that session's own thread?       *)
  Relocks         (* may a module ask for the global lock in a locked run? *)

Sessions == Gets \cup Posts

ASSUME RequestsAssumption ==
  /\ Gets \cap Posts = {} /\ None \notin Sessions
  /\ SharesThread \in BOOLEAN /\ Relocks \in BOOLEAN

VARIABLES
  pc,             (* per session: where its task is                        *)
  fState,
  isLive,         (* fLiveSession, and fSocket is connected                *)
  events,         (* what the task was signalled for                       *)
  fInputSocketP,  (* the session whose connection it reads, or None        *)
  armed,          (* RequestEvent(EV_RE) is in force for that connection   *)
  connection,     (* per session: what its client has sent on it           *)
  fReadMutex,     (* per session: the session whose run holds it           *)
  map,            (* the session in sHTTPProxyTunnelMap, or None           *)
  fRefCount,      (* per session                                           *)
  other,          (* the session it has resolved, or None                  *)
  lock            (* per session: the global lock was asked for, is due,   *)
                  (* is held: globalLockRequested, fWriteLock and the run  *)

tunnel == <<map, fRefCount, other>>
input == <<fInputSocketP, armed, connection>>
vars == <<pc, fState, isLive, events, input, fReadMutex, tunnel, lock>>

(* The states in which modules are called.  "serving" is all of them from  *)
(* kRoutingRequest to kProcessingRequest: they treat a module that waits,  *)
(* that asks for the lock and that answers alike.                          *)
ModuleRoles == {"filtering", "serving", "postprocessing"}
InHand == ModuleRoles \cup {"sending", "cleaning"}

TypeOK ==
  /\ pc \in [Sessions -> {"none", "idle", "run", "registering", "locking",
                          "binding", "releasing", "deleting"}]
  /\ fState \in [Sessions -> {"first", "waiting", "bound", "reading", "message"}
                                \cup InHand]
  /\ isLive \in [Sessions -> BOOLEAN]
  /\ events \in [Sessions -> SUBSET {"read", "kill"}]
  /\ fInputSocketP \in [Sessions -> Sessions \cup {None}]
  /\ armed \in [Sessions -> BOOLEAN]
  /\ connection \in [Sessions -> {"quiet", "request", "closed"}]
  /\ fReadMutex \in [Sessions -> Sessions \cup {None}]
  /\ map \in Sessions \cup {None}
  /\ fRefCount \in [Sessions -> Nat]
  /\ other \in [Sessions -> Sessions \cup {None}]
  /\ lock \in [Sessions -> [asked : BOOLEAN, due : BOOLEAN, held : BOOLEAN]]

NoLock == [asked |-> FALSE, due |-> FALSE, held |-> FALSE]

Init ==
  /\ pc = [s \in Sessions |-> "none"] /\ fState = [s \in Sessions |-> "first"]
  /\ isLive = [s \in Sessions |-> FALSE] /\ events = [s \in Sessions |-> {}]
  /\ fInputSocketP = [s \in Sessions |-> None] /\ armed = [s \in Sessions |-> FALSE]
  /\ connection = [s \in Sessions |-> "quiet"]
  /\ fReadMutex = [s \in Sessions |-> None]
  /\ map = None /\ fRefCount = [s \in Sessions |-> 0]
  /\ other = [s \in Sessions |-> None]
  /\ lock = [s \in Sessions |-> NoLock]

-----------------------------------------------------------------------------
(* Clients and events *)

Readers(c) == {s \in Sessions : fInputSocketP[s] = c /\ pc[s] # "none"}

(* What was sent on a connection that nobody reads any more is forgotten.  *)
Without(c) == [x \in Sessions |-> IF x = c THEN "quiet" ELSE connection[x]]

Goto(s, p) == pc' = [pc EXCEPT ![s] = p]
At(s, p, state) == pc[s] = p /\ fState[s] = state

(* A client connects and sends its first request, for which Run is called. *)
Connect(s) ==
  /\ pc[s] = "none" /\ Readers(s) = {}
  /\ Goto(s, "run")
  /\ isLive' = [isLive EXCEPT ![s] = TRUE]
  /\ fInputSocketP' = [fInputSocketP EXCEPT ![s] = s]
  /\ UNCHANGED <<fState, events, armed, connection, fReadMutex, tunnel, lock>>

(* A request, or the end of the connection, can be read: EV_RE.            *)
Arrive(s, what) ==
  /\ connection[s] = "quiet" /\ Readers(s) # {}
  /\ connection' = [connection EXCEPT ![s] = what]
  /\ events' = [r \in Sessions |->
                  IF r \in Readers(s) /\ armed[r] THEN events[r] \cup {"read"} ELSE events[r]]
  /\ armed' = [r \in Sessions |-> armed[r] /\ r \notin Readers(s)]
  /\ UNCHANGED <<pc, fState, isLive, fInputSocketP, fReadMutex, tunnel, lock>>

(* fTimeoutTask, or a kill.  One that comes in a run waits for the next.   *)
TimeOut(s) ==
  /\ pc[s] = "idle"
  /\ events' = [events EXCEPT ![s] = @ \cup {"kill"}]
  /\ UNCHANGED <<pc, fState, isLive, input, fReadMutex, tunnel, lock>>

CleanupRequest(s) ==
  fReadMutex' = [fReadMutex EXCEPT ![s] = IF @ = s THEN None ELSE @]

(* The loop is left: CleanupRequest, -1, and the destructor is called.     *)
End(s) ==
  /\ Goto(s, "deleting")
  /\ CleanupRequest(s)

(* Run is called: for an event or, with a request in hand, because the     *)
(* time a module asked for is over or the socket can be written.           *)
Run(s) ==
  /\ pc[s] = "idle"
  /\ events[s] # {} \/ fState[s] \in InHand
  /\ events' = [events EXCEPT ![s] = {}]
  /\ lock' = [lock EXCEPT ![s].held = lock[s].due, ![s].due = FALSE]
  /\ IF isLive[s] /\ "kill" \notin events[s]
     THEN Goto(s, "run") /\ UNCHANGED fReadMutex
     ELSE End(s)
  /\ UNCHANGED <<fState, isLive, input, tunnel>>

Return(s) ==
  /\ Goto(s, "idle")
  /\ lock' = [lock EXCEPT ![s].held = FALSE]

-----------------------------------------------------------------------------
(* Reading *)

(* ReadRequest and PreFilterForHTTPProxyTunnel: the first request is a GET *)
(* or a POST of the tunnel, for which the state is set before the session  *)
(* can be found in the map, or a message (also one that is too large).     *)
ReadFirstRequest(s) ==
  /\ At(s, "run", "first")
  /\ \/ /\ s \in Gets
        /\ fState' = [fState EXCEPT ![s] = "message"]
        /\ UNCHANGED pc
     \/ /\ fState' = [fState EXCEPT ![s] = "waiting"]
        /\ Goto(s, "registering")
  /\ UNCHANGED <<isLive, events, input, fReadMutex, tunnel, lock>>

(* kReadingRequest, under fReadMutex: there is nothing yet, a request, or  *)
(* the connection is gone, which a session with another output survives.   *)
AwaitRequest(s) ==
  /\ At(s, "run", "reading") /\ fReadMutex[s] = None
  /\ fInputSocketP[s] # None /\ connection[fInputSocketP[s]] = "quiet"
  /\ armed' = [armed EXCEPT ![s] = TRUE]
  /\ Return(s)
  /\ UNCHANGED <<fState, isLive, events, fInputSocketP, connection, fReadMutex, tunnel>>

ReadRequest(s) ==
  /\ At(s, "run", "reading") /\ fReadMutex[s] = None
  /\ fInputSocketP[s] # None /\ connection[fInputSocketP[s]] = "request"
  /\ connection' = [connection EXCEPT ![fInputSocketP[s]] = "quiet"]
  /\ fState' = [fState EXCEPT ![s] = "message"]
  /\ UNCHANGED <<pc, isLive, events, fInputSocketP, armed, fReadMutex, tunnel, lock>>

InputIsGone(s) ==
  /\ At(s, "run", "reading") /\ fReadMutex[s] = None
  /\ fInputSocketP[s] # None => connection[fInputSocketP[s]] = "closed"
  /\ IF fInputSocketP[s] = s
     THEN End(s) /\ UNCHANGED <<fInputSocketP, lock>>
     ELSE /\ fInputSocketP' = [fInputSocketP EXCEPT ![s] = None]
          /\ Return(s) /\ UNCHANGED fReadMutex
  /\ connection' = Without(fInputSocketP[s])
  /\ UNCHANGED <<fState, isLive, events, armed, tunnel>>

HaveMessage_NoMutex(s) ==
  /\ At(s, "run", "message") /\ fReadMutex[s] = None
  /\ \E state \in {"filtering", "postprocessing"} :
        fState' = [fState EXCEPT ![s] = state]
  /\ UNCHANGED <<pc, isLive, events, input, fReadMutex, tunnel, lock>>

(* kHaveNonTunnelMessage.  The mutex is not held between ReadRequest and   *)
(* this step.  A request that cannot be read is answered at once.          *)
HaveMessage(s) ==
  /\ At(s, "run", "message") /\ fReadMutex[s] = None
  /\ fReadMutex' = [fReadMutex EXCEPT ![s] = s]
  /\ \E state \in {"filtering", "postprocessing"} :
        fState' = [fState EXCEPT ![s] = state]
  /\ UNCHANGED <<pc, isLive, events, input, tunnel, lock>>

-----------------------------------------------------------------------------
(* The roles *)

(* Where a request goes when the modules are done: on, or, answered, to be *)
(* postprocessed.  Data of an interleaved stream, and the answer to an     *)
(* OPTIONS of the server, have a short cut each.                           *)
After(role) ==
  CASE role = "filtering"      -> {"serving", "cleaning", "sending", "postprocessing"}
    [] role = "serving"        -> {"postprocessing"}
    [] role = "postprocessing" -> {"sending"}

(* A role that is entered takes the request of an earlier call; a request  *)
(* that is answered ends the session unless it is to be kept alive.        *)
Enter(s) ==
  /\ pc[s] = "run" /\ fState[s] \in ModuleRoles
  /\ IF fState[s] = "postprocessing"
     THEN \E keepAlive \in BOOLEAN : isLive' = [isLive EXCEPT ![s] = keepAlive]
     ELSE UNCHANGED isLive

CallModules_KeepsAsking(s) ==
  /\ Enter(s)
  /\ \E state \in After(fState[s]) : fState' = [fState EXCEPT ![s] = state]
  /\ UNCHANGED <<pc, events, input, fReadMutex, tunnel, lock>>

(* The modules of the role are called, told of the lock if they asked.     *)
CallModules(s) ==
  /\ Enter(s)
  /\ \E state \in After(fState[s]) : fState' = [fState EXCEPT ![s] = state]
  /\ lock' = [lock EXCEPT ![s].asked = FALSE]
  /\ UNCHANGED <<pc, events, input, fReadMutex, tunnel>>

(* A module wants to be called later, with the global lock (CallLocked) or *)
(* without; TaskThread::Entry forgets the first if the run is locked.      *)
ModuleWaits(s, locked) ==
  /\ Enter(s)
  /\ locked => Relocks \/ ~lock[s].held
  /\ Goto(s, "idle")
  /\ lock' = [lock EXCEPT ![s] =
                [asked |-> locked, due |-> locked /\ ~lock[s].held, held |-> FALSE]]
  /\ UNCHANGED <<fState, events, input, fReadMutex, tunnel>>

(* fOutputStream.Flush: EAGAIN, done, or the client is gone.               *)
SendResponse(s) ==
  /\ At(s, "run", "sending")
  /\ \/ Return(s) /\ UNCHANGED <<fState, fReadMutex>>
     \/ fState' = [fState EXCEPT ![s] = "cleaning"] /\ UNCHANGED <<pc, fReadMutex, lock>>
     \/ End(s) /\ UNCHANGED <<fState, lock>>
  /\ UNCHANGED <<isLive, events, input, tunnel>>

(* The rest of the request's body is read, then the mutexes are given up.  *)
CleanUp(s) ==
  /\ At(s, "run", "cleaning")
  /\ \/ Return(s) /\ UNCHANGED <<fState, fReadMutex>>
     \/ /\ fState' = [fState EXCEPT ![s] = "reading"]
        /\ IF isLive[s] THEN CleanupRequest(s) /\ UNCHANGED pc ELSE End(s)
        /\ UNCHANGED lock
  /\ UNCHANGED <<isLive, events, input, tunnel>>

(* What a request in hand does that is not to wait once more.              *)
GoesOn(s) ==
  \/ CallModules(s)
  \/ SendResponse(s) /\ pc'[s] # "idle"
  \/ CleanUp(s) /\ pc'[s] # "idle"

-----------------------------------------------------------------------------
(* The tunnel *)

Alike(s, o) == {s, o} \subseteq Gets \/ {s, o} \subseteq Posts

(* RegisterRTSPSessionIntoHTTPProxyTunnelMap: the first half waits, the    *)
(* second one has the first, unless that is in use or of the same kind.    *)
Register(s) ==
  /\ pc[s] = "registering"
  /\ IF map = None
     THEN /\ map' = s /\ Goto(s, "run") /\ UNCHANGED <<fRefCount, other>>
     ELSE IF fRefCount[map] > 0 \/ Alike(s, map)
     THEN Goto(s, "deleting") /\ UNCHANGED tunnel
     ELSE /\ fRefCount' = [fRefCount EXCEPT ![map] = @ + 1]
          /\ other' = [other EXCEPT ![s] = map]
          /\ Goto(s, "locking") /\ UNCHANGED map
  /\ UNCHANGED <<fState, isLive, events, input, fReadMutex, lock>>

ReleaseOther(s) ==
  /\ fRefCount' = [fRefCount EXCEPT ![other[s]] = @ - 1]
  /\ other' = [other EXCEPT ![s] = None]
  /\ UNCHANGED map

(* fReadMutex.TryLock of the other half.  The mutex is recursive: the      *)
(* thread that keeps it for the other half's request would be let in.      *)
TryLock(s) ==
  /\ pc[s] = "locking"
  /\ LET o == other[s]
         shared == SharesThread /\ fReadMutex[o] = o /\ pc[o] = "idle"
     IN  IF fReadMutex[o] = None \/ shared
         THEN /\ fReadMutex' = [fReadMutex EXCEPT ![o] = IF shared THEN o ELSE s]
              /\ Goto(s, "binding") /\ UNCHANGED tunnel
         ELSE Goto(s, "deleting") /\ ReleaseOther(s) /\ UNCHANGED fReadMutex
  /\ UNCHANGED <<fState, isLive, events, input, lock>>

(* SnarfInputSocket: g reads from the connection of p from now on.         *)
Snarf(g, p) ==
  /\ fInputSocketP' = [fInputSocketP EXCEPT ![g] = p, ![p] = None]
  /\ armed' = [armed EXCEPT ![g] = FALSE, ![p] = FALSE]
  /\ isLive' = [isLive EXCEPT ![p] = FALSE]
  /\ fState' = [fState EXCEPT ![g] = "reading", ![p] = "bound"]
  /\ connection' = Without(fInputSocketP[g])

BindPost_NoSignal(s) ==
  /\ pc[s] = "binding" /\ s \in Posts
  /\ Snarf(other[s], s)
  /\ Goto(s, "releasing")
  /\ UNCHANGED <<events, fReadMutex, tunnel, lock>>

(* The other half may be asleep, and reads now.                            *)
BindPost(s) ==
  /\ pc[s] = "binding" /\ s \in Posts
  /\ Snarf(other[s], s)
  /\ events' = [events EXCEPT ![other[s]] = @ \cup {"read"}]
  /\ Goto(s, "releasing")
  /\ UNCHANGED <<fReadMutex, tunnel, lock>>

(* The GET also takes the place of the POST in the map.                    *)
BindGet(s) ==
  /\ pc[s] = "binding" /\ s \in Gets
  /\ Snarf(s, other[s])
  /\ events' = [events EXCEPT ![other[s]] = @ \cup {"kill"}]
  /\ map' = s
  /\ Goto(s, "releasing")
  /\ UNCHANGED <<fReadMutex, fRefCount, other, lock>>

(* Unlock, then the destructor of OSRefReleaser; a POST that gave its      *)
(* socket away is not live any more.                                       *)
Release(s) ==
  /\ pc[s] = "releasing"
  /\ fReadMutex' = [fReadMutex EXCEPT ![other[s]] = IF @ = s THEN None ELSE @]
  /\ ReleaseOther(s)
  /\ Goto(s, IF isLive[s] THEN "run" ELSE "deleting")
  /\ UNCHANGED <<fState, isLive, events, input, lock>>

(* kWaitingToBindHTTPTunnel returns; a session that lost its socket ends.  *)
WaitToBind(s) ==
  /\ pc[s] = "run" /\ fState[s] \in {"waiting", "bound"}
  /\ IF fState[s] = "waiting" THEN Return(s) ELSE Goto(s, "deleting") /\ UNCHANGED lock
  /\ UNCHANGED <<fState, isLive, events, input, fReadMutex, tunnel>>

-----------------------------------------------------------------------------
(* The destructor *)

Forget(s) ==
  /\ fState' = [fState EXCEPT ![s] = "first"]
  /\ isLive' = [isLive EXCEPT ![s] = FALSE]
  /\ events' = [events EXCEPT ![s] = {}]
  /\ fInputSocketP' = [fInputSocketP EXCEPT ![s] = None]
  /\ armed' = [armed EXCEPT ![s] = FALSE]
  /\ connection' = Without(fInputSocketP[s])
  /\ lock' = [lock EXCEPT ![s] = NoLock]

UnRegister_ByName(s) ==
  /\ pc[s] = "deleting" /\ fRefCount[s] = 0
  /\ map' = None
  /\ Forget(s)
  /\ Goto(s, "none")
  /\ UNCHANGED <<fReadMutex, fRefCount, other>>

(* The session waits until nobody uses it, and leaves the map if it is in  *)
(* there: its place may be another's by now.                               *)
UnRegister(s) ==
  /\ pc[s] = "deleting" /\ fRefCount[s] = 0
  /\ map' = IF map = s THEN None ELSE map
  /\ Forget(s)
  /\ Goto(s, "none")
  /\ UNCHANGED <<fReadMutex, fRefCount, other>>

-----------------------------------------------------------------------------
Environment(s) ==
  \/ Connect(s) \/ Arrive(s, "request") \/ Arrive(s, "closed") \/ TimeOut(s)

(* The steps of a task that do not depend on what a module or client does. *)
Step(s) ==
  \/ ReadFirstRequest(s) \/ AwaitRequest(s) \/ ReadRequest(s) \/ InputIsGone(s)
  \/ HaveMessage(s) \/ Register(s) \/ TryLock(s) \/ BindPost(s) \/ BindGet(s)
  \/ Release(s) \/ WaitToBind(s) \/ UnRegister(s)

Next ==
  \E s \in Sessions :
    \/ Environment(s) \/ Run(s) \/ Step(s)
    \/ CallModules(s) \/ ModuleWaits(s, TRUE) \/ ModuleWaits(s, FALSE)
    \/ SendResponse(s) \/ CleanUp(s)

Spec == Init /\ [][Next]_vars

(* A task that has something to do runs, fReadMutex is given to who waits  *)
(* for it; a module asked again and again, or a client that does not read, *)
(* lets the request go on in the end.                                      *)
FairSpec ==
  /\ Spec
  /\ \A s \in Sessions : WF_vars(Run(s)) /\ SF_vars(Step(s))
  /\ \A g \in Gets : SF_vars(GoesOn(g))

-----------------------------------------------------------------------------
(* Who is in the tunnel: a half that waits for the other, or a GET that    *)
(* has found it once.                                                      *)
InTunnel(s) ==
  /\ pc[s] \notin {"none", "registering", "locking", "binding", "deleting"}
  /\ \/ fState[s] = "waiting"
     \/ s \in Gets /\ fInputSocketP[s] # s

(* Who is in the tunnel is found by the next half that comes: the map has  *)
(* it, though its donor left through the same entry (RTSPSession.cpp:1332, *)
(* 1355).                                                                  *)
TunnelIsFound == \A s \in Sessions : InTunnel(s) => map = s

(* A module that is told it has the global lock is called in a run that    *)
(* has it, whatever happened to the request in between.                    *)
LockedWhenTold ==
  \A s \in Sessions :
    pc[s] = "run" /\ fState[s] \in ModuleRoles /\ lock[s].asked => lock[s].held

(* "We also make sure that a POST session can't snarf in while we're       *)
(* processing the request" (RTSPSession.cpp:384): from the filter role to  *)
(* the end of the answer a request keeps its input.                        *)
InputUndisturbed ==
  [][\A s \in Sessions :
       pc[s] \in {"idle", "run"} /\ fState[s] \in InHand
         => fInputSocketP'[s] = fInputSocketP[s]]_vars

(* What is sent on the POST connection of a tunnel is read by the GET, in  *)
(* whichever order the two halves came, unless the input is replaced or    *)
(* the session ends (RTSPSession.cpp:1225, 1326).                          *)
RequestsAreRead ==
  \A g \in Gets, p \in Posts :
    fInputSocketP[g] = p /\ connection[p] = "request" /\ pc[g] # "none"
      ~> connection[p] # "request" \/ fInputSocketP[g] # p \/ pc[g] = "none"
=============================================================================
