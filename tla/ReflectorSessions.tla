--------------------------- MODULE ReflectorSessions ---------------------------
(***************************************************************************)
(* Live broadcasts (APIModules/QTSSReflectorModule): one path, for which   *)
(* a ReflectorSession is made by the first client to set it up, viewer or  *)
(* broadcaster, kept in sSessionMap and deleted with the last reference.   *)
(* A viewer's output sits in an array of buckets in each of the session's  *)
(* streams, from which the thread of the stream's socket serves it.        *)
(*                                                                         *)
(* Each client's requests, and its end, come one after another; those of   *)
(* different clients run at the same time on the task threads.  A step is  *)
(* what is done under one mutex: that of the map (FindOrCreateSession and  *)
(* the end of RemoveOutput each are one) or the fBucketMutex of a stream.  *)
(* The socket's thread, which changes nothing here, uses the outputs it    *)
(* finds in a stream under that stream's mutex.                            *)
(*                                                                         *)
(* A client that is refused a request leaves no trace, except where a      *)
(* reference is not given back.  Clients send their requests in the usual  *)
(* order: DESCRIBE comes before SETUP, the SETUPs of a broadcaster after   *)
(* its first one are good, a PLAY follows them.                            *)
(*                                                                         *)
(* A definition named <operation>_<slip> is that operation with a slip,    *)
(* kept to show that a property would notice it.                           *)
(***************************************************************************)
EXTENDS Integers, FiniteSets

CONSTANTS
  Viewers, Broadcasters, (* clients                                        *)
  Sessions,              (* ReflectorSession objects, used again once dead *)
  NumStreams,
  sBucketSize,
  Orderly,               (* BOOLEAN: clients keep out of a broadcaster's   *)
                         (* way from its SETUP to its PLAY (see Others)    *)
  MaxUnreleased,         (* bound: references never given back, by session *)
  None

Clients == Viewers \cup Broadcasters
Streams == 1 .. NumStreams
NoBucket == -1

ASSUME ReflectorAssumption ==
  /\ NumStreams \in Nat \ {0} /\ sBucketSize \in Nat \ {0}
  /\ Orderly \in BOOLEAN /\ MaxUnreleased \in Nat
  /\ None \notin Sessions \cup Clients
  /\ Viewers \cap Broadcasters = {} /\ IsFiniteSet(Clients)

VARIABLES
  sSessionMap,           (* the session registered for the path, or None   *)
  live,                  (* the sessions that are allocated                *)
  fRefCount,
  unreleased,            (* references that nobody will give back          *)
  file,                  (* the SDP file of the path is there              *)
  fOutputArray,          (* per session and stream: outputs and buckets    *)
  fSetupToReceive,
  fBroadcasterSession,
  attr,                  (* the session a client is at, or None            *)
  played,                (* the broadcasters whose PLAY was done           *)
  torndown,              (* the clients told to go (QTSS_Teardown)         *)
  killing,               (* the session KillSession is at, or None         *)
  pc,                    (* where each client is                           *)
  at,                    (* the stream it has come to                      *)
  bucket                 (* the bucket its output goes to                  *)

objects == <<sSessionMap, live, fRefCount, unreleased>>
sources == <<file, fSetupToReceive, fBroadcasterSession>>
clients == <<attr, played, torndown>>
steps == <<pc, at, bucket>>
vars == <<objects, sources, fOutputArray, clients, killing, steps>>

TypeOK ==
  /\ sSessionMap \in Sessions \cup {None} /\ live \subseteq Sessions
  /\ fRefCount \in [Sessions -> Nat] /\ unreleased \in [Sessions -> Nat]
  /\ file \in BOOLEAN
  /\ fOutputArray \in [Sessions -> [Streams -> SUBSET (Viewers \X Nat)]]
  /\ fSetupToReceive \subseteq Sessions
  /\ fBroadcasterSession \in [Sessions -> Broadcasters \cup {None}]
  /\ attr \in [Clients -> Sessions \cup {None}]
  /\ played \subseteq Broadcasters /\ torndown \subseteq Clients
  /\ killing \in Sessions \cup {None}
  /\ pc \in [Clients -> {"idle", "adding", "undoing", "leaving", "tearing", "dropping"}]
  /\ at \in [Clients -> Streams]
  /\ bucket \in [Viewers -> Nat \cup {NoBucket}]

Init ==
  /\ sSessionMap = None /\ live = {}
  /\ fRefCount = [s \in Sessions |-> 0] /\ unreleased = [s \in Sessions |-> 0]
  /\ file \in BOOLEAN
  /\ fOutputArray = [s \in Sessions |-> [x \in Streams |-> {}]]
  /\ fSetupToReceive = {} /\ fBroadcasterSession = [s \in Sessions |-> None]
  /\ attr = [c \in Clients |-> None] /\ played = {} /\ torndown = {}
  /\ killing = None
  /\ pc = [c \in Clients |-> "idle"] /\ at = [c \in Clients |-> 1]
  /\ bucket = [v \in Viewers |-> NoBucket]

-----------------------------------------------------------------------------
(* sSessionMap *)

(* A broadcaster that was set up and has not sent PLAY uses its session    *)
(* without a reference: what the others do to it then is left out when     *)
(* they are orderly.                                                       *)
Unplayed(s) == {b \in Broadcasters : attr[b] = s /\ b \notin played}
Others(c, s) == Orderly => Unplayed(s) \subseteq {c}

(* The kill files are looked for under the mutex of the map; an ANNOUNCE   *)
(* that kills has it not.                                                  *)
MapIsFree == Orderly => killing = None

Exists(s) == MapIsFree /\ sSessionMap = s /\ s \in Sessions

Resolve(s) == fRefCount' = [fRefCount EXCEPT ![s] = @ + 1]

(* A reference that the caller has no use for, or forgets.                 *)
Lose(s) ==
  /\ unreleased[s] < MaxUnreleased
  /\ unreleased' = [unreleased EXCEPT ![s] = @ + 1]

(* A session is made from the SDP file; a push does not take a reference.  *)
Create(s, references) ==
  /\ MapIsFree /\ sSessionMap = None /\ file /\ s \notin live
  /\ sSessionMap' = s /\ live' = live \cup {s}
  /\ fRefCount' = [fRefCount EXCEPT ![s] = references]

Delete(s) == sSessionMap' = None /\ live' = live \ {s}

Drop_Early(s) ==
  /\ fRefCount' = [fRefCount EXCEPT ![s] = IF @ = 0 THEN 0 ELSE @ - 1]
  /\ IF fRefCount[s] <= 2 THEN Delete(s) ELSE UNCHANGED <<sSessionMap, live>>
  /\ UNCHANGED unreleased

Drop_KeepsLast(s) ==
  /\ fRefCount' = [fRefCount EXCEPT ![s] = IF @ = 0 THEN 0 ELSE @ - 1]
  /\ IF fRefCount[s] = 0 THEN Delete(s) ELSE UNCHANGED <<sSessionMap, live>>
  /\ UNCHANGED unreleased

(* The end of RemoveOutput.                                                *)
Drop(s) ==
  /\ fRefCount' = [fRefCount EXCEPT ![s] = IF @ = 0 THEN 0 ELSE @ - 1]
  /\ IF fRefCount[s] <= 1 THEN Delete(s) ELSE UNCHANGED <<sSessionMap, live>>
  /\ UNCHANGED unreleased

-----------------------------------------------------------------------------
(* A stream's array of outputs *)

Sits(s, x) == {p[1] : p \in fOutputArray[s][x]}
Bucket(s, x, b) == {v \in Viewers : <<v, b>> \in fOutputArray[s][x]}
HasRoom(s, x, b) == Cardinality(Bucket(s, x, b)) < sBucketSize

(* The first bucket with room; more are allocated when there is none.      *)
FindBucket(s, x) ==
  CHOOSE b \in 0 .. Cardinality(Viewers) :
    HasRoom(s, x, b) /\ \A d \in 0 .. b - 1 : ~HasRoom(s, x, d)

PutOutput(s, x, v, b) == fOutputArray' = [fOutputArray EXCEPT ![s][x] = @ \cup {<<v, b>>}]

(* It is taken out of the first bucket it is found in.                     *)
TakeOutput(s, x, v) ==
  fOutputArray' = [fOutputArray EXCEPT ![s][x] =
    {p \in @ : p[1] = v => \E q \in @ : q[1] = v /\ q[2] < p[2]}]

TearDownAllOutputs_FirstBucket(s, x) == Bucket(s, x, 0)

(* The clients whose outputs are told to go.                               *)
TearDownAllOutputs(s, x) == Sits(s, x)

-----------------------------------------------------------------------------
(* Requests that find the session, or make it *)

(* A reference is taken and never given back: by every DESCRIBE, by a      *)
(* SETUP that is refused once the session is found, by a broadcaster's     *)
(* second PLAY.                                                            *)
LoseReference(c) ==
  /\ pc[c] = "idle"
  /\ \E s \in Sessions : Exists(s) /\ Others(c, s) /\ Resolve(s) /\ Lose(s)
  /\ UNCHANGED <<sSessionMap, live, sources, fOutputArray, clients, killing, steps>>

DescribeNew(v) ==
  /\ pc[v] = "idle" /\ attr[v] = None
  /\ \E s \in Sessions : Create(s, 1) /\ Lose(s)
  /\ UNCHANGED <<sources, fOutputArray, clients, killing, steps>>

Begin(c, step) == pc' = [pc EXCEPT ![c] = step] /\ at' = [at EXCEPT ![c] = 1]

(* A viewer's first SETUP: its output is to be put into the streams.       *)
Setup(v) ==
  /\ pc[v] = "idle" /\ attr[v] = None
  /\ \E s \in Sessions :
       /\ \/ Exists(s) /\ Others(v, s) /\ file /\ Resolve(s) /\ UNCHANGED <<sSessionMap, live>>
          \/ Create(s, 1)
       /\ attr' = [attr EXCEPT ![v] = s]
  /\ Begin(v, "adding") /\ bucket' = [bucket EXCEPT ![v] = NoBucket]
  /\ UNCHANGED <<unreleased, sources, fOutputArray, played, torndown, killing>>

SetupPush_Keeps(b) ==
  /\ pc[b] = "idle" /\ attr[b] = None
  /\ \E s \in Sessions \ fSetupToReceive :
       /\ \/ Exists(s) /\ Others(b, s) /\ file /\ Resolve(s) /\ UNCHANGED <<sSessionMap, live>>
          \/ Create(s, 0)
       /\ attr' = [attr EXCEPT ![b] = s]
       /\ fSetupToReceive' = fSetupToReceive \cup {s}
       /\ fBroadcasterSession' = [fBroadcasterSession EXCEPT ![s] = b]
  /\ UNCHANGED <<unreleased, file, fOutputArray, played, torndown, killing, steps>>

(* A broadcaster's: a session that is found is released at once, and one   *)
(* that receives already is refused.                                       *)
SetupPush(b) ==
  /\ pc[b] = "idle" /\ attr[b] = None
  /\ \E s \in Sessions \ fSetupToReceive :
       /\ \/ Exists(s) /\ Others(b, s) /\ file /\ UNCHANGED <<sSessionMap, live, fRefCount>>
          \/ Create(s, 0)
       /\ attr' = [attr EXCEPT ![b] = s]
       /\ fSetupToReceive' = fSetupToReceive \cup {s}
       /\ fBroadcasterSession' = [fBroadcasterSession EXCEPT ![s] = b]
  /\ UNCHANGED <<unreleased, file, fOutputArray, played, torndown, killing, steps>>

(* With its PLAY the broadcaster takes its reference.                      *)
PlayPush(b) ==
  /\ pc[b] = "idle" /\ b \notin played
  /\ \E s \in Sessions : attr[b] = s /\ Exists(s) /\ Resolve(s)
  /\ played' = played \cup {b}
  /\ UNCHANGED <<sSessionMap, live, unreleased, sources, fOutputArray, attr, torndown, killing, steps>>

(* ANNOUNCE writes the SDP file.                                           *)
Announce ==
  /\ ~file /\ file' = TRUE
  /\ UNCHANGED <<objects, fSetupToReceive, fBroadcasterSession, fOutputArray, clients, killing, steps>>

-----------------------------------------------------------------------------
(* AddOutput: the same bucket of every stream *)

Chosen(v) == IF bucket[v] = NoBucket THEN FindBucket(attr[v], at[v]) ELSE bucket[v]
Fits(v) == HasRoom(attr[v], at[v], Chosen(v))

AddOutput(v) ==
  /\ pc[v] = "adding" /\ Fits(v)
  /\ PutOutput(attr[v], at[v], v, Chosen(v))
  /\ bucket' = [bucket EXCEPT ![v] = Chosen(v)]
  /\ IF at[v] = NumStreams THEN Begin(v, "idle")
                           ELSE at' = [at EXCEPT ![v] = @ + 1] /\ UNCHANGED pc
  /\ UNCHANGED <<objects, sources, clients, killing>>

AddOutputFails_KeepsOthers(v) ==
  /\ pc[v] = "adding" /\ ~Fits(v)
  /\ Begin(v, "adding") /\ bucket' = [bucket EXCEPT ![v] = @ + 1]
  /\ UNCHANGED <<objects, sources, fOutputArray, clients, killing>>

(* A bucket that is full in one stream is given up in those before it.     *)
AddOutputFails(v) ==
  /\ pc[v] = "adding" /\ ~Fits(v)
  /\ Begin(v, "undoing")
  /\ UNCHANGED <<objects, sources, fOutputArray, clients, killing, bucket>>

UndoOutput(v) ==
  /\ pc[v] = "undoing" /\ v \in Sits(attr[v], at[v])
  /\ TakeOutput(attr[v], at[v], v)
  /\ at' = [at EXCEPT ![v] = @ + 1]
  /\ UNCHANGED <<objects, sources, clients, killing, pc, bucket>>

Retry_AnyBucket(v) ==
  /\ pc[v] = "undoing" /\ v \notin Sits(attr[v], at[v])
  /\ Begin(v, "adding") /\ bucket' = [bucket EXCEPT ![v] = NoBucket]
  /\ UNCHANGED <<objects, sources, fOutputArray, clients, killing>>

(* And the next bucket is tried.                                           *)
Retry(v) ==
  /\ pc[v] = "undoing" /\ v \notin Sits(attr[v], at[v])
  /\ Begin(v, "adding") /\ bucket' = [bucket EXCEPT ![v] = @ + 1]
  /\ UNCHANGED <<objects, sources, fOutputArray, clients, killing>>

-----------------------------------------------------------------------------
(* DestroySession and RemoveOutput *)

(* The end of a viewer's RTP session.                                      *)
CloseViewer(v) ==
  /\ pc[v] = "idle" /\ attr[v] # None
  /\ Begin(v, "leaving")
  /\ UNCHANGED <<objects, sources, fOutputArray, clients, killing, bucket>>

RemoveOutput(v) ==
  /\ pc[v] = "leaving"
  /\ TakeOutput(attr[v], at[v], v)
  /\ IF at[v] = NumStreams THEN Begin(v, "dropping")
                           ELSE at' = [at EXCEPT ![v] = @ + 1] /\ UNCHANGED pc
  /\ UNCHANGED <<objects, sources, clients, killing, bucket>>

(* The end of a broadcaster's: an SDP file that was announced is deleted,  *)
(* and the viewers are told to go or not.  One that has not sent PLAY must *)
(* be alone.                                                               *)
CloseBroadcaster(b) ==
  /\ pc[b] = "idle"
  /\ \E s \in Sessions :
       /\ attr[b] = s
       /\ Orderly => b \in played \/ fRefCount[s] = 0
       /\ fSetupToReceive' = fSetupToReceive \ {s}
       /\ fBroadcasterSession' = [fBroadcasterSession EXCEPT ![s] = None]
  /\ file' \in {file, FALSE}
  /\ \E step \in {"tearing", "dropping"} : Begin(b, step)
  /\ UNCHANGED <<objects, fOutputArray, clients, killing, bucket>>

TearDownStream(b) ==
  /\ pc[b] = "tearing"
  /\ torndown' = torndown \cup TearDownAllOutputs(attr[b], at[b])
  /\ IF at[b] = NumStreams THEN Begin(b, "dropping")
                           ELSE at' = [at EXCEPT ![b] = @ + 1] /\ UNCHANGED pc
  /\ UNCHANGED <<objects, sources, fOutputArray, attr, played, killing, bucket>>

(* The end of both: the reference is given back, the last one deletes the  *)
(* session.  The output is deleted.                                        *)
Leave(c) ==
  /\ pc[c] = "dropping"
  /\ MapIsFree /\ Others(c, attr[c])
  /\ Drop(attr[c])
  /\ attr' = [attr EXCEPT ![c] = None]
  /\ played' = played \ {c} /\ torndown' = torndown \ {c}
  /\ Begin(c, "idle")
  /\ bucket' = [v \in Viewers |-> IF v = c THEN NoBucket ELSE bucket[v]]
  /\ UNCHANGED <<sources, fOutputArray, killing>>

-----------------------------------------------------------------------------
(* KillSession *)

(* The reference it takes is the one RemoveOutput gives back.              *)
KillSession ==
  /\ killing = None
  /\ \E s \in Sessions :
       /\ Exists(s) /\ (Orderly => Unplayed(s) = {})
       /\ torndown' = torndown \cup UNION {TearDownAllOutputs(s, x) : x \in Streams}
       /\ killing' = s
  /\ file' \in {file, FALSE}
  /\ UNCHANGED <<objects, fSetupToReceive, fBroadcasterSession, fOutputArray, attr, played, steps>>

KillBroadcaster ==
  /\ killing # None
  /\ torndown' = torndown \cup ({fBroadcasterSession[killing]} \ {None})
  /\ killing' = None
  /\ UNCHANGED <<objects, sources, fOutputArray, attr, played, steps>>

-----------------------------------------------------------------------------
(* What a task thread does next for a client.                              *)
Step(c) ==
  \/ c \in Viewers /\ (AddOutput(c) \/ AddOutputFails(c) \/ UndoOutput(c) \/ Retry(c) \/ RemoveOutput(c))
  \/ c \in Broadcasters /\ TearDownStream(c)

Close(c) ==
  \/ c \in Viewers /\ CloseViewer(c)
  \/ c \in Broadcasters /\ CloseBroadcaster(c)

Next ==
  \/ \E v \in Viewers : DescribeNew(v) \/ Setup(v)
  \/ \E b \in Broadcasters : SetupPush(b) \/ PlayPush(b)
  \/ \E c \in Clients : LoseReference(c) \/ Step(c) \/ Close(c) \/ Leave(c)
  \/ Announce \/ KillSession \/ KillBroadcaster

Spec == Init /\ [][Next]_vars

(* The task threads go on with what they began and get the mutex of the    *)
(* map in the end; a client told to go goes; a broadcaster that was set up *)
(* sends PLAY.                                                             *)
FairSpec ==
  /\ Spec
  /\ \A c \in Clients : WF_vars(Step(c) \/ (c \in torndown /\ Close(c))) /\ SF_vars(Leave(c))
  /\ WF_vars(KillBroadcaster \/ \E b \in Broadcasters : PlayPush(b))

-----------------------------------------------------------------------------
(* A session that a client or KillSession is at has not been deleted, and  *)
(* one that is deleted has no output in its streams any more ("Assert      *)
(* (fNumElements == 0)" of ~ReflectorStream), which the socket's thread    *)
(* would go on to use.                                                     *)
NobodyUsesDeleted ==
  /\ \A c \in Clients : attr[c] # None => attr[c] \in live
  /\ killing # None => killing \in live
  /\ \A s \in Sessions \ live : \A x \in Streams : Sits(s, x) = {}

Holders(s) == {v \in Viewers : attr[v] = s} \cup {b \in played : attr[b] = s}

(* The references of a session are those of its viewers, of the            *)
(* broadcasters that sent PLAY, and the lost ones: no path through SETUP,  *)
(* PLAY, the end of a session and KillSession takes or gives one too many. *)
CountIsHolders ==
  \A s \in live : fRefCount[s] = Cardinality(Holders(s)) + unreleased[s]

(* Unless a reference was lost, a session goes with the last client that   *)
(* is at it, and its path can be set up anew.                              *)
LastOneDeletes ==
  \A s \in live : unreleased[s] = 0 => \E c \in Clients : attr[c] = s

(* "We need to make sure that this output goes into the same bucket for    *)
(* each ReflectorStream" (AddOutput): the bucket decides when its packets  *)
(* go out.  No bucket takes more outputs than it has room for, and no      *)
(* output is left behind in a stream.                                      *)
SameBucket ==
  /\ \A v \in Viewers, s \in Sessions, x \in Streams :
       pc[v] = "idle" =>
         {p \in fOutputArray[s][x] : p[1] = v} = IF attr[v] = s THEN {<<v, bucket[v]>>} ELSE {}
  /\ \A s \in Sessions, x \in Streams : \A p \in fOutputArray[s][x] :
       p[2] >= 0 /\ Cardinality(Bucket(s, x, p[2])) <= sBucketSize

(* A viewer gets in whatever the others do: the search for a bucket that   *)
(* is free in all streams ends.                                            *)
ViewerGetsIn == \A v \in Viewers : pc[v] = "adding" ~> pc[v] = "idle"

(* When a broadcaster that takes its viewers with it ends, everyone who    *)
(* watches then goes.                                                      *)
ViewersGo ==
  \A b \in Broadcasters, v \in Viewers :
    pc[b] = "tearing" /\ pc[v] = "idle" /\ attr[v] = attr[b] ~> attr[v] = None
===============================================================================
