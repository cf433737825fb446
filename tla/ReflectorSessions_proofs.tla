------------------------ MODULE ReflectorSessions_proofs ------------------------
(***************************************************************************)
(* Proofs about ReflectorSessions, for any number of clients, sessions,    *)
(* streams and any size of a bucket.  There are two inductive invariants:  *)
(*                                                                         *)
(*   ObjectsOK  who is at a session, who holds a reference to it and when  *)
(*              it is deleted.  It needs clients that are Orderly.         *)
(*   OutputsOK  where the outputs of a viewer are while it comes, tries    *)
(*              another bucket, and goes.  It holds in any case.           *)
(*                                                                         *)
(* That nobody uses a session that is deleted follows from the two.        *)
(***************************************************************************)
EXTENDS ReflectorSessions, FiniteSetTheorems, WellFoundedInduction, TLAPS

(* Viewers and clients are finite sets.                                    *)
LEMMA Finite ==
  /\ IsFiniteSet(Viewers) /\ Cardinality(Viewers) \in Nat
  /\ \A S \in SUBSET Clients : IsFiniteSet(S) /\ Cardinality(S) \in Nat
<1>1. IsFiniteSet(Clients) /\ Viewers \subseteq Clients
  BY ReflectorAssumption DEF Clients
<1> QED BY <1>1, FS_Subset, FS_CardinalityType

(* Sets of clients are finite, so counting them is counting by one.        *)
LEMMA OneMore ==
  ASSUME NEW S \in SUBSET Clients, NEW c, c \notin S
  PROVE  Cardinality(S \cup {c}) = Cardinality(S) + 1
BY Finite, FS_AddElement

LEMMA OneLess ==
  ASSUME NEW S \in SUBSET Clients, NEW c \in S
  PROVE  Cardinality(S \ {c}) = Cardinality(S) - 1 /\ Cardinality(S) > 0
<1>1. Cardinality(S \ {c}) = Cardinality(S) - 1 BY Finite, FS_RemoveElement
<1>2. Cardinality(S \ {c}) \in Nat /\ Cardinality(S) \in Nat BY Finite
<1> QED BY <1>1, <1>2

LEMMA NoMember ==
  ASSUME NEW S \in SUBSET Clients
  PROVE  Cardinality(S) = 0 <=> S = {}
BY Finite, FS_EmptySet

-----------------------------------------------------------------------------
(* The objects and their references                                        *)
ObjectTypes ==
  /\ sSessionMap \in Sessions \cup {None} /\ live \subseteq Sessions
  /\ fRefCount \in [Sessions -> Nat] /\ unreleased \in [Sessions -> Nat]
  /\ file \in BOOLEAN
  /\ fSetupToReceive \subseteq Sessions
  /\ fBroadcasterSession \in [Sessions -> Broadcasters \cup {None}]
  /\ attr \in [Clients -> Sessions \cup {None}]
  /\ played \subseteq Broadcasters
  /\ killing \in Sessions \cup {None}
  /\ pc \in [Clients -> {"idle", "adding", "undoing", "leaving", "tearing", "dropping"}]

(* Only the session in the map is allocated, and what is allocated anew    *)
(* has lost no reference yet.                                              *)
MapOK ==
  /\ live = {sSessionMap} \ {None}
  /\ \A s \in Sessions \ live : unreleased[s] = 0
  /\ killing # None => killing \in live

ClientsOK ==
  \A c \in Clients :
    /\ attr[c] # None => attr[c] \in live
    /\ pc[c] # "idle" \/ c \in played => attr[c] # None
    /\ IF c \in Viewers THEN pc[c] # "tearing" ELSE pc[c] \in {"idle", "tearing", "dropping"}

(* A broadcaster that has not sent PLAY is the only one at its session;    *)
(* when it leaves, nobody else is there.                                   *)
UnplayedOK ==
  \A b \in Broadcasters \ played :
    attr[b] # None =>
      /\ pc[b] # "idle" => fRefCount[attr[b]] = 0
      /\ \A d \in Broadcasters \ played : attr[d] = attr[b] => d = b

ObjectsOK ==
  ObjectTypes /\ MapOK /\ ClientsOK /\ UnplayedOK /\ CountIsHolders /\ LastOneDeletes

LEMMA HoldersType ==
  ASSUME ObjectTypes, NEW s
  PROVE  Holders(s) \in SUBSET Clients /\ Cardinality(Holders(s)) \in Nat
<1>1. Holders(s) \in SUBSET Clients BY DEF Holders, ObjectTypes, Clients
<1> QED BY <1>1, Finite

LEMMA InitObjects == Init => ObjectsOK
BY ReflectorAssumption
   DEF Init, ObjectsOK, ObjectTypes, MapOK, ClientsOK, UnplayedOK, CountIsHolders,
       LastOneDeletes, Clients

(* A step that changes neither the objects nor who is at them.             *)
Apart ==
  /\ UNCHANGED <<objects, attr, played>>
  /\ \A c \in Clients :
       /\ pc'[c] # "idle" => attr[c] # None
       /\ IF c \in Viewers THEN pc'[c] # "tearing" ELSE pc'[c] \in {"idle", "tearing", "dropping"}
       /\ c \in Broadcasters \ played /\ pc[c] = "idle" /\ pc'[c] # "idle"
            => fRefCount[attr[c]] = 0
  /\ killing' # None => killing' \in live

LEMMA ApartKeeps ==
  ASSUME ObjectsOK, ObjectTypes', Apart
  PROVE  ObjectsOK'
<1>1. MapOK' BY DEF ObjectsOK, MapOK, Apart, objects
<1>2. ClientsOK' BY DEF ObjectsOK, ClientsOK, Apart, objects
<1>3. UnplayedOK' BY DEF ObjectsOK, UnplayedOK, Apart, objects, Clients
<1>4. \A s : Holders(s)' = Holders(s) BY DEF Holders, Apart
<1>5. CountIsHolders' BY <1>4 DEF ObjectsOK, CountIsHolders, Apart, objects
<1>6. LastOneDeletes' BY DEF ObjectsOK, LastOneDeletes, Apart, objects
<1> QED BY <1>1, <1>2, <1>3, <1>5, <1>6 DEF ObjectsOK

(* The steps of clients in the streams.                                    *)
LEMMA StreamSteps ==
  ASSUME Orderly, ObjectsOK, NEW c \in Clients,
         \/ c \in Viewers /\ (AddOutput(c) \/ AddOutputFails(c) \/ UndoOutput(c) \/ Retry(c)
                                \/ RemoveOutput(c) \/ CloseViewer(c))
         \/ c \in Broadcasters /\ (TearDownStream(c) \/ CloseBroadcaster(c))
  PROVE  ObjectsOK'
<1>1. ObjectTypes /\ MapOK /\ ClientsOK /\ None \notin Sessions \cup Clients
      /\ Viewers \cap Broadcasters = {}
  BY ReflectorAssumption DEF ObjectsOK
<1>2. CASE c \in Viewers /\ (AddOutput(c) \/ AddOutputFails(c) \/ UndoOutput(c) \/ Retry(c)
                                \/ RemoveOutput(c) \/ CloseViewer(c))
  <2>1. /\ UNCHANGED <<objects, sources, clients, killing>>
        /\ \E p \in {"idle", "adding", "undoing", "leaving", "dropping"} :
             pc' = [pc EXCEPT ![c] = p]
        /\ attr[c] # None
    BY <1>1, <1>2 DEF AddOutput, AddOutputFails, UndoOutput, Retry, RemoveOutput,
       CloseViewer, Begin, ClientsOK, ObjectTypes, objects, sources, clients, PutOutput, TakeOutput
  <2>2. ObjectTypes' BY <1>1, <2>1 DEF ObjectTypes, objects, sources, clients
  <2>3. Apart BY <1>1, <1>2, <2>1 DEF Apart, ObjectTypes, MapOK, ClientsOK, clients, Clients
  <2> QED BY <2>2, <2>3, ApartKeeps
<1>3. CASE c \in Broadcasters /\ TearDownStream(c)
  <2>1. /\ UNCHANGED <<objects, sources, attr, played, killing>>
        /\ pc[c] = "tearing" /\ \E p \in {"tearing", "dropping"} : pc' = [pc EXCEPT ![c] = p]
    BY <1>1, <1>3 DEF TearDownStream, Begin, ObjectTypes
  <2>2. ObjectTypes' BY <1>1, <2>1 DEF ObjectTypes, objects, sources
  <2>3. Apart BY <1>1, <1>3, <2>1 DEF Apart, ObjectTypes, MapOK, ClientsOK, Clients
  <2> QED BY <2>2, <2>3, ApartKeeps
<1>4. CASE c \in Broadcasters /\ CloseBroadcaster(c)
  <2>1. /\ UNCHANGED <<objects, attr, played, killing>>
        /\ pc[c] = "idle" /\ \E p \in {"tearing", "dropping"} : pc' = [pc EXCEPT ![c] = p]
        /\ attr[c] # None /\ (c \in played \/ fRefCount[attr[c]] = 0)
        /\ fSetupToReceive' \subseteq Sessions
        /\ fBroadcasterSession' \in [Sessions -> Broadcasters \cup {None}]
        /\ file' \in BOOLEAN
    <3>1. PICK s \in Sessions :
            /\ pc[c] = "idle" /\ attr[c] = s /\ (Orderly => c \in played \/ fRefCount[s] = 0)
            /\ fSetupToReceive' = fSetupToReceive \ {s}
            /\ fBroadcasterSession' = [fBroadcasterSession EXCEPT ![s] = None]
      BY <1>4 DEF CloseBroadcaster
    <3>2. \E p \in {"tearing", "dropping"} : pc' = [pc EXCEPT ![c] = p]
      BY <1>4 DEF CloseBroadcaster, Begin
    <3>3. UNCHANGED <<objects, attr, played, killing>> /\ file' \in BOOLEAN
      BY <1>1, <1>4 DEF CloseBroadcaster, clients, ObjectTypes
    <3> QED BY <1>1, <3>1, <3>2, <3>3 DEF ObjectTypes
  <2>2. ObjectTypes' BY <1>1, <2>1 DEF ObjectTypes, objects
  <2>3. Apart BY <1>1, <1>4, <2>1 DEF Apart, ObjectTypes, MapOK, ClientsOK, Clients
  <2> QED BY <2>2, <2>3, ApartKeeps
<1> QED BY <1>2, <1>3, <1>4

LEMMA KillSteps ==
  ASSUME Orderly, ObjectsOK, Announce \/ KillSession \/ KillBroadcaster
  PROVE  ObjectsOK'
<1>1. ObjectTypes /\ MapOK /\ ClientsOK /\ None \notin Sessions
  BY ReflectorAssumption DEF ObjectsOK
<1>2. /\ UNCHANGED <<objects, fSetupToReceive, fBroadcasterSession, attr, played, steps>>
      /\ file' \in BOOLEAN /\ (killing' = killing \/ killing' = None \/ killing' = sSessionMap)
  BY <1>1 DEF Announce, KillSession, KillBroadcaster, Exists, sources, clients, ObjectTypes
<1>3. ObjectTypes' BY <1>1, <1>2 DEF ObjectTypes, objects, steps
<1>4. Apart BY <1>1, <1>2 DEF Apart, ObjectTypes, MapOK, ClientsOK, Clients, steps
<1> QED BY <1>3, <1>4, ApartKeeps

(* A reference is taken, by a client or by nobody.                         *)
LEMMA LoseReferenceKeeps ==
  ASSUME Orderly, ObjectsOK, NEW c \in Clients, LoseReference(c)
  PROVE  ObjectsOK'
<1>1. ObjectTypes /\ MapOK /\ ClientsOK /\ UnplayedOK /\ CountIsHolders /\ LastOneDeletes
  BY DEF ObjectsOK
<1>2. PICK s \in Sessions :
        /\ sSessionMap = s /\ Unplayed(s) \subseteq {c} /\ pc[c] = "idle"
        /\ fRefCount' = [fRefCount EXCEPT ![s] = @ + 1]
        /\ unreleased' = [unreleased EXCEPT ![s] = @ + 1]
  BY DEF LoseReference, Exists, Others, Resolve, Lose
<1>3. UNCHANGED <<sSessionMap, live, sources, clients, killing, pc>>
  BY DEF LoseReference, steps
<1>4. s \in live BY <1>1, <1>2, ReflectorAssumption DEF MapOK
<1>5. ObjectTypes' BY <1>1, <1>2, <1>3 DEF ObjectTypes, sources, clients
<1>6. MapOK' BY <1>1, <1>2, <1>3, <1>4 DEF MapOK, ObjectTypes
<1>7. ClientsOK' BY <1>1, <1>3 DEF ClientsOK, clients
<1>8. UnplayedOK' BY <1>1, <1>2, <1>3 DEF UnplayedOK, ObjectTypes, Unplayed, clients
<1>9. \A t : Holders(t)' = Holders(t) BY <1>3 DEF Holders, clients
<1>10. CountIsHolders'
  <2>1. \A t \in Sessions : Cardinality(Holders(t)) \in Nat BY <1>1, HoldersType
  <2> QED BY <1>1, <1>2, <1>3, <1>9, <2>1 DEF CountIsHolders, ObjectTypes
<1>11. LastOneDeletes' BY <1>1, <1>2, <1>3 DEF LastOneDeletes, ObjectTypes, clients
<1> QED BY <1>5, <1>6, <1>7, <1>8, <1>10, <1>11 DEF ObjectsOK

(* While nothing is in the map, nobody is anywhere.                        *)
LEMMA NobodyThere ==
  ASSUME ObjectsOK, sSessionMap = None
  PROVE  /\ live = {} /\ \A c \in Clients : attr[c] = None
         /\ \A s \in Sessions : Holders(s) = {} /\ unreleased[s] = 0
<1>1. live = {} /\ \A s \in Sessions : unreleased[s] = 0 BY DEF ObjectsOK, MapOK
<1>2. \A c \in Clients : attr[c] = None BY <1>1 DEF ObjectsOK, ClientsOK
<1>3. \A s \in Sessions : Holders(s) = {}
  BY <1>2, ReflectorAssumption DEF Holders, ObjectsOK, ObjectTypes, Clients
<1> QED BY <1>1, <1>2, <1>3

LEMMA DescribeNewKeeps ==
  ASSUME Orderly, ObjectsOK, NEW v \in Viewers, DescribeNew(v)
  PROVE  ObjectsOK'
<1>1. ObjectTypes /\ ClientsOK /\ None \notin Sessions
  BY ReflectorAssumption DEF ObjectsOK
<1>2. PICK s \in Sessions :
        /\ sSessionMap = None /\ sSessionMap' = s /\ live' = live \cup {s}
        /\ fRefCount' = [fRefCount EXCEPT ![s] = 1]
        /\ unreleased' = [unreleased EXCEPT ![s] = @ + 1] /\ killing = None
  BY DEF DescribeNew, Create, Lose, MapIsFree
<1>3. UNCHANGED <<sources, clients, killing, pc>> BY DEF DescribeNew, steps
<1>4. /\ live = {} /\ \A c \in Clients : attr[c] = None
      /\ \A t \in Sessions : Holders(t) = {} /\ unreleased[t] = 0
  BY <1>2, NobodyThere
<1>5. ObjectTypes' BY <1>1, <1>2, <1>3 DEF ObjectTypes, sources, clients
<1>6. MapOK' BY <1>1, <1>2, <1>3, <1>4 DEF MapOK, ObjectTypes
<1>7. ClientsOK' BY <1>1, <1>3, <1>4 DEF ClientsOK, clients
<1>8. UnplayedOK' BY <1>3, <1>4 DEF UnplayedOK, clients, Clients
<1>9. \A t : Holders(t)' = Holders(t) BY <1>3 DEF Holders, clients
<1>10. CountIsHolders'
  BY <1>1, <1>2, <1>4, <1>9, FS_EmptySet DEF CountIsHolders, ObjectTypes
<1>11. LastOneDeletes' BY <1>1, <1>2, <1>4 DEF LastOneDeletes, ObjectTypes
<1> QED BY <1>5, <1>6, <1>7, <1>8, <1>10, <1>11 DEF ObjectsOK

(* A client gets to a session, that is there or that it makes, with a      *)
(* reference if it is to hold one.                                         *)
Arrives(c, s, n) ==
  /\ attr[c] = None /\ attr' = [attr EXCEPT ![c] = s] /\ played' = played
  /\ pc[c] = "idle" /\ pc' = [pc EXCEPT ![c] = IF c \in Viewers THEN "adding" ELSE "idle"]
  /\ UNCHANGED <<unreleased, killing>>
  /\ \/ /\ sSessionMap = s /\ Unplayed(s) \subseteq {c}
        /\ fRefCount' = [fRefCount EXCEPT ![s] = @ + n]
        /\ UNCHANGED <<sSessionMap, live>>
     \/ /\ sSessionMap = None /\ sSessionMap' = s /\ live' = live \cup {s} /\ killing = None
        /\ fRefCount' = [fRefCount EXCEPT ![s] = n]

LEMMA ArrivesKeeps ==
  ASSUME ObjectsOK, NEW c \in Clients, NEW s \in Sessions,
         Arrives(c, s, IF c \in Viewers THEN 1 ELSE 0),
         file' \in BOOLEAN, fSetupToReceive' \subseteq Sessions,
         fBroadcasterSession' \in [Sessions -> Broadcasters \cup {None}]
  PROVE  ObjectsOK'
<1> DEFINE n == IF c \in Viewers THEN 1 ELSE 0
<1>1. /\ ObjectTypes /\ MapOK /\ ClientsOK /\ UnplayedOK /\ CountIsHolders
      /\ LastOneDeletes /\ None \notin Sessions /\ Viewers \cap Broadcasters = {} /\ n \in Nat
  BY ReflectorAssumption DEF ObjectsOK
<1>2. /\ attr[c] = None /\ c \notin played /\ attr' = [attr EXCEPT ![c] = s] /\ played' = played
      /\ pc' = [pc EXCEPT ![c] = IF c \in Viewers THEN "adding" ELSE "idle"]
      /\ UNCHANGED <<unreleased, killing>>
  BY <1>1 DEF Arrives, ClientsOK
<1>3. Holders(s)' = (IF c \in Viewers THEN Holders(s) \cup {c} ELSE Holders(s)) /\ c \notin Holders(s)
  BY <1>1, <1>2 DEF Holders, ObjectTypes, Clients
<1>4. Cardinality(Holders(s)') = Cardinality(Holders(s)) + n /\ Cardinality(Holders(s)) \in Nat
  BY <1>1, <1>3, HoldersType, OneMore
<1>5. \A t \in Sessions : t # s => Holders(t)' = Holders(t)
  BY <1>1, <1>2 DEF Holders, ObjectTypes, Clients
<1>6. CASE sSessionMap = s
  <2>1. /\ Unplayed(s) \subseteq {c} /\ UNCHANGED <<sSessionMap, live>> /\ s \in live
        /\ fRefCount' = [fRefCount EXCEPT ![s] = @ + n]
    BY <1>1, <1>6 DEF Arrives, MapOK
  <2>2. ObjectTypes' BY <1>1, <1>2, <2>1 DEF ObjectTypes
  <2>3. MapOK' BY <1>1, <1>2, <2>1 DEF MapOK
  <2>4. ClientsOK' BY <1>1, <1>2, <2>1 DEF ClientsOK, ObjectTypes, Clients
  <2>5. UnplayedOK'
    <3>1. \A b \in Broadcasters \ played : attr[b] = s => b = c
      BY <2>1 DEF Unplayed
    <3> HIDE DEF n
    <3>2. ASSUME NEW b \in Broadcasters \ played, attr'[b] # None
          PROVE  /\ pc'[b] # "idle" => fRefCount'[attr'[b]] = 0
                 /\ \A d \in Broadcasters \ played : attr'[d] = attr'[b] => d = b
      <4>1. CASE b = c
        BY <1>1, <1>2, <3>1, <4>1 DEF ObjectTypes, Clients
      <4>2. CASE b # c
        <5>1. attr'[b] = attr[b] /\ attr[b] # s /\ pc'[b] = pc[b] /\ attr[b] \in Sessions
          BY <1>1, <1>2, <3>1, <3>2, <4>2 DEF ObjectTypes, Clients
        <5>2. fRefCount'[attr[b]] = fRefCount[attr[b]] BY <1>1, <2>1, <5>1 DEF ObjectTypes
        <5> QED BY <1>1, <1>2, <4>2, <5>1, <5>2 DEF UnplayedOK, ObjectTypes, Clients
      <4> QED BY <4>1, <4>2
    <3> QED BY <1>2, <3>2 DEF UnplayedOK
  <2>6. CountIsHolders'
    <3> HIDE DEF n
    <3> QED BY <1>1, <1>2, <1>4, <1>5, <2>1 DEF CountIsHolders, ObjectTypes
  <2>7. LastOneDeletes' BY <1>1, <1>2, <2>1 DEF LastOneDeletes, ObjectTypes
  <2> QED BY <2>2, <2>3, <2>4, <2>5, <2>6, <2>7 DEF ObjectsOK
<1>7. CASE sSessionMap = None
  <2>1. /\ sSessionMap' = s /\ live' = live \cup {s} /\ killing = None
        /\ fRefCount' = [fRefCount EXCEPT ![s] = n]
    BY <1>1, <1>7 DEF Arrives
  <2>2. /\ live = {} /\ \A d \in Clients : attr[d] = None
        /\ \A t \in Sessions : Holders(t) = {} /\ unreleased[t] = 0
    BY <1>7, NobodyThere
  <2>3. ObjectTypes' BY <1>1, <1>2, <2>1 DEF ObjectTypes
  <2>4. MapOK' BY <1>1, <1>2, <2>1, <2>2 DEF MapOK
  <2>5. ClientsOK' BY <1>1, <1>2, <2>1, <2>2 DEF ClientsOK, ObjectTypes, Clients
  <2>6. UnplayedOK' BY <1>1, <1>2, <2>2 DEF UnplayedOK, ObjectTypes, Clients, ClientsOK
  <2>7. CountIsHolders'
    <3>1. Cardinality(Holders(s)) = 0 BY <2>2, FS_EmptySet
    <3> HIDE DEF n
    <3> QED BY <1>1, <1>2, <1>4, <2>1, <2>2, <3>1 DEF CountIsHolders, ObjectTypes
  <2>8. LastOneDeletes' BY <1>1, <1>2, <2>1, <2>2 DEF LastOneDeletes, ObjectTypes
  <2> QED BY <2>3, <2>4, <2>5, <2>6, <2>7, <2>8 DEF ObjectsOK
<1> QED BY <1>6, <1>7 DEF Arrives

LEMMA SetupKeeps ==
  ASSUME Orderly, ObjectsOK, NEW c \in Clients,
         (c \in Viewers /\ Setup(c)) \/ (c \in Broadcasters /\ SetupPush(c))
  PROVE  ObjectsOK'
<1>1. ObjectTypes /\ MapOK /\ None \notin Sessions /\ Viewers \cap Broadcasters = {}
  BY ReflectorAssumption DEF ObjectsOK
<1>2. CASE c \in Viewers /\ Setup(c)
  <2>1. PICK s \in Sessions :
          /\ \/ Exists(s) /\ Others(c, s) /\ file /\ Resolve(s) /\ UNCHANGED <<sSessionMap, live>>
             \/ Create(s, 1)
          /\ attr' = [attr EXCEPT ![c] = s]
    BY <1>2 DEF Setup
  <2>2. Arrives(c, s, 1)
    BY <1>1, <1>2, <2>1 DEF Setup, Arrives, Exists, Others, Resolve, Create, MapIsFree, Begin
  <2>3. UNCHANGED sources BY <1>2 DEF Setup
  <2> QED BY <1>1, <1>2, <2>2, <2>3, ArrivesKeeps DEF ObjectTypes, sources
<1>3. CASE c \in Broadcasters /\ SetupPush(c)
  <2>1. PICK s \in Sessions \ fSetupToReceive :
          /\ \/ Exists(s) /\ Others(c, s) /\ file /\ UNCHANGED <<sSessionMap, live, fRefCount>>
             \/ Create(s, 0)
          /\ attr' = [attr EXCEPT ![c] = s]
          /\ fSetupToReceive' = fSetupToReceive \cup {s}
          /\ fBroadcasterSession' = [fBroadcasterSession EXCEPT ![s] = c]
    BY <1>3 DEF SetupPush
  <2>2. c \notin Viewers BY <1>1, <1>3
  <2>3. Arrives(c, s, 0)
    <3>1. [fRefCount EXCEPT ![s] = @ + 0] = fRefCount BY <1>1 DEF ObjectTypes
    <3>2. pc[c] = "idle" /\ pc' = [pc EXCEPT ![c] = "idle"]
      BY <1>1, <1>3 DEF SetupPush, steps, ObjectTypes
    <3> QED
      BY <1>1, <1>3, <2>1, <2>2, <3>1, <3>2
         DEF SetupPush, Arrives, Exists, Others, Create, MapIsFree
  <2>4. fBroadcasterSession' \in [Sessions -> Broadcasters \cup {None}]
    BY <1>1, <1>3, <2>1 DEF ObjectTypes
  <2>5. file' = file /\ fSetupToReceive' \subseteq Sessions
    BY <1>1, <1>3, <2>1 DEF SetupPush, ObjectTypes
  <2> QED BY <1>1, <2>2, <2>3, <2>4, <2>5, ArrivesKeeps DEF ObjectTypes
<1> QED BY <1>2, <1>3

LEMMA PlayPushKeeps ==
  ASSUME Orderly, ObjectsOK, NEW b \in Broadcasters, PlayPush(b)
  PROVE  ObjectsOK'
<1>1. /\ ObjectTypes /\ MapOK /\ ClientsOK /\ UnplayedOK /\ CountIsHolders
      /\ LastOneDeletes /\ None \notin Sessions /\ Viewers \cap Broadcasters = {} /\ b \in Clients
  BY ReflectorAssumption DEF ObjectsOK, Clients
<1>2. PICK s \in Sessions : attr[b] = s /\ Exists(s) /\ Resolve(s)
  BY DEF PlayPush
<1>3. /\ pc[b] = "idle" /\ b \notin played /\ played' = played \cup {b}
      /\ fRefCount' = [fRefCount EXCEPT ![s] = @ + 1] /\ s \in live
      /\ UNCHANGED <<sSessionMap, live, unreleased, sources, attr, killing, pc>>
  BY <1>1, <1>2 DEF PlayPush, Exists, Resolve, MapOK, steps
<1>4. ObjectTypes' BY <1>1, <1>3 DEF ObjectTypes, sources
<1>5. MapOK' BY <1>1, <1>3 DEF MapOK
<1>6. ClientsOK' BY <1>1, <1>2, <1>3 DEF ClientsOK
<1>7. \A d \in Broadcasters \ played : attr[d] = s => d = b
  BY <1>1, <1>2, <1>3 DEF UnplayedOK
<1>8. UnplayedOK' BY <1>1, <1>2, <1>3, <1>7 DEF UnplayedOK, ObjectTypes, Clients
<1>9. Holders(s)' = Holders(s) \cup {b} /\ b \notin Holders(s)
  BY <1>1, <1>2, <1>3 DEF Holders
<1>10. \A t \in Sessions : t # s => Holders(t)' = Holders(t) BY <1>2, <1>3 DEF Holders
<1>11. Cardinality(Holders(s)') = Cardinality(Holders(s)) + 1 /\ Cardinality(Holders(s)) \in Nat
  BY <1>1, <1>9, HoldersType, OneMore
<1>12. CountIsHolders' BY <1>1, <1>3, <1>10, <1>11 DEF CountIsHolders, ObjectTypes
<1>13. LastOneDeletes' BY <1>1, <1>3 DEF LastOneDeletes
<1> QED BY <1>4, <1>5, <1>6, <1>8, <1>12, <1>13 DEF ObjectsOK

(* Who leaves gives back its reference.  The session is deleted with the   *)
(* last one, when nobody else is there.                                    *)
LEMMA LeaveKeeps ==
  ASSUME Orderly, ObjectsOK, NEW c \in Clients, Leave(c)
  PROVE  ObjectsOK'
<1>1. /\ ObjectTypes /\ MapOK /\ ClientsOK /\ UnplayedOK /\ CountIsHolders
      /\ LastOneDeletes /\ None \notin Sessions /\ Viewers \cap Broadcasters = {}
  BY ReflectorAssumption DEF ObjectsOK
<1>0. PICK s : s = attr[c] OBVIOUS
<1>2. /\ pc[c] = "dropping" /\ killing = None /\ Unplayed(s) \subseteq {c} /\ Drop(s)
      /\ attr' = [attr EXCEPT ![c] = None] /\ played' = played \ {c}
      /\ pc' = [pc EXCEPT ![c] = "idle"]
      /\ UNCHANGED <<sources, killing>>
  BY <1>0 DEF Leave, MapIsFree, Others, Begin
<1>3. s \in Sessions /\ s \in live /\ sSessionMap = s /\ attr[c] = s
  BY <1>0, <1>1, <1>2 DEF ClientsOK, MapOK, ObjectTypes
<1>4. /\ fRefCount[s] \in Nat /\ unreleased[s] \in Nat /\ Cardinality(Holders(s)) \in Nat
      /\ fRefCount[s] = Cardinality(Holders(s)) + unreleased[s]
      /\ Holders(s) \in SUBSET Clients
  BY <1>1, <1>3, HoldersType DEF ObjectTypes, CountIsHolders
<1>5. Holders(s)' = Holders(s) \ {c} /\ \A t \in Sessions : t # s => Holders(t)' = Holders(t)
  <2>1. /\ \A d \in Clients : attr'[d] = IF d = c THEN None ELSE attr[d]
        /\ Viewers \subseteq Clients /\ played \subseteq Clients
    BY <1>1, <1>2 DEF ObjectTypes, Clients
  <2>2. Holders(s)' = Holders(s) \ {c} BY <1>1, <1>2, <1>3, <2>1 DEF Holders
  <2>3. \A t \in Sessions : t # s => Holders(t)' = Holders(t)
    BY <1>1, <1>2, <1>3, <2>1 DEF Holders
  <2> QED BY <2>2, <2>3
<1>6. c \notin Holders(s) => c \in Broadcasters \ played
  BY <1>1, <1>3 DEF Holders, Clients
<1>7. \A d \in Clients : attr[d] = s /\ d # c => d \in Holders(s)
  BY <1>2 DEF Holders, Unplayed, Clients
<1>8. UNCHANGED unreleased BY <1>2 DEF Drop
<1>9. fRefCount' = [fRefCount EXCEPT ![s] = IF @ = 0 THEN 0 ELSE @ - 1] BY <1>2 DEF Drop
<1>10. UnplayedOK'
  <2>1. ASSUME NEW b \in Broadcasters \ played', attr'[b] # None
        PROVE  /\ b \in Broadcasters \ played /\ attr'[b] = attr[b] /\ pc'[b] = pc[b]
               /\ attr[b] # s /\ attr[b] \in Sessions /\ fRefCount'[attr[b]] = fRefCount[attr[b]]
    <3>1. b # c /\ b \in Clients BY <1>1, <1>2, <2>1 DEF ObjectTypes, Clients
    <3>2. b \in Broadcasters \ played /\ attr'[b] = attr[b] /\ pc'[b] = pc[b]
      BY <1>1, <1>2, <2>1, <3>1 DEF ObjectTypes
    <3>3. attr[b] # s BY <1>2, <3>1, <3>2 DEF Unplayed
    <3>4. attr[b] \in Sessions BY <1>1, <2>1, <3>1, <3>2 DEF ObjectTypes
    <3> QED BY <1>1, <1>9, <3>2, <3>3, <3>4 DEF ObjectTypes
  <2> QED BY <1>1, <2>1 DEF UnplayedOK
<1>11. CASE fRefCount[s] <= 1
  <2>1. sSessionMap' = None /\ live' = live \ {s} BY <1>2, <1>11 DEF Drop, Delete
  <2>2. unreleased[s] = 0 /\ \A d \in Clients : attr[d] = s => d = c
    <3>1. CASE c \in Holders(s)
      <4>1. Cardinality(Holders(s) \ {c}) = Cardinality(Holders(s)) - 1 /\ Cardinality(Holders(s)) > 0
        BY <1>4, <3>1, OneLess
      <4>2. unreleased[s] = 0 /\ Cardinality(Holders(s) \ {c}) = 0 BY <1>4, <1>11, <4>1
      <4>3. Holders(s) \ {c} = {} BY <1>4, <4>2, NoMember
      <4> QED BY <1>7, <4>2, <4>3
    <3>2. CASE c \notin Holders(s)
      <4>1. fRefCount[s] = 0 BY <1>1, <1>2, <1>3, <1>6, <3>2 DEF UnplayedOK
      <4>2. unreleased[s] = 0 /\ Cardinality(Holders(s)) = 0 BY <1>4, <4>1
      <4>3. Holders(s) = {} BY <1>4, <4>2, NoMember
      <4> QED BY <1>7, <4>2, <4>3
    <3> QED BY <3>1, <3>2
  <2>3. live' = {} BY <1>1, <1>3, <2>1 DEF MapOK
  <2>4. ObjectTypes' BY <1>1, <1>2, <1>3, <1>8, <1>9, <2>1 DEF ObjectTypes, sources
  <2>5. MapOK' BY <1>1, <1>2, <1>3, <1>8, <2>1, <2>2, <2>3 DEF MapOK
  <2>6. ClientsOK'
    <3>1. ASSUME NEW d \in Clients PROVE attr'[d] = None
      BY <1>1, <1>2, <1>3, <2>2 DEF ClientsOK, MapOK, ObjectTypes
    <3>2. \A d \in Clients : attr[d] = None \/ d = c
      BY <1>1, <1>3, <2>2 DEF ClientsOK, MapOK
    <3> QED BY <1>1, <1>2, <3>1, <3>2 DEF ClientsOK, ObjectTypes, Clients
  <2>7. CountIsHolders' /\ LastOneDeletes' BY <2>3 DEF CountIsHolders, LastOneDeletes
  <2> QED BY <1>10, <2>4, <2>5, <2>6, <2>7 DEF ObjectsOK
<1>12. CASE ~(fRefCount[s] <= 1)
  <2>1. UNCHANGED <<sSessionMap, live>> BY <1>2, <1>12 DEF Drop
  <2>2. c \in Holders(s)
    <3>1. c \notin Holders(s) => fRefCount[s] = 0
      BY <1>1, <1>2, <1>3, <1>6 DEF UnplayedOK
    <3> QED BY <1>12, <3>1
  <2>3. Cardinality(Holders(s)') = Cardinality(Holders(s)) - 1 BY <1>4, <1>5, <2>2, OneLess
  <2>4. ObjectTypes' BY <1>1, <1>2, <1>3, <1>8, <1>9, <2>1 DEF ObjectTypes, sources
  <2>5. MapOK' BY <1>1, <1>2, <1>8, <2>1 DEF MapOK
  <2>6. ClientsOK' BY <1>1, <1>2, <2>1 DEF ClientsOK, ObjectTypes
  <2>7. fRefCount'[s] = fRefCount[s] - 1 /\ unreleased'[s] = unreleased[s]
        /\ \A t \in Sessions : t # s => fRefCount'[t] = fRefCount[t]
    BY <1>1, <1>3, <1>4, <1>8, <1>9, <1>12 DEF ObjectTypes
  <2>8. CountIsHolders'
    <3>1. fRefCount'[s] = Cardinality(Holders(s)') + unreleased'[s] BY <1>4, <2>3, <2>7
    <3>2. ASSUME NEW t \in live, t # s
          PROVE  fRefCount'[t] = Cardinality(Holders(t)') + unreleased'[t]
      <4>1. t \in Sessions /\ fRefCount[t] = Cardinality(Holders(t)) + unreleased[t]
        BY <1>1 DEF CountIsHolders, ObjectTypes
      <4> QED BY <1>5, <1>8, <2>7, <3>2, <4>1
    <3> QED BY <2>1, <3>1, <3>2 DEF CountIsHolders
  <2>9. LastOneDeletes'
    <3>1. ASSUME unreleased[s] = 0 PROVE \E d \in Clients : attr'[d] = s
      <4>1. Cardinality(Holders(s) \ {c}) # 0 BY <1>4, <1>5, <1>12, <2>3, <3>1
      <4>2. PICK d \in Holders(s) \ {c} : TRUE BY <4>1, FS_EmptySet
      <4> QED BY <1>1, <1>2, <1>4, <4>2 DEF Holders, ObjectTypes
    <3>2. ASSUME NEW t \in live, t # s PROVE FALSE BY <1>1, <1>3, <3>2 DEF MapOK
    <3> QED BY <1>8, <2>1, <3>1, <3>2 DEF LastOneDeletes
  <2> QED BY <1>10, <2>4, <2>5, <2>6, <2>8, <2>9 DEF ObjectsOK
<1> QED BY <1>11, <1>12

LEMMA NextObjects ==
  ASSUME Orderly
  PROVE  ObjectsOK /\ [Next]_vars => ObjectsOK'
<1> SUFFICES ASSUME ObjectsOK, [Next]_vars PROVE ObjectsOK' OBVIOUS
<1>1. CASE UNCHANGED vars
  <2>1. ObjectTypes' BY <1>1 DEF ObjectsOK, ObjectTypes, vars, objects, sources, clients, steps
  <2>2. Apart BY <1>1 DEF Apart, ObjectsOK, ClientsOK, MapOK, vars, clients, steps
  <2> QED BY <2>1, <2>2, ApartKeeps
<1>2. CASE \E v \in Viewers : DescribeNew(v) \/ Setup(v)
  <2>1. PICK v \in Viewers : DescribeNew(v) \/ Setup(v) BY <1>2
  <2>2. v \in Clients BY DEF Clients
  <2>3. CASE DescribeNew(v) BY <2>2, <2>3, DescribeNewKeeps
  <2>4. CASE Setup(v) BY <2>1, <2>2, <2>4, SetupKeeps
  <2> QED BY <2>1, <2>3, <2>4
<1>3. CASE \E b \in Broadcasters : SetupPush(b) \/ PlayPush(b)
  <2>1. PICK b \in Broadcasters : SetupPush(b) \/ PlayPush(b) BY <1>3
  <2>2. b \in Clients BY DEF Clients
  <2>3. CASE SetupPush(b) BY <2>1, <2>2, <2>3, SetupKeeps
  <2>4. CASE PlayPush(b) BY <2>1, <2>4, PlayPushKeeps
  <2> QED BY <2>1, <2>3, <2>4
<1>4. CASE \E c \in Clients : LoseReference(c) \/ Step(c) \/ Close(c) \/ Leave(c)
  BY <1>4, LoseReferenceKeeps, StreamSteps, LeaveKeeps DEF Step, Close
<1>5. CASE Announce \/ KillSession \/ KillBroadcaster
  BY <1>5, KillSteps
<1> QED BY <1>1, <1>2, <1>3, <1>4, <1>5 DEF Next

-----------------------------------------------------------------------------
(* The outputs                                                             *)

(* An output is at the session of its viewer, in the bucket chosen for it. *)
OnlyThere ==
  \A s \in Sessions, x \in Streams : \A p \in fOutputArray[s][x] :
    attr[p[1]] = s /\ p[2] = bucket[p[1]]

(* It is in the streams from one to before another.                        *)
Through(v, lo, hi) ==
  \A x \in Streams : <<v, bucket[v]>> \in fOutputArray[attr[v]][x] <=> lo <= x /\ x < hi

Placed(v) ==
  /\ pc[v] = "idle" /\ attr[v] # None => Through(v, 1, NumStreams + 1)
  /\ pc[v] = "adding" => Through(v, 1, at[v])
  /\ pc[v] = "undoing" => \E hi \in at[v] .. NumStreams : Through(v, at[v], hi)
  /\ pc[v] = "leaving" => Through(v, at[v], NumStreams + 1)
  /\ pc[v] = "dropping" => Through(v, 1, 1)

(* No bucket is over its size.                                             *)
WithinSize ==
  \A s \in Sessions, x \in Streams, b \in Nat : Cardinality(Bucket(s, x, b)) <= sBucketSize

(* Who is busy is at a session.                                            *)
BusySomewhere == \A c \in Clients : pc[c] # "idle" => attr[c] # None

OutputsOK ==
  TypeOK /\ OnlyThere /\ BusySomewhere /\ WithinSize /\ \A v \in Viewers : Placed(v)

LEMMA InitOutputs == Init => OutputsOK
<1> SUFFICES ASSUME Init PROVE OutputsOK OBVIOUS
<1>1. TypeOK BY ReflectorAssumption DEF Init, TypeOK, Streams, Clients
<1>2. OnlyThere /\ BusySomewhere BY DEF Init, OnlyThere, BusySomewhere
<1>3. WithinSize
  <2>1. \A s \in Sessions, x \in Streams, b \in Nat : Bucket(s, x, b) = {}
    BY DEF Init, Bucket
  <2> QED BY <2>1, FS_EmptySet, ReflectorAssumption DEF WithinSize
<1>4. \A v \in Viewers : Placed(v) BY DEF Init, Placed, Clients
<1> QED BY <1>1, <1>2, <1>3, <1>4 DEF OutputsOK

(* Each viewer sits once in a stream.                                      *)
SitsOnce(s, x) ==
  \A p, q \in fOutputArray[s][x] : p[1] = q[1] => p = q

(* A set of numbers that is not empty has a least one.                     *)
LEMMA Least ==
  ASSUME NEW T \in SUBSET Nat, T # {}
  PROVE  \E m \in T : \A n \in T : m <= n
<1>1. PICK m \in T : \A n \in T : ~ (<<n, m>> \in OpToRel(<, Nat))
  BY NatLessThanWellFounded, WFMin, Zenon
<1>2. \A n \in T : ~ (n < m)
  BY <1>1 DEF OpToRel
<1> QED BY <1>2

(* There are more buckets to look at than viewers to fill them.            *)
LEMMA BucketWithRoom ==
  ASSUME NEW s, NEW x, SitsOnce(s, x), fOutputArray[s][x] \subseteq Viewers \X Nat
  PROVE  \E b \in 0 .. Cardinality(Viewers) : HasRoom(s, x, b)
<1> DEFINE N == Cardinality(Viewers)
           f == [b \in 0 .. N |-> CHOOSE v \in Viewers : v \in Bucket(s, x, b)]
<1> SUFFICES ASSUME \A b \in 0 .. N : ~HasRoom(s, x, b)
             PROVE  FALSE
  OBVIOUS
<1>1. N \in Nat /\ IsFiniteSet(Viewers) BY Finite
<1>2. ASSUME NEW b \in 0 .. N
      PROVE  f[b] \in Viewers /\ f[b] \in Bucket(s, x, b)
  <2>1. Bucket(s, x, b) \in SUBSET Clients BY DEF Bucket, Clients
  <2>2. Cardinality(Bucket(s, x, b)) \in Nat BY <2>1, Finite
  <2>3. Cardinality(Bucket(s, x, b)) # 0
    BY <2>2, ReflectorAssumption DEF HasRoom
  <2>4. Bucket(s, x, b) # {} BY <2>3, FS_EmptySet
  <2>5. \E v \in Viewers : v \in Bucket(s, x, b) BY <2>4 DEF Bucket
  <2> QED BY <2>5
<1>3. f \in [0 .. N -> Viewers] BY <1>2
<1>4. IsFiniteSet(0 .. N) /\ Cardinality(0 .. N) = N + 1 BY <1>1, FS_Interval
<1>5. PICK a \in 0 .. N, b \in 0 .. N : a # b /\ f[a] = f[b]
  <2> HIDE DEF f
  <2>1. N < Cardinality(0 .. N) BY <1>1, <1>4
  <2> QED BY <1>1, <1>3, <1>4, <2>1, FS_PigeonHole
<1>6. <<f[a], a>> \in fOutputArray[s][x] /\ <<f[a], b>> \in fOutputArray[s][x]
  BY <1>2, <1>5 DEF Bucket
<1> HIDE DEF f
<1>7. <<f[a], a>>[1] = <<f[a], b>>[1] OBVIOUS
<1>8. <<f[a], a>> = <<f[a], b>> BY <1>6, <1>7 DEF SitsOnce
<1> QED BY <1>5, <1>8

LEMMA FoundBucket ==
  ASSUME NEW s, NEW x, SitsOnce(s, x), fOutputArray[s][x] \subseteq Viewers \X Nat
  PROVE  FindBucket(s, x) \in Nat /\ HasRoom(s, x, FindBucket(s, x))
<1> DEFINE T == {b \in 0 .. Cardinality(Viewers) : HasRoom(s, x, b)}
<1>1. T \in SUBSET Nat /\ T # {} BY BucketWithRoom
<1>2. PICK m \in T : \A n \in T : m <= n BY <1>1, Least
<1>3. m \in 0 .. Cardinality(Viewers) /\ HasRoom(s, x, m) OBVIOUS
<1>4. \A d \in 0 .. m - 1 : ~HasRoom(s, x, d)
  BY <1>2, <1>3, Finite
<1> HIDE DEF T
<1> QED BY <1>3, <1>4 DEF FindBucket

(* Each viewer has one output in a stream at most.                         *)
LEMMA OutputsSitOnce ==
  ASSUME OutputsOK, NEW s \in Sessions, NEW x \in Streams
  PROVE  SitsOnce(s, x) /\ fOutputArray[s][x] \subseteq Viewers \X Nat
<1>1. fOutputArray[s][x] \subseteq Viewers \X Nat BY DEF OutputsOK, TypeOK
<1> QED BY <1>1 DEF OutputsOK, OnlyThere, SitsOnce

(* What a step leaves of a viewer that does not take it.                   *)
Untouched(v) ==
  /\ attr'[v] = attr[v] /\ pc'[v] = pc[v] /\ at'[v] = at[v] /\ bucket'[v] = bucket[v]
  /\ \A s \in Sessions, x \in Streams :
       <<v, bucket[v]>> \in fOutputArray'[s][x] <=> <<v, bucket[v]>> \in fOutputArray[s][x]

LEMMA UntouchedPlaced ==
  ASSUME OutputsOK, NEW v \in Viewers, Untouched(v)
  PROVE  Placed(v)'
<1>1. v \in Clients BY DEF Clients
<1>2. CASE attr[v] = None
  BY <1>1, <1>2 DEF OutputsOK, BusySomewhere, Placed, Untouched
<1>3. CASE attr[v] # None
  <2>1. attr[v] \in Sessions BY <1>1, <1>3 DEF OutputsOK, TypeOK
  <2>2. \A lo, hi : Through(v, lo, hi)' <=> Through(v, lo, hi)
    BY <2>1 DEF Through, Untouched
  <2>3. Placed(v) BY DEF OutputsOK
  <2> QED BY <2>2, <2>3 DEF Placed, Untouched
<1> QED BY <1>2, <1>3

(* A step that leaves all viewers alone.                                   *)
LEMMA NobodyTouched ==
  ASSUME OutputsOK, TypeOK', BusySomewhere', UNCHANGED fOutputArray,
         \A v \in Viewers : attr'[v] = attr[v] /\ pc'[v] = pc[v] /\ at'[v] = at[v] /\ bucket'[v] = bucket[v]
  PROVE  OutputsOK'
<1>1. \A v \in Viewers : Untouched(v) BY DEF Untouched
<1>2. \A v \in Viewers : Placed(v)' BY <1>1, UntouchedPlaced
<1>3. OnlyThere'
  <2>1. \A s \in Sessions, x \in Streams : \A p \in fOutputArray[s][x] : p[1] \in Viewers
    BY DEF OutputsOK, TypeOK
  <2> QED BY <2>1 DEF OutputsOK, OnlyThere
<1>4. WithinSize' BY DEF OutputsOK, WithinSize, Bucket
<1> QED BY <1>2, <1>3, <1>4 DEF OutputsOK

(* What is taken out of a stream are the outputs of one viewer.            *)
LEMMA Taken ==
  ASSUME OutputsOK, NEW s \in Sessions, NEW x \in Streams, NEW v \in Viewers,
         TakeOutput(s, x, v)
  PROVE  fOutputArray' = [fOutputArray EXCEPT ![s][x] = {p \in @ : p[1] # v}]
<1>1. \A p, q \in fOutputArray[s][x] : p[1] = q[1] => p = q /\ p[2] \in Nat
  BY OutputsSitOnce DEF SitsOnce
<1>2. {p \in fOutputArray[s][x] : p[1] = v => \E q \in fOutputArray[s][x] : q[1] = v /\ q[2] < p[2]}
        = {p \in fOutputArray[s][x] : p[1] # v}
  BY <1>1
<1> QED BY <1>2 DEF TakeOutput

(* A step that takes a viewer's output out of the stream it has come to.   *)
LEMMA TakeKeeps ==
  ASSUME OutputsOK, NEW v \in Viewers, pc[v] \in {"undoing", "leaving"},
         TakeOutput(attr[v], at[v], v), UNCHANGED <<attr, bucket>>, TypeOK', BusySomewhere',
         \A w \in Viewers \ {v} : pc'[w] = pc[w] /\ at'[w] = at[w]
  PROVE  /\ OnlyThere' /\ WithinSize'
         /\ \A w \in Viewers \ {v} : Placed(w)'
         /\ \A lo, hi : lo = at[v] /\ hi \in Int /\ Through(v, lo, hi) => Through(v, lo + 1, hi)'
<1> DEFINE s == attr[v]
           x == at[v]
<1>1. s \in Sessions /\ x \in Streams /\ v \in Clients /\ TypeOK
  BY DEF Clients, OutputsOK, TypeOK, BusySomewhere
<1>2. fOutputArray' = [fOutputArray EXCEPT ![s][x] = {p \in @ : p[1] # v}]
  BY <1>1, Taken
<1> HIDE DEF s, x
<1>3. \A t \in Sessions, y \in Streams :
        fOutputArray'[t][y] = {p \in fOutputArray[t][y] : t = s /\ y = x => p[1] # v}
  BY <1>1, <1>2 DEF TypeOK
<1>4. OnlyThere' BY <1>3 DEF OnlyThere, OutputsOK
<1>5. WithinSize'
  <2>1. ASSUME NEW t \in Sessions, NEW y \in Streams, NEW b \in Nat
        PROVE  Cardinality(Bucket(t, y, b)') <= sBucketSize
    <3>1. Bucket(t, y, b)' \subseteq Bucket(t, y, b) BY <1>3 DEF Bucket
    <3>2. Bucket(t, y, b) \in SUBSET Clients /\ Bucket(t, y, b)' \in SUBSET Clients
      BY DEF Bucket, Clients
    <3>3. Cardinality(Bucket(t, y, b)') <= Cardinality(Bucket(t, y, b))
      BY <3>1, <3>2, Finite, FS_Subset
    <3>4. Cardinality(Bucket(t, y, b)) <= sBucketSize BY DEF OutputsOK, WithinSize
    <3>5. Cardinality(Bucket(t, y, b)) \in Nat /\ Cardinality(Bucket(t, y, b)') \in Nat
      BY <3>2, Finite
    <3> QED BY <3>3, <3>4, <3>5, ReflectorAssumption
  <2> QED BY <2>1 DEF WithinSize
<1>6. ASSUME NEW w \in Viewers \ {v} PROVE Placed(w)'
  <2>1. Untouched(w) BY <1>3 DEF Untouched
  <2> QED BY <2>1, UntouchedPlaced
<1>7. ASSUME NEW lo, NEW hi \in Int, lo = at[v], Through(v, lo, hi) PROVE Through(v, lo + 1, hi)'
  <2>1. ASSUME NEW y \in Streams
        PROVE <<v, bucket[v]>> \in fOutputArray'[s][y] <=> lo + 1 <= y /\ y < hi
    <3>1. <<v, bucket[v]>> \in fOutputArray[s][y] <=> lo <= y /\ y < hi
      BY <1>7 DEF Through, s
    <3>2. <<v, bucket[v]>> \in fOutputArray'[s][y]
            <=> <<v, bucket[v]>> \in fOutputArray[s][y] /\ y # x
      BY <1>1, <1>3
    <3>3. x \in Int /\ y \in Int BY <1>1 DEF Streams
    <3>4. x = lo BY <1>7 DEF x
    <3> QED BY <3>1, <3>2, <3>3, <3>4
  <2>2. attr'[v] = s /\ bucket'[v] = bucket[v] BY DEF s
  <2> QED BY <2>1, <2>2 DEF Through
<1> QED BY <1>4, <1>5, <1>6, <1>7, Zenon

LEMMA RemoveKeeps ==
  ASSUME OutputsOK, TypeOK', BusySomewhere', NEW v \in Viewers, UndoOutput(v) \/ RemoveOutput(v)
  PROVE  OutputsOK'
<1>1. v \in Clients /\ at[v] \in Streams /\ NumStreams \in Nat \ {0} /\ TypeOK
  BY ReflectorAssumption DEF Clients, OutputsOK, TypeOK
<1>2. CASE UndoOutput(v)
  <2>1. /\ pc[v] = "undoing" /\ TakeOutput(attr[v], at[v], v) /\ UNCHANGED <<attr, bucket, pc>>
        /\ at' = [at EXCEPT ![v] = @ + 1] /\ v \in Sits(attr[v], at[v])
    BY <1>2 DEF UndoOutput, clients
  <2>2. \A w \in Viewers \ {v} : pc'[w] = pc[w] /\ at'[w] = at[w]
    BY <1>1, <2>1 DEF TypeOK, Clients
  <2>3. /\ OnlyThere' /\ WithinSize' /\ \A w \in Viewers \ {v} : Placed(w)'
        /\ \A lo, hi : lo = at[v] /\ hi \in Int /\ Through(v, lo, hi) => Through(v, lo + 1, hi)'
    BY <2>1, <2>2, TakeKeeps
  <2>4. PICK hi \in at[v] .. NumStreams : Through(v, at[v], hi)
    BY <2>1 DEF OutputsOK, Placed
  <2>5. <<v, bucket[v]>> \in fOutputArray[attr[v]][at[v]]
    <3>1. attr[v] \in Sessions BY <1>1, <2>1 DEF OutputsOK, BusySomewhere, TypeOK
    <3>2. PICK p \in fOutputArray[attr[v]][at[v]] : p[1] = v BY <2>1 DEF Sits
    <3>3. p[2] = bucket[v] /\ p \in Viewers \X Nat
      BY <1>1, <3>1, <3>2 DEF OutputsOK, OnlyThere, TypeOK
    <3>4. p = <<p[1], p[2]>> BY <3>3
    <3> QED BY <3>2, <3>3, <3>4
  <2>6. at[v] < hi /\ hi \in Int /\ at[v] \in Int
    BY <1>1, <2>4, <2>5 DEF Through, Streams
  <2>7. PICK lo : lo = at[v] OBVIOUS
  <2>8. Through(v, lo + 1, hi)' BY <2>3, <2>4, <2>6, <2>7
  <2>9. pc'[v] = "undoing" /\ at'[v] = lo + 1 BY <1>1, <2>1, <2>7 DEF TypeOK
  <2>10. hi \in at'[v] .. NumStreams /\ Through(v, at[v], hi)'
    <3>1. hi \in lo + 1 .. NumStreams BY <1>1, <2>4, <2>6, <2>7
    <3> QED BY <2>8, <2>9, <3>1
  <2>11. Placed(v)' BY <2>9, <2>10 DEF Placed
  <2> QED BY <2>3, <2>11 DEF OutputsOK
<1>3. CASE RemoveOutput(v)
  <2>1. /\ pc[v] = "leaving" /\ TakeOutput(attr[v], at[v], v) /\ UNCHANGED <<attr, bucket>>
        /\ IF at[v] = NumStreams
             THEN pc' = [pc EXCEPT ![v] = "dropping"] /\ at' = [at EXCEPT ![v] = 1]
             ELSE pc' = pc /\ at' = [at EXCEPT ![v] = @ + 1]
    BY <1>3 DEF RemoveOutput, clients, Begin
  <2>2. \A w \in Viewers \ {v} : pc'[w] = pc[w] /\ at'[w] = at[w]
    BY <1>1, <2>1 DEF TypeOK, Clients
  <2>3. /\ OnlyThere' /\ WithinSize' /\ \A w \in Viewers \ {v} : Placed(w)'
        /\ \A lo, hi : lo = at[v] /\ hi \in Int /\ Through(v, lo, hi) => Through(v, lo + 1, hi)'
    BY <2>1, <2>2, TakeKeeps
  <2>4. PICK lo : lo = at[v] OBVIOUS
  <2>5. Through(v, lo + 1, NumStreams + 1)'
    <3>1. Through(v, lo, NumStreams + 1) BY <2>1, <2>4 DEF OutputsOK, Placed
    <3>2. NumStreams + 1 \in Int BY <1>1
    <3> QED BY <2>3, <2>4, <3>1, <3>2
  <2>6. CASE lo = NumStreams
    <3>1. pc'[v] = "dropping" BY <1>1, <2>1, <2>4, <2>6 DEF TypeOK
    <3>2. Through(v, 1, 1)' BY <1>1, <2>5, <2>6 DEF Through, Streams
    <3>3. Placed(v)' BY <3>1, <3>2 DEF Placed
    <3> QED BY <2>3, <3>3 DEF OutputsOK
  <2>7. CASE lo # NumStreams
    <3>1. pc'[v] = "leaving" /\ at'[v] = lo + 1 BY <1>1, <2>1, <2>4, <2>7 DEF TypeOK
    <3>2. Through(v, at[v], NumStreams + 1)' BY <2>5, <3>1
    <3>3. Placed(v)' BY <3>1, <3>2 DEF Placed
    <3> QED BY <2>3, <3>3 DEF OutputsOK
  <2> QED BY <2>6, <2>7
<1> QED BY <1>2, <1>3

(* A step that puts a viewer's output into the stream it has come to.      *)
LEMMA AddKeeps ==
  ASSUME OutputsOK, TypeOK', BusySomewhere', NEW v \in Viewers, AddOutput(v)
  PROVE  OutputsOK'
<1>1. v \in Clients /\ at[v] \in Streams /\ NumStreams \in Nat \ {0} /\ TypeOK
  BY ReflectorAssumption DEF Clients, OutputsOK, TypeOK
<1>2. PICK s, x, b : s = attr[v] /\ x = at[v] /\ b = Chosen(v)
  OBVIOUS
<1>3. /\ pc[v] = "adding" /\ HasRoom(s, x, b) /\ UNCHANGED attr
      /\ fOutputArray' = [fOutputArray EXCEPT ![s][x] = @ \cup {<<v, b>>}]
      /\ bucket' = [bucket EXCEPT ![v] = b]
      /\ IF x = NumStreams THEN pc' = [pc EXCEPT ![v] = "idle"] /\ at' = [at EXCEPT ![v] = 1]
                           ELSE pc' = pc /\ at' = [at EXCEPT ![v] = x + 1]
  BY <1>2 DEF AddOutput, Fits, PutOutput, Begin, clients
<1>4. s \in Sessions /\ x \in Streams
  BY <1>1, <1>2, <1>3 DEF OutputsOK, BusySomewhere, TypeOK
<1>5. \A t \in Sessions, y \in Streams :
        fOutputArray'[t][y] = IF t = s /\ y = x THEN fOutputArray[t][y] \cup {<<v, b>>}
                              ELSE fOutputArray[t][y]
  BY <1>1, <1>3, <1>4 DEF TypeOK
<1>6. b \in Nat
  <2>1. <<v, b>> \in fOutputArray'[s][x] BY <1>4, <1>5
  <2>2. <<v, b>> \in Viewers \X Nat BY <1>4, <2>1 DEF TypeOK
  <2> QED BY <2>2
<1>7. Through(v, 1, x) /\ \A t \in Sessions, y \in Streams : \A p \in fOutputArray[t][y] :
                            p[1] = v => t = s /\ p[2] = bucket[v] /\ p = <<v, bucket[v]>>
  <2>1. Through(v, 1, x) BY <1>2, <1>3 DEF OutputsOK, Placed
  <2>2. ASSUME NEW t \in Sessions, NEW y \in Streams, NEW p \in fOutputArray[t][y], p[1] = v
        PROVE  t = s /\ p[2] = bucket[v] /\ p = <<v, bucket[v]>>
    <3>1. t = s /\ p[2] = bucket[v] BY <1>2, <2>2 DEF OutputsOK, OnlyThere
    <3>2. p \in Viewers \X Nat BY <1>1 DEF TypeOK
    <3>3. p = <<p[1], p[2]>> BY <3>2
    <3> QED BY <2>2, <3>1, <3>3
  <2> QED BY <2>1, <2>2
<1>8. b # bucket[v] => x = 1
  <2>1. SUFFICES ASSUME x # 1 PROVE b = bucket[v] OBVIOUS
  <2>2. 1 \in Streams /\ 1 <= 1 /\ 1 < x BY <1>1, <1>4, <2>1 DEF Streams
  <2>3. <<v, bucket[v]>> \in fOutputArray[s][1] BY <1>2, <1>7, <2>2 DEF Through
  <2>4. <<v, bucket[v]>> \in Viewers \X Nat BY <1>1, <1>4, <2>2, <2>3 DEF TypeOK
  <2>5. bucket[v] # NoBucket BY <2>4 DEF NoBucket
  <2> QED BY <1>2, <2>5 DEF Chosen
<1>9. b = bucket[v] \/ \A t \in Sessions, y \in Streams : \A p \in fOutputArray[t][y] : p[1] # v
  <2>1. SUFFICES ASSUME b # bucket[v], NEW t \in Sessions, NEW y \in Streams,
                        NEW p \in fOutputArray[t][y], p[1] = v
                 PROVE  FALSE
    OBVIOUS
  <2>2. <<v, bucket[v]>> \in fOutputArray[s][y] BY <1>7, <2>1
  <2>3. 1 <= y /\ y < 1 BY <1>2, <1>7, <1>8, <2>1, <2>2 DEF Through
  <2> QED BY <2>3 DEF Streams
<1>10. bucket'[v] = b /\ \A w \in Viewers \ {v} : bucket'[w] = bucket[w]
  BY <1>1, <1>3 DEF TypeOK
<1>11. OnlyThere'
  <2>1. ASSUME NEW t \in Sessions, NEW y \in Streams, NEW p \in fOutputArray'[t][y]
        PROVE  attr'[p[1]] = t /\ p[2] = bucket'[p[1]]
    <3>1. CASE p \in fOutputArray[t][y]
      <4>1. p[1] \in Viewers BY <1>1, <3>1 DEF TypeOK
      <4>2. attr[p[1]] = t /\ p[2] = bucket[p[1]] BY <3>1 DEF OutputsOK, OnlyThere
      <4> QED BY <1>3, <1>9, <1>10, <3>1, <4>1, <4>2
    <3>2. CASE p = <<v, b>> /\ t = s
      BY <1>2, <1>3, <1>10, <3>2
    <3> QED BY <1>5, <2>1, <3>1, <3>2
  <2> QED BY <2>1 DEF OnlyThere
<1>12. WithinSize'
  <2>1. ASSUME NEW t \in Sessions, NEW y \in Streams, NEW d \in Nat
        PROVE  Cardinality(Bucket(t, y, d)') <= sBucketSize
    <3>1. Bucket(t, y, d) \in SUBSET Clients /\ Cardinality(Bucket(t, y, d)) <= sBucketSize
      BY DEF Bucket, Clients, OutputsOK, WithinSize
    <3>2. CASE t = s /\ y = x /\ d = b
      <4>1. Bucket(t, y, d)' = Bucket(t, y, d) \cup {v} BY <1>4, <1>5, <3>2 DEF Bucket
      <4>2. Cardinality(Bucket(t, y, d)) < sBucketSize BY <1>3, <3>2 DEF HasRoom
      <4>3. Cardinality(Bucket(t, y, d)') <= Cardinality(Bucket(t, y, d)) + 1
        <5>1. CASE v \in Bucket(t, y, d)
          <6>1. Bucket(t, y, d)' = Bucket(t, y, d) BY <4>1, <5>1
          <6> QED BY <3>1, <6>1, Finite
        <5>2. CASE v \notin Bucket(t, y, d) BY <3>1, <4>1, <5>2, OneMore, Finite
        <5> QED BY <5>1, <5>2
      <4>4. Cardinality(Bucket(t, y, d)) \in Nat /\ Cardinality(Bucket(t, y, d)') \in Nat
        <5>1. Bucket(t, y, d)' \in SUBSET Clients BY DEF Bucket, Clients
        <5> QED BY <3>1, <5>1, Finite
      <4> QED BY <4>2, <4>3, <4>4, ReflectorAssumption
    <3>3. CASE ~(t = s /\ y = x /\ d = b)
      <4>1. \A w \in Viewers :
              <<w, d>> \in fOutputArray'[t][y] <=> <<w, d>> \in fOutputArray[t][y]
        <5>1. CASE t = s /\ y = x
          <6>1. \A w : <<w, d>> # <<v, b>> BY <3>3, <5>1
          <6>2. fOutputArray'[t][y] = fOutputArray[t][y] \cup {<<v, b>>} BY <1>5, <5>1
          <6> QED BY <6>1, <6>2
        <5>2. CASE ~(t = s /\ y = x)
          <6>1. fOutputArray'[t][y] = fOutputArray[t][y] BY <1>5, <5>2
          <6> QED BY <6>1
        <5> QED BY <5>1, <5>2
      <4>2. Bucket(t, y, d)' = Bucket(t, y, d) BY <4>1 DEF Bucket
      <4> QED BY <3>1, <4>2
    <3> QED BY <3>2, <3>3
  <2> QED BY <2>1 DEF WithinSize
<1>13. ASSUME NEW w \in Viewers \ {v} PROVE Placed(w)'
  <2>1. Untouched(w)
    <3>1. pc'[w] = pc[w] /\ at'[w] = at[w] BY <1>1, <1>3 DEF TypeOK, Clients
    <3> QED BY <1>3, <1>5, <1>10, <3>1 DEF Untouched
  <2> QED BY <2>1, UntouchedPlaced
<1>14. Through(v, 1, x + 1)'
  <2>1. ASSUME NEW y \in Streams
        PROVE  <<v, b>> \in fOutputArray'[s][y] <=> 1 <= y /\ y < x + 1
    <3>1. x \in Int /\ y \in Int /\ 1 <= y BY <1>4 DEF Streams
    <3>2. CASE y = x
      <4>1. <<v, b>> \in fOutputArray'[s][x] BY <1>4, <1>5
      <4>2. 1 <= x /\ x < x + 1 BY <3>1, <3>2
      <4> QED BY <3>2, <4>1, <4>2
    <3>3. CASE y # x
      <4>1. <<v, b>> \in fOutputArray'[s][y] <=> <<v, b>> \in fOutputArray[s][y]
        BY <1>4, <1>5, <3>3
      <4>2. CASE b = bucket[v]
        <5>1. <<v, b>> \in fOutputArray[s][y] <=> 1 <= y /\ y < x
          BY <1>2, <1>7, <4>2 DEF Through
        <5> QED BY <3>1, <3>3, <4>1, <5>1
      <4>3. CASE b # bucket[v]
        <5>1. <<v, b>> \notin fOutputArray[s][y] BY <1>4, <1>9, <4>3
        <5> QED BY <1>8, <3>1, <3>3, <4>1, <4>3, <5>1
      <4> QED BY <4>2, <4>3
    <3> QED BY <3>2, <3>3
  <2>2. attr'[v] = s BY <1>2, <1>3
  <2> QED BY <1>10, <2>1, <2>2 DEF Through
<1>15. Placed(v)'
  <2>1. CASE x = NumStreams
    <3>1. pc'[v] = "idle" BY <1>1, <1>3, <2>1 DEF TypeOK
    <3> QED BY <1>14, <2>1, <3>1 DEF Placed
  <2>2. CASE x # NumStreams
    <3>1. pc'[v] = "adding" /\ at'[v] = x + 1 BY <1>1, <1>3, <2>2 DEF TypeOK
    <3>2. Through(v, 1, at[v])' BY <1>14, <3>1
    <3> QED BY <3>1, <3>2 DEF Placed
  <2> QED BY <2>1, <2>2
<1> QED BY <1>11, <1>12, <1>13, <1>15 DEF OutputsOK

(* A step that changes no output, and no viewer but one.                   *)
LEMMA OneMoves ==
  ASSUME OutputsOK, TypeOK', BusySomewhere', NEW v \in Viewers, UNCHANGED fOutputArray,
         \A w \in Viewers \ {v} :
           attr'[w] = attr[w] /\ pc'[w] = pc[w] /\ at'[w] = at[w] /\ bucket'[w] = bucket[w],
         \/ attr'[v] = attr[v] /\ bucket'[v] = bucket[v]
         \/ \A s \in Sessions, x \in Streams : v \notin Sits(s, x),
         Placed(v)'
  PROVE  OutputsOK'
<1>1. ASSUME NEW w \in Viewers PROVE Placed(w)'
  <2>1. w # v => Untouched(w) BY DEF Untouched
  <2> QED BY <2>1, UntouchedPlaced
<1>2. OnlyThere'
  <2>1. ASSUME NEW s \in Sessions, NEW x \in Streams, NEW p \in fOutputArray[s][x]
        PROVE  attr'[p[1]] = s /\ p[2] = bucket'[p[1]]
    <3>1. p[1] \in Viewers /\ p[1] \in Sits(s, x) BY DEF OutputsOK, TypeOK, Sits
    <3>2. attr[p[1]] = s /\ p[2] = bucket[p[1]] BY DEF OutputsOK, OnlyThere
    <3> QED BY <3>1, <3>2
  <2> QED BY <2>1 DEF OnlyThere
<1>3. WithinSize' BY DEF OutputsOK, WithinSize, Bucket
<1> QED BY <1>1, <1>2, <1>3 DEF OutputsOK

(* Who is nowhere, or on its way out, sits in no stream.                   *)
LEMMA NotSitting ==
  ASSUME OutputsOK, NEW v \in Viewers,
         \/ attr[v] = None
         \/ pc[v] = "dropping"
         \/ pc[v] = "undoing" /\ v \notin Sits(attr[v], at[v])
  PROVE  /\ \A s \in Sessions, x \in Streams : v \notin Sits(s, x)
         /\ \A lo, hi : lo = hi /\ lo \in Int /\ attr[v] # None => Through(v, lo, hi)
<1>1. None \notin Sessions /\ NumStreams \in Nat \ {0} /\ v \in Clients /\ TypeOK
  BY ReflectorAssumption DEF OutputsOK, Clients
<1>2. ASSUME NEW s \in Sessions, NEW x \in Streams, v \in Sits(s, x)
      PROVE  attr[v] = s /\ <<v, bucket[v]>> \in fOutputArray[attr[v]][x]
  <2>1. PICK p \in fOutputArray[s][x] : p[1] = v BY <1>2 DEF Sits
  <2>2. attr[v] = s /\ p[2] = bucket[v] BY <2>1 DEF OutputsOK, OnlyThere
  <2>3. p \in Viewers \X Nat BY <1>1 DEF TypeOK
  <2>4. p = <<p[1], p[2]>> BY <2>3
  <2> QED BY <2>1, <2>2, <2>4
<1>3. ASSUME NEW s \in Sessions, NEW x \in Streams, v \in Sits(s, x) PROVE FALSE
  <2>1. attr[v] = s /\ <<v, bucket[v]>> \in fOutputArray[attr[v]][x] BY <1>2, <1>3
  <2>2. CASE attr[v] = None BY <1>1, <2>1, <2>2
  <2>3. CASE pc[v] = "dropping"
    <3>1. 1 <= x /\ x < 1 BY <2>1, <2>3 DEF OutputsOK, Placed, Through
    <3> QED BY <3>1 DEF Streams
  <2>4. CASE pc[v] = "undoing" /\ v \notin Sits(attr[v], at[v])
    <3>1. PICK hi \in at[v] .. NumStreams : Through(v, at[v], hi)
      BY <2>4 DEF OutputsOK, Placed
    <3>2. at[v] \in Streams BY <1>1 DEF TypeOK
    <3>3. <<v, bucket[v]>> \notin fOutputArray[attr[v]][at[v]] BY <2>4 DEF Sits
    <3>4. ~(at[v] < hi) BY <3>1, <3>2, <3>3 DEF Through, Streams
    <3>5. at[v] <= x /\ x < hi BY <2>1, <3>1 DEF Through
    <3> QED BY <3>1, <3>2, <3>4, <3>5 DEF Streams
  <2> QED BY <2>2, <2>3, <2>4
<1>4. ASSUME NEW lo \in Int, attr[v] # None PROVE Through(v, lo, lo)
  <2>1. attr[v] \in Sessions BY <1>1, <1>4 DEF TypeOK
  <2>2. ASSUME NEW x \in Streams PROVE <<v, bucket[v]>> \notin fOutputArray[attr[v]][x]
    <3>1. v \notin Sits(attr[v], x) BY <1>3, <2>1
    <3> QED BY <3>1 DEF Sits
  <2>3. \A x \in Streams : ~(lo <= x /\ x < lo) BY <1>1 DEF Streams
  <2> QED BY <2>2, <2>3 DEF Through
<1> QED BY <1>3, <1>4

LEMMA MovesKeep ==
  ASSUME OutputsOK, TypeOK', BusySomewhere', NEW v \in Viewers,
         Setup(v) \/ AddOutputFails(v) \/ Retry(v) \/ CloseViewer(v)
  PROVE  OutputsOK'
<1>1. v \in Clients /\ NumStreams \in Nat \ {0} /\ None \notin Sessions /\ TypeOK
  BY ReflectorAssumption DEF Clients, OutputsOK
<1>2. CASE Setup(v)
  <2>1. PICK s \in Sessions : attr' = [attr EXCEPT ![v] = s] BY <1>2 DEF Setup
  <2>2. /\ attr[v] = None /\ UNCHANGED fOutputArray
        /\ pc' = [pc EXCEPT ![v] = "adding"] /\ at' = [at EXCEPT ![v] = 1]
        /\ bucket' = [bucket EXCEPT ![v] = NoBucket]
    BY <1>2 DEF Setup, Begin
  <2>3. \A t \in Sessions, x \in Streams : v \notin Sits(t, x) BY <2>2, NotSitting
  <2>4. \A w \in Viewers \ {v} :
          attr'[w] = attr[w] /\ pc'[w] = pc[w] /\ at'[w] = at[w] /\ bucket'[w] = bucket[w]
    BY <1>1, <2>1, <2>2 DEF TypeOK, Clients
  <2>5. attr'[v] = s /\ pc'[v] = "adding" /\ at'[v] = 1 BY <1>1, <2>1, <2>2 DEF TypeOK
  <2>6. Through(v, 1, 1)'
    <3>1. \A x \in Streams : <<v, bucket'[v]>> \notin fOutputArray[s][x] BY <2>3 DEF Sits
    <3>2. \A x \in Streams : ~(1 <= x /\ x < 1) BY DEF Streams
    <3> QED BY <2>2, <2>5, <3>1, <3>2 DEF Through
  <2>7. Placed(v)' BY <2>5, <2>6 DEF Placed
  <2> QED BY <2>2, <2>3, <2>4, <2>7, OneMoves
<1>3. CASE AddOutputFails(v)
  <2>1. /\ pc[v] = "adding" /\ UNCHANGED <<fOutputArray, attr, bucket>>
        /\ pc' = [pc EXCEPT ![v] = "undoing"] /\ at' = [at EXCEPT ![v] = 1]
    BY <1>3 DEF AddOutputFails, Begin, clients
  <2>2. \A w \in Viewers \ {v} :
          attr'[w] = attr[w] /\ pc'[w] = pc[w] /\ at'[w] = at[w] /\ bucket'[w] = bucket[w]
    BY <1>1, <2>1 DEF TypeOK, Clients
  <2>3. pc'[v] = "undoing" /\ at'[v] = 1 BY <1>1, <2>1 DEF TypeOK
  <2>4. PICK hi : hi = at[v] OBVIOUS
  <2>5. Through(v, 1, hi) BY <2>1, <2>4 DEF OutputsOK, Placed
  <2>6. Through(v, 1, hi)' BY <2>1, <2>5 DEF Through
  <2>7. hi \in 1 .. NumStreams BY <1>1, <2>4 DEF TypeOK, Streams
  <2>8. Placed(v)' BY <2>3, <2>6, <2>7 DEF Placed
  <2> QED BY <2>1, <2>2, <2>8, OneMoves
<1>4. CASE Retry(v)
  <2>1. /\ pc[v] = "undoing" /\ v \notin Sits(attr[v], at[v]) /\ UNCHANGED <<fOutputArray, attr>>
        /\ pc' = [pc EXCEPT ![v] = "adding"] /\ at' = [at EXCEPT ![v] = 1]
        /\ bucket' = [bucket EXCEPT ![v] = @ + 1]
    BY <1>4 DEF Retry, Begin, clients
  <2>2. \A w \in Viewers \ {v} :
          attr'[w] = attr[w] /\ pc'[w] = pc[w] /\ at'[w] = at[w] /\ bucket'[w] = bucket[w]
    BY <1>1, <2>1 DEF TypeOK, Clients
  <2>3. pc'[v] = "adding" /\ at'[v] = 1 BY <1>1, <2>1 DEF TypeOK
  <2>4. \A t \in Sessions, x \in Streams : v \notin Sits(t, x) BY <2>1, NotSitting
  <2>5. attr[v] \in Sessions BY <1>1, <2>1 DEF OutputsOK, BusySomewhere, TypeOK
  <2>6. Through(v, 1, 1)'
    <3>1. \A x \in Streams : <<v, bucket'[v]>> \notin fOutputArray[attr[v]][x]
      BY <2>4, <2>5 DEF Sits
    <3>2. \A x \in Streams : ~(1 <= x /\ x < 1) BY DEF Streams
    <3> QED BY <2>1, <3>1, <3>2 DEF Through
  <2>7. Placed(v)' BY <2>3, <2>6 DEF Placed
  <2> QED BY <2>1, <2>2, <2>4, <2>7, OneMoves
<1>5. CASE CloseViewer(v)
  <2>1. /\ pc[v] = "idle" /\ attr[v] # None /\ UNCHANGED <<fOutputArray, attr, bucket>>
        /\ pc' = [pc EXCEPT ![v] = "leaving"] /\ at' = [at EXCEPT ![v] = 1]
    BY <1>5 DEF CloseViewer, Begin, clients
  <2>2. \A w \in Viewers \ {v} :
          attr'[w] = attr[w] /\ pc'[w] = pc[w] /\ at'[w] = at[w] /\ bucket'[w] = bucket[w]
    BY <1>1, <2>1 DEF TypeOK, Clients
  <2>3. pc'[v] = "leaving" /\ at'[v] = 1 BY <1>1, <2>1 DEF TypeOK
  <2>4. Through(v, 1, NumStreams + 1) BY <2>1 DEF OutputsOK, Placed
  <2>5. Through(v, 1, NumStreams + 1)' BY <2>1, <2>4 DEF Through
  <2>6. Placed(v)'
    <3>1. Through(v, at[v], NumStreams + 1)' BY <2>3, <2>5
    <3> QED BY <2>3, <3>1 DEF Placed
  <2> QED BY <2>1, <2>2, <2>6, OneMoves
<1> QED BY <1>2, <1>3, <1>4, <1>5

-----------------------------------------------------------------------------
(* Types                                                                   *)
LEMMA ChosenType ==
  ASSUME OutputsOK, NEW v \in Viewers, attr[v] \in Sessions
  PROVE  Chosen(v) \in Nat
<1>1. v \in Clients /\ at[v] \in Streams /\ bucket[v] \in Nat \cup {NoBucket}
  BY DEF Clients, OutputsOK, TypeOK
<1>2. FindBucket(attr[v], at[v]) \in Nat BY <1>1, OutputsSitOnce, FoundBucket
<1> QED BY <1>1, <1>2 DEF Chosen

LEMMA ViewerTypes ==
  ASSUME OutputsOK, NEW v \in Viewers,
         \/ AddOutput(v) \/ AddOutputFails(v) \/ UndoOutput(v) \/ Retry(v)
         \/ RemoveOutput(v) \/ CloseViewer(v)
  PROVE  TypeOK' /\ BusySomewhere'
<1>1. /\ TypeOK /\ BusySomewhere /\ v \in Clients /\ 1 \in Streams /\ None \notin Sessions
      /\ NumStreams \in Nat
  BY ReflectorAssumption DEF OutputsOK, Clients, Streams
<1>2. UNCHANGED <<objects, sources, clients, killing>>
  BY DEF AddOutput, AddOutputFails, UndoOutput, Retry, RemoveOutput, CloseViewer
<1>3. /\ attr[v] # None
      /\ \E p \in {"idle", "adding", "undoing", "leaving", "dropping"} : pc' = [pc EXCEPT ![v] = p]
  BY <1>1 DEF AddOutput, AddOutputFails, UndoOutput, Retry, RemoveOutput, CloseViewer, Begin,
     BusySomewhere, TypeOK
<1>4. attr[v] \in Sessions BY <1>1, <1>3 DEF TypeOK
<1>5. ObjectTypes' BY <1>1, <1>2, <1>3 DEF TypeOK, ObjectTypes, objects, sources, clients
<1>6. BusySomewhere' BY <1>1, <1>2, <1>3 DEF TypeOK, BusySomewhere, clients
<1>7. at' \in [Clients -> Streams]
  <2>1. \E x \in Streams : at' = [at EXCEPT ![v] = x]
    <3>1. at[v] # NumStreams => at[v] + 1 \in Streams
      BY <1>1 DEF TypeOK, Streams
    <3>2. CASE AddOutput(v) \/ RemoveOutput(v)
      BY <1>1, <3>1, <3>2 DEF AddOutput, RemoveOutput, Begin
    <3>3. CASE AddOutputFails(v) \/ Retry(v) \/ CloseViewer(v)
      BY <1>1, <3>3 DEF AddOutputFails, Retry, CloseViewer, Begin
    <3>4. CASE UndoOutput(v)
      <4>1. PICK hi \in at[v] .. NumStreams : Through(v, at[v], hi)
        BY <3>4 DEF UndoOutput, OutputsOK, Placed
      <4>2. at[v] \in Streams /\ v \in Sits(attr[v], at[v])
        BY <1>1, <3>4 DEF UndoOutput, TypeOK
      <4>3. PICK p \in fOutputArray[attr[v]][at[v]] : p[1] = v BY <4>2 DEF Sits
      <4>4. p[2] = bucket[v] /\ p \in Viewers \X Nat
        BY <1>1, <1>4, <4>2, <4>3 DEF OutputsOK, OnlyThere, TypeOK
      <4>5. p = <<v, bucket[v]>> BY <4>3, <4>4
      <4>6. at[v] < hi BY <4>1, <4>2, <4>5 DEF Through
      <4>7. at[v] # NumStreams BY <4>1, <4>2, <4>6 DEF Streams
      <4> QED BY <3>1, <3>4, <4>7 DEF UndoOutput
    <3> QED BY <3>2, <3>3, <3>4
  <2> QED BY <1>1, <2>1 DEF TypeOK
<1>8. bucket' \in [Viewers -> Nat \cup {NoBucket}]
  <2>1. Chosen(v) \in Nat BY <1>4, ChosenType
  <2>2. bucket[v] + 1 \in Nat BY <1>1 DEF TypeOK, NoBucket
  <2>3. bucket' = bucket \/ bucket' = [bucket EXCEPT ![v] = Chosen(v)]
          \/ bucket' = [bucket EXCEPT ![v] = @ + 1]
    BY DEF AddOutput, AddOutputFails, UndoOutput, Retry, RemoveOutput, CloseViewer
  <2> QED BY <1>1, <2>1, <2>2, <2>3 DEF TypeOK
<1>9. fOutputArray' \in [Sessions -> [Streams -> SUBSET (Viewers \X Nat)]]
  <2>1. at[v] \in Streams /\ Chosen(v) \in Nat BY <1>1, <1>4, ChosenType DEF TypeOK
  <2>2. CASE AddOutput(v)
    <3>1. fOutputArray' =
            [fOutputArray EXCEPT ![attr[v]][at[v]] = @ \cup {<<v, Chosen(v)>>}]
      BY <2>2 DEF AddOutput, PutOutput
    <3> QED BY <1>1, <1>4, <2>1, <3>1 DEF TypeOK
  <2>3. CASE UndoOutput(v) \/ RemoveOutput(v)
    <3>1. fOutputArray' = [fOutputArray EXCEPT ![attr[v]][at[v]] = {p \in @ : p[1] # v}]
      BY <1>4, <2>1, <2>3, Taken DEF UndoOutput, RemoveOutput
    <3> QED BY <1>1, <1>4, <2>1, <3>1 DEF TypeOK
  <2>4. CASE AddOutputFails(v) \/ Retry(v) \/ CloseViewer(v)
    BY <1>1, <2>4 DEF AddOutputFails, Retry, CloseViewer, TypeOK
  <2> QED BY <2>2, <2>3, <2>4
<1>10. torndown' \subseteq Clients BY <1>1, <1>2 DEF TypeOK, clients
<1> QED BY <1>5, <1>6, <1>7, <1>8, <1>9, <1>10 DEF TypeOK, ObjectTypes

LEMMA DropTypes ==
  ASSUME ObjectTypes, NEW s \in Sessions, Drop(s)
  PROVE  /\ sSessionMap' \in Sessions \cup {None} /\ live' \subseteq Sessions
         /\ fRefCount' \in [Sessions -> Nat] /\ unreleased' \in [Sessions -> Nat]
<1>1. /\ fRefCount' = [fRefCount EXCEPT ![s] = IF @ = 0 THEN 0 ELSE @ - 1]
      /\ UNCHANGED unreleased
      /\ (sSessionMap' = None /\ live' = live \ {s}) \/ UNCHANGED <<sSessionMap, live>>
  BY DEF Drop, Delete
<1>2. (IF fRefCount[s] = 0 THEN 0 ELSE fRefCount[s] - 1) \in Nat BY DEF ObjectTypes
<1> QED BY <1>1, <1>2 DEF ObjectTypes

LEMMA RequestTypes ==
  ASSUME OutputsOK, NEW c \in Clients,
         \/ LoseReference(c)
         \/ c \in Viewers /\ (DescribeNew(c) \/ Setup(c))
         \/ c \in Broadcasters /\ (SetupPush(c) \/ PlayPush(c))
  PROVE  TypeOK' /\ BusySomewhere'
<1>1. TypeOK /\ BusySomewhere /\ 1 \in Streams /\ None \notin Sessions
  BY ReflectorAssumption DEF OutputsOK, Streams
<1>2. UNCHANGED <<fOutputArray, torndown, killing>> /\ file' = file
  BY DEF LoseReference, DescribeNew, Setup, SetupPush, PlayPush, clients, sources
<1>3. /\ sSessionMap' \in Sessions \cup {None} /\ live' \subseteq Sessions
      /\ fRefCount' \in [Sessions -> Nat] /\ unreleased' \in [Sessions -> Nat]
  <2>1. CASE LoseReference(c)
    BY <1>1, <2>1 DEF LoseReference, Resolve, Lose, TypeOK
  <2>2. CASE DescribeNew(c) BY <1>1, <2>2 DEF DescribeNew, Create, Lose, TypeOK
  <2>3. CASE Setup(c)
    <3>1. PICK s \in Sessions : (Resolve(s) /\ UNCHANGED <<sSessionMap, live>>) \/ Create(s, 1)
      BY <2>3 DEF Setup
    <3>2. UNCHANGED unreleased BY <2>3 DEF Setup
    <3>3. CASE Resolve(s) /\ UNCHANGED <<sSessionMap, live>>
      BY <1>1, <3>2, <3>3 DEF Resolve, TypeOK
    <3>4. CASE Create(s, 1) BY <1>1, <3>2, <3>4 DEF Create, TypeOK
    <3> QED BY <3>1, <3>3, <3>4
  <2>4. CASE SetupPush(c) BY <1>1, <2>4 DEF SetupPush, Create, TypeOK
  <2>5. CASE PlayPush(c) BY <1>1, <2>5 DEF PlayPush, Resolve, TypeOK
  <2> QED BY <2>1, <2>2, <2>3, <2>4, <2>5
<1>4. /\ fSetupToReceive' \subseteq Sessions
      /\ fBroadcasterSession' \in [Sessions -> Broadcasters \cup {None}]
      /\ played' \subseteq Broadcasters
      /\ bucket' \in [Viewers -> Nat \cup {NoBucket}]
      /\ at' \in [Clients -> Streams]
  <2>1. CASE LoseReference(c) \/ (c \in Viewers /\ DescribeNew(c))
    BY <1>1, <2>1 DEF LoseReference, DescribeNew, TypeOK, sources, clients, steps
  <2>2. CASE c \in Viewers /\ Setup(c)
    BY <1>1, <2>2 DEF Setup, Begin, TypeOK, sources
  <2>3. CASE c \in Broadcasters /\ SetupPush(c)
    BY <1>1, <2>3 DEF SetupPush, TypeOK, steps
  <2>4. CASE c \in Broadcasters /\ PlayPush(c)
    BY <1>1, <2>4 DEF PlayPush, TypeOK, sources, steps
  <2> QED BY <2>1, <2>2, <2>3, <2>4
<1>5. /\ attr' \in [Clients -> Sessions \cup {None}]
      /\ pc' \in [Clients -> {"idle", "adding", "undoing", "leaving", "tearing", "dropping"}]
      /\ BusySomewhere'
  <2>1. CASE attr' = attr /\ pc' = pc BY <1>1, <2>1 DEF TypeOK, BusySomewhere
  <2>2. CASE \E s \in Sessions : attr' = [attr EXCEPT ![c] = s] /\ (pc' = pc \/ pc' = [pc EXCEPT ![c] = "adding"])
    BY <1>1, <2>2 DEF TypeOK, BusySomewhere
  <2> QED BY <2>1, <2>2 DEF LoseReference, DescribeNew, Setup, SetupPush, PlayPush, Begin, clients, steps
<1> QED BY <1>1, <1>2, <1>3, <1>4, <1>5 DEF TypeOK

LEMMA EndTypes ==
  ASSUME OutputsOK, NEW c \in Clients,
         Leave(c) \/ (c \in Broadcasters /\ (TearDownStream(c) \/ CloseBroadcaster(c)))
  PROVE  TypeOK' /\ BusySomewhere'
<1>1. /\ TypeOK /\ BusySomewhere /\ 1 \in Streams /\ None \notin Sessions /\ NumStreams \in Nat
      /\ Viewers \subseteq Clients
  BY ReflectorAssumption DEF OutputsOK, Streams, Clients
<1>2. CASE Leave(c)
  <2>1. attr[c] \in Sessions BY <1>1, <1>2 DEF Leave, TypeOK, BusySomewhere
  <2>2. /\ sSessionMap' \in Sessions \cup {None} /\ live' \subseteq Sessions
        /\ fRefCount' \in [Sessions -> Nat] /\ unreleased' \in [Sessions -> Nat]
    <3>1. ObjectTypes BY <1>1 DEF TypeOK, ObjectTypes
    <3> QED BY <1>2, <2>1, <3>1, DropTypes DEF Leave
  <2>3. /\ attr' = [attr EXCEPT ![c] = None] /\ pc' = [pc EXCEPT ![c] = "idle"]
        /\ at' = [at EXCEPT ![c] = 1]
    BY <1>2 DEF Leave, Begin
  <2>4. bucket' \in [Viewers -> Nat \cup {NoBucket}] BY <1>1, <1>2 DEF Leave, TypeOK
  <2>5. played' \subseteq Broadcasters /\ torndown' \subseteq Clients
        /\ UNCHANGED <<sources, fOutputArray, killing>>
    BY <1>1, <1>2 DEF Leave, TypeOK
  <2>6. BusySomewhere' BY <1>1, <2>3 DEF TypeOK, BusySomewhere
  <2> QED BY <1>1, <2>2, <2>3, <2>4, <2>5, <2>6 DEF TypeOK, sources
<1>3. CASE c \in Broadcasters /\ TearDownStream(c)
  <2>1. attr[c] \in Sessions /\ at[c] \in Streams
    BY <1>1, <1>3 DEF TearDownStream, TypeOK, BusySomewhere
  <2>2. TearDownAllOutputs(attr[c], at[c]) \subseteq Clients
    BY <1>1, <2>1 DEF TearDownAllOutputs, Sits, TypeOK
  <2>3. /\ UNCHANGED <<objects, sources, fOutputArray, attr, played, killing, bucket>>
        /\ torndown' = torndown \cup TearDownAllOutputs(attr[c], at[c])
        /\ \/ pc' = [pc EXCEPT ![c] = "dropping"] /\ at' = [at EXCEPT ![c] = 1]
           \/ pc' = pc /\ at' = [at EXCEPT ![c] = @ + 1] /\ at[c] # NumStreams
    BY <1>3 DEF TearDownStream, Begin
  <2>4. at[c] # NumStreams => at[c] + 1 \in Streams BY <1>1, <2>1 DEF Streams
  <2>5. at' \in [Clients -> Streams] BY <1>1, <2>3, <2>4 DEF TypeOK
  <2>6. pc' \in [Clients -> {"idle", "adding", "undoing", "leaving", "tearing", "dropping"}]
        /\ BusySomewhere'
    BY <1>1, <2>1, <2>3 DEF TypeOK, BusySomewhere
  <2> QED BY <1>1, <2>2, <2>3, <2>5, <2>6 DEF TypeOK, objects, sources
<1>4. CASE c \in Broadcasters /\ CloseBroadcaster(c)
  <2>1. PICK s \in Sessions :
          /\ attr[c] = s /\ fSetupToReceive' = fSetupToReceive \ {s}
          /\ fBroadcasterSession' = [fBroadcasterSession EXCEPT ![s] = None]
    BY <1>4 DEF CloseBroadcaster
  <2>2. PICK step \in {"tearing", "dropping"} :
          pc' = [pc EXCEPT ![c] = step] /\ at' = [at EXCEPT ![c] = 1]
    BY <1>4 DEF CloseBroadcaster, Begin
  <2>3. UNCHANGED <<objects, fOutputArray, clients, killing, bucket>> /\ file' \in {file, FALSE}
    BY <1>4 DEF CloseBroadcaster
  <2>4. BusySomewhere' BY <1>1, <2>1, <2>2, <2>3 DEF TypeOK, BusySomewhere, clients
  <2>5. /\ fSetupToReceive' \subseteq Sessions
        /\ fBroadcasterSession' \in [Sessions -> Broadcasters \cup {None}]
        /\ file' \in BOOLEAN /\ at' \in [Clients -> Streams]
        /\ pc' \in [Clients -> {"idle", "adding", "undoing", "leaving", "tearing", "dropping"}]
    BY <1>1, <2>1, <2>2, <2>3 DEF TypeOK
  <2> QED BY <1>1, <2>3, <2>4, <2>5 DEF TypeOK, objects, clients
<1> QED BY <1>2, <1>3, <1>4

LEMMA KillTypes ==
  ASSUME OutputsOK, Announce \/ KillSession \/ KillBroadcaster
  PROVE  TypeOK' /\ BusySomewhere'
<1>1. TypeOK /\ BusySomewhere BY DEF OutputsOK
<1>2. /\ UNCHANGED <<objects, fSetupToReceive, fBroadcasterSession, fOutputArray, attr, played, steps>>
      /\ file' \in BOOLEAN
  BY <1>1 DEF Announce, KillSession, KillBroadcaster, sources, clients, TypeOK
<1>3. killing' \in Sessions \cup {None}
  BY <1>1 DEF Announce, KillSession, KillBroadcaster, TypeOK
<1>4. torndown' \subseteq Clients
  <2>1. CASE Announce BY <1>1, <2>1 DEF Announce, TypeOK, clients
  <2>2. CASE KillSession
    <3>1. \A s \in Sessions, x \in Streams : TearDownAllOutputs(s, x) \subseteq Clients
      BY <1>1 DEF TearDownAllOutputs, Sits, TypeOK, Clients
    <3>2. PICK s \in Sessions :
            torndown' = torndown \cup UNION {TearDownAllOutputs(s, x) : x \in Streams}
      BY <2>2 DEF KillSession
    <3> QED BY <1>1, <3>1, <3>2 DEF TypeOK
  <2>3. CASE KillBroadcaster
    <3>1. killing \in Sessions /\ torndown' = torndown \cup ({fBroadcasterSession[killing]} \ {None})
      BY <1>1, <2>3 DEF KillBroadcaster, TypeOK
    <3>2. fBroadcasterSession[killing] \in Clients \cup {None} BY <1>1, <3>1 DEF TypeOK, Clients
    <3> QED BY <1>1, <3>1, <3>2 DEF TypeOK
  <2> QED BY <2>1, <2>2, <2>3
<1>5. BusySomewhere' BY <1>1, <1>2 DEF BusySomewhere, steps
<1> QED BY <1>1, <1>2, <1>3, <1>4, <1>5 DEF TypeOK, objects, steps

(* Every step.  The outputs of a viewer that leaves are out of all streams *)
(* before its session can be deleted.                                      *)
LEMMA LeaveOutputs ==
  ASSUME OutputsOK, TypeOK', BusySomewhere', NEW c \in Clients, Leave(c)
  PROVE  OutputsOK'
<1>1. /\ TypeOK /\ None \notin Sessions /\ Viewers \subseteq Clients /\ UNCHANGED fOutputArray
      /\ pc[c] = "dropping" /\ attr' = [attr EXCEPT ![c] = None]
      /\ pc' = [pc EXCEPT ![c] = "idle"] /\ at' = [at EXCEPT ![c] = 1]
      /\ bucket' = [v \in Viewers |-> IF v = c THEN NoBucket ELSE bucket[v]]
  BY ReflectorAssumption DEF OutputsOK, Leave, Begin, Clients
<1>2. \A w \in Viewers \ {c} :
        attr'[w] = attr[w] /\ pc'[w] = pc[w] /\ at'[w] = at[w] /\ bucket'[w] = bucket[w]
  BY <1>1 DEF TypeOK
<1>3. CASE c \in Viewers
  <2>1. \A s \in Sessions, x \in Streams : c \notin Sits(s, x) BY <1>1, <1>3, NotSitting
  <2>2. Placed(c)' BY <1>1 DEF Placed, TypeOK
  <2> QED BY <1>1, <1>2, <1>3, <2>1, <2>2, OneMoves
<1>4. CASE c \notin Viewers BY <1>1, <1>2, <1>4, NobodyTouched
<1> QED BY <1>3, <1>4

LEMMA NextOutputs == OutputsOK /\ [Next]_vars => OutputsOK'
<1> SUFFICES ASSUME OutputsOK, [Next]_vars PROVE OutputsOK' OBVIOUS
<1>1. /\ TypeOK /\ BusySomewhere /\ Viewers \subseteq Clients /\ Broadcasters \subseteq Clients
      /\ Viewers \cap Broadcasters = {}
  BY ReflectorAssumption DEF OutputsOK, Clients
<1>2. CASE UNCHANGED vars
  <2>1. TypeOK' /\ BusySomewhere'
    BY <1>1, <1>2 DEF TypeOK, BusySomewhere, vars, objects, sources, clients, steps
  <2> QED BY <1>2, <2>1, NobodyTouched DEF vars, clients, steps
<1>3. CASE \E c \in Clients : Leave(c)
  BY <1>3, EndTypes, LeaveOutputs
<1>4. CASE \E c \in Clients : LoseReference(c)
  <2>1. PICK c \in Clients : LoseReference(c) BY <1>4
  <2>2. TypeOK' /\ BusySomewhere' BY <2>1, RequestTypes
  <2> QED BY <2>1, <2>2, NobodyTouched DEF LoseReference, clients, steps
<1>5. CASE \E v \in Viewers : DescribeNew(v)
  <2>1. PICK v \in Viewers : DescribeNew(v) BY <1>5
  <2>2. TypeOK' /\ BusySomewhere' BY <1>1, <2>1, RequestTypes
  <2> QED BY <2>1, <2>2, NobodyTouched DEF DescribeNew, clients, steps
<1>6. CASE \E v \in Viewers : Setup(v)
  <2>1. PICK v \in Viewers : Setup(v) BY <1>6
  <2>2. TypeOK' /\ BusySomewhere' BY <1>1, <2>1, RequestTypes
  <2> QED BY <2>1, <2>2, MovesKeep
<1>7. CASE \E v \in Viewers : Step(v) \/ Close(v)
  <2>1. PICK v \in Viewers :
          \/ AddOutput(v) \/ AddOutputFails(v) \/ UndoOutput(v) \/ Retry(v)
          \/ RemoveOutput(v) \/ CloseViewer(v)
    BY <1>1, <1>7 DEF Step, Close
  <2>2. TypeOK' /\ BusySomewhere' BY <2>1, ViewerTypes
  <2> QED BY <2>1, <2>2, AddKeeps, RemoveKeeps, MovesKeep
<1>8. CASE \E b \in Broadcasters : SetupPush(b) \/ PlayPush(b)
  <2>1. PICK b \in Broadcasters : SetupPush(b) \/ PlayPush(b) BY <1>8
  <2>2. b \in Clients /\ b \notin Viewers BY <1>1
  <2>3. TypeOK' /\ BusySomewhere' BY <2>1, <2>2, RequestTypes
  <2>4. UNCHANGED fOutputArray
    /\ \A v \in Viewers : attr'[v] = attr[v] /\ pc'[v] = pc[v] /\ at'[v] = at[v] /\ bucket'[v] = bucket[v]
    BY <1>1, <2>1, <2>2 DEF SetupPush, PlayPush, steps, TypeOK
  <2> QED BY <2>3, <2>4, NobodyTouched
<1>9. CASE \E b \in Broadcasters : Step(b) \/ Close(b)
  <2>1. PICK b \in Broadcasters : TearDownStream(b) \/ CloseBroadcaster(b)
    BY <1>1, <1>9 DEF Step, Close
  <2>2. b \in Clients /\ b \notin Viewers BY <1>1
  <2>3. TypeOK' /\ BusySomewhere' BY <2>1, <2>2, EndTypes
  <2>4. UNCHANGED <<fOutputArray, attr, bucket>>
    BY <2>1 DEF TearDownStream, CloseBroadcaster, clients
  <2>5. \A v \in Viewers : pc'[v] = pc[v] /\ at'[v] = at[v]
    BY <1>1, <2>1, <2>2 DEF TearDownStream, CloseBroadcaster, Begin, TypeOK
  <2> QED BY <2>3, <2>4, <2>5, NobodyTouched
<1>10. CASE Announce \/ KillSession \/ KillBroadcaster
  <2>1. TypeOK' /\ BusySomewhere' BY <1>10, KillTypes
  <2> QED BY <1>10, <2>1, NobodyTouched
          DEF Announce, KillSession, KillBroadcaster, clients, steps
<1> QED BY <1>1, <1>2, <1>3, <1>4, <1>5, <1>6, <1>7, <1>8, <1>9, <1>10 DEF Next, Clients

-----------------------------------------------------------------------------
LEMMA OutputsInvariant == Spec => []OutputsOK
<1>1. Init => OutputsOK BY InitOutputs
<1>2. OutputsOK /\ [Next]_vars => OutputsOK' BY NextOutputs
<1> QED BY <1>1, <1>2, PTL DEF Spec

LEMMA ObjectsInvariant ==
  ASSUME Orderly
  PROVE  Spec => []ObjectsOK
<1>1. Init => ObjectsOK BY InitObjects
<1>2. ObjectsOK /\ [Next]_vars => ObjectsOK' BY NextObjects
<1> QED BY <1>1, <1>2, PTL DEF Spec

(* Every variable has its type: in particular a bucket that is chosen for  *)
(* an output is one that exists, or that is allocated for it.              *)
THEOREM TypeCorrect == Spec => []TypeOK
<1>1. OutputsOK => TypeOK BY DEF OutputsOK
<1> QED BY <1>1, OutputsInvariant, PTL

(* A viewer's output sits in the same bucket of every stream, no bucket is *)
(* over its size and no output is left behind, whoever else comes and goes *)
(* and whether or not clients are orderly (AddOutput and RemoveOutput).    *)
THEOREM SameBucketHolds == Spec => []SameBucket
<1>1. ASSUME OutputsOK PROVE SameBucket
  <2>1. ASSUME NEW v \in Viewers, NEW s \in Sessions, NEW x \in Streams, pc[v] = "idle"
        PROVE  {p \in fOutputArray[s][x] : p[1] = v} = IF attr[v] = s THEN {<<v, bucket[v]>>} ELSE {}
    <3>1. /\ TypeOK /\ None \notin Sessions /\ NumStreams \in Nat
          /\ \A p \in fOutputArray[s][x] : p[1] = v => attr[v] = s /\ p = <<v, bucket[v]>>
      <4>1. TypeOK BY <1>1 DEF OutputsOK
      <4>2. ASSUME NEW p \in fOutputArray[s][x], p[1] = v
            PROVE  attr[v] = s /\ p = <<v, bucket[v]>>
        <5>1. attr[v] = s /\ p[2] = bucket[v] BY <1>1, <4>2 DEF OutputsOK, OnlyThere
        <5>2. p \in Viewers \X Nat BY <4>1 DEF TypeOK
        <5>3. p = <<p[1], p[2]>> BY <5>2
        <5> QED BY <4>2, <5>1, <5>3
      <4> QED BY <4>1, <4>2, ReflectorAssumption
    <3>2. CASE attr[v] = s
      <4>1. Through(v, 1, NumStreams + 1) BY <1>1, <2>1, <3>1, <3>2 DEF OutputsOK, Placed
      <4>2. 1 <= x /\ x < NumStreams + 1 BY <3>1 DEF Streams
      <4>3. <<v, bucket[v]>> \in fOutputArray[s][x] BY <3>2, <4>1, <4>2 DEF Through
      <4>4. <<v, bucket[v]>>[1] = v OBVIOUS
      <4> QED BY <3>1, <3>2, <4>3, <4>4
    <3>3. CASE attr[v] # s BY <3>1, <3>3
    <3> QED BY <3>2, <3>3
  <2>2. ASSUME NEW s \in Sessions, NEW x \in Streams, NEW p \in fOutputArray[s][x]
        PROVE  p[2] >= 0 /\ Cardinality(Bucket(s, x, p[2])) <= sBucketSize
    <3>1. p \in Viewers \X Nat BY <1>1 DEF OutputsOK, TypeOK
    <3>2. p[2] \in Nat BY <3>1
    <3> QED BY <1>1, <3>2 DEF OutputsOK, WithinSize
  <2> QED BY <2>1, <2>2 DEF SameBucket
<1> QED BY <1>1, OutputsInvariant, PTL

(* References are exact (FindOrCreateSession, DoSetup, DoPlay, RemoveOutput *)
(* and KillSession), when clients keep out of the way of a broadcaster     *)
(* between its SETUP and its PLAY.                                         *)
THEOREM CountIsHoldersHolds ==
  ASSUME Orderly
  PROVE  Spec => []CountIsHolders
<1>1. ObjectsOK => CountIsHolders BY DEF ObjectsOK
<1> QED BY <1>1, ObjectsInvariant, PTL

(* A session that no reference was lost of goes with its last client.      *)
THEOREM LastOneDeletesHolds ==
  ASSUME Orderly
  PROVE  Spec => []LastOneDeletes
<1>1. ObjectsOK => LastOneDeletes BY DEF ObjectsOK
<1> QED BY <1>1, ObjectsInvariant, PTL

(* No client and no socket's thread uses a session that was deleted        *)
(* ("Assert(fNumElements == 0)" of ~ReflectorStream).                      *)
THEOREM NobodyUsesDeletedHolds ==
  ASSUME Orderly
  PROVE  Spec => []NobodyUsesDeleted
<1>1. ASSUME ObjectsOK, OutputsOK PROVE NobodyUsesDeleted
  <2>1. /\ \A c \in Clients : attr[c] # None => attr[c] \in live
        /\ killing # None => killing \in live
    BY <1>1 DEF ObjectsOK, ClientsOK, MapOK
  <2>2. ASSUME NEW s \in Sessions \ live, NEW x \in Streams, NEW v \in Sits(s, x) PROVE FALSE
    <3>1. PICK p \in fOutputArray[s][x] : p[1] = v BY <2>2 DEF Sits
    <3>2. v \in Clients /\ attr[v] = s
      BY <1>1, <3>1 DEF OutputsOK, OnlyThere, TypeOK, Clients
    <3> QED BY <2>1, <3>2, ReflectorAssumption
  <2> QED BY <2>1, <2>2 DEF NobodyUsesDeleted
<1> QED BY <1>1, ObjectsInvariant, OutputsInvariant, PTL
===============================================================================
