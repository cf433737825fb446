------------------------------ MODULE OSRefTable ------------------------------
(***************************************************************************)
(* CommonUtilitiesLib/OSRef.cpp: the table through which the threads of    *)
(* the server find an object by name and keep it from being deleted while  *)
(* they use it (RTP sessions, reflector sessions, open files, HTTP tunnels *)
(* and the contexts of the event thread).  Every method holds fMutex, so a *)
(* method is one step; UnRegister gives fMutex up while it waits for the   *)
(* other users of the reference, and is two.                               *)
(*                                                                         *)
(* The clients follow the protocol all callers in the server follow: a     *)
(* thread keeps at most one reference, releases it once, holds no other    *)
(* when it takes one out of the table, and then deletes that object, whose *)
(* memory may become a new object of another name.                         *)
(*                                                                         *)
(* A definition named <operation>_<slip> is that operation with a slip,    *)
(* kept to show that a property would notice it.                           *)
(***************************************************************************)
EXTENDS Integers, FiniteSets

CONSTANTS
  Refs,     (* OSRef objects, each inside the object it refers to          *)
  Strings,  (* names                                                       *)
  Threads,  (* threads that use the table                                  *)
  NoRef

ASSUME RefTableAssumption ==
  /\ NoRef \notin Refs
  /\ IsFiniteSet(Threads)

VARIABLES
  fString,   (* per reference: its name                                    *)
  fTable,    (* the references in the hash table                           *)
  fRefCount, (* per reference: the counter                                 *)
  life,      (* per reference: where its owner is with it                  *)
  held,      (* per thread: the reference it resolved, or NoRef            *)
  at,        (* per thread: inside UnRegister, asleep or woken, about to   *)
             (* delete the object it unregistered, or out                  *)
  victim     (* per thread: the arguments of that UnRegister               *)

tableVars == <<fString, fTable, fRefCount, life, held, at, victim>>

Users(r) == {th \in Threads : held[th] = r}

Lives == {"new", "registered", "leaving"}

NoVictim == [ref |-> NoRef, refCount |-> 0]

TableTypeOK ==
  /\ fString \in [Refs -> Strings]
  /\ fTable \subseteq Refs
  /\ fRefCount \in [Refs -> Nat]
  /\ life \in [Refs -> Lives]
  /\ held \in [Threads -> Refs \union {NoRef}]
  /\ at \in [Threads -> {"out", "asleep", "woken", "deleting"}]
  /\ victim \in [Threads -> [ref : Refs \union {NoRef}, refCount : {0, 1}]]

TableInit ==
  /\ fString \in [Refs -> Strings]
  /\ fTable = {}
  /\ fRefCount = [r \in Refs |-> 0]
  /\ life = [r \in Refs |-> "new"]
  /\ held = [th \in Threads |-> NoRef]
  /\ at = [th \in Threads |-> "out"]
  /\ victim = [th \in Threads |-> NoVictim]

-----------------------------------------------------------------------------
Map(s) == {r \in fTable : fString[r] = s}

(* A new object is put under its name, unless the name is taken (EPERM).   *)

Register_NoTest(th, r) ==
  /\ at[th] = "out" /\ life[r] = "new"
  /\ fTable' = fTable \union {r}
  /\ life' = [life EXCEPT ![r] = "registered"]
  /\ UNCHANGED <<fString, fRefCount, held, at, victim>>

Register(th, r) ==
  /\ at[th] = "out" /\ life[r] = "new"
  /\ Map(fString[r]) = {}
  /\ fTable' = fTable \union {r}
  /\ life' = [life EXCEPT ![r] = "registered"]
  /\ UNCHANGED <<fString, fRefCount, held, at, victim>>

Take(th, r) ==
  /\ fRefCount' = [fRefCount EXCEPT ![r] = @ + 1]
  /\ held' = [held EXCEPT ![th] = r]
  /\ UNCHANGED <<fString, fTable, life, at, victim>>

Resolve(th, s) ==
  /\ at[th] = "out" /\ held[th] = NoRef
  /\ \E r \in Map(s) : Take(th, r)

(* The reference that is in the table already is resolved instead.         *)
RegisterOrResolve(th, r) ==
  /\ held[th] = NoRef /\ life[r] = "new"
  /\ \/ Resolve(th, fString[r])
     \/ Register(th, r)

Release_SignalsAtZero(th) ==
  LET r == held[th]
  IN  /\ at[th] = "out" /\ r # NoRef
      /\ fRefCount' = [fRefCount EXCEPT ![r] = @ - 1]
      /\ held' = [held EXCEPT ![th] = NoRef]
      /\ at' = IF fRefCount[r] = 1
                 THEN [u \in Threads |-> IF at[u] = "asleep" /\ victim[u].ref = r
                                           THEN "woken" ELSE at[u]]
                 ELSE at
      /\ UNCHANGED <<fString, fTable, life, victim>>

(* One user less; fCond.Signal wakes the thread that waits in UnRegister   *)
(* for this reference (its owner: there is one at most).                   *)
Release(th) ==
  LET r == held[th]
  IN  /\ at[th] = "out" /\ r # NoRef
      /\ fRefCount' = [fRefCount EXCEPT ![r] = @ - 1]
      /\ held' = [held EXCEPT ![th] = NoRef]
      /\ at' = [u \in Threads |-> IF at[u] = "asleep" /\ victim[u].ref = r
                                    THEN "woken" ELSE at[u]]
      /\ UNCHANGED <<fString, fTable, life, victim>>

-----------------------------------------------------------------------------
(* UnRegister(ref, refCount).  The caller may itself be one of the users,  *)
(* and says so with refCount.  A reference that was swapped out meanwhile  *)
(* is no longer in the hash table: Remove then does nothing.               *)

MayUnRegister(th, r, refCount) ==
  /\ at[th] = "out" /\ life[r] = "registered"
  /\ held[th] = IF refCount = 1 THEN r ELSE NoRef
  /\ life' = [life EXCEPT ![r] = "leaving"]
  /\ victim' = [victim EXCEPT ![th] = [ref |-> r, refCount |-> refCount]]
  /\ UNCHANGED <<fString, fRefCount, held>>

Wait(th) ==
  /\ at' = [at EXCEPT ![th] = "asleep"]
  /\ UNCHANGED fTable

HashRemove_ByName(th, r) ==
  /\ at' = [at EXCEPT ![th] = "deleting"]
  /\ fTable' = fTable \ Map(fString[r])

HashRemove(th, r) ==
  /\ at' = [at EXCEPT ![th] = "deleting"]
  /\ fTable' = fTable \ {r}

UnRegister(th, r, refCount) ==
  /\ MayUnRegister(th, r, refCount)
  /\ IF fRefCount[r] > refCount THEN Wait(th) ELSE HashRemove(th, r)

UnRegisterResume_NoLoop(th) ==
  /\ at[th] = "woken"
  /\ HashRemove(th, victim[th].ref)
  /\ UNCHANGED <<fString, fRefCount, life, held, victim>>

UnRegisterResume(th) ==
  /\ at[th] = "woken"
  /\ IF fRefCount[victim[th].ref] > victim[th].refCount
       THEN Wait(th)
       ELSE HashRemove(th, victim[th].ref)
  /\ UNCHANGED <<fString, fRefCount, life, held, victim>>

(* Returns false, without waiting, if somebody else uses the reference.    *)
TryUnRegister(th, r, refCount) ==
  /\ fRefCount[r] <= refCount
  /\ UnRegister(th, r, refCount)

(* Swap: the new reference takes the place of the one with its name, whose *)
(* users keep it and whose owner will unregister it later.                 *)
Swap(th, r) ==
  /\ at[th] = "out" /\ life[r] = "new"
  /\ \E old \in Map(fString[r]) : fTable' = (fTable \ {old}) \union {r}
  /\ life' = [life EXCEPT ![r] = "registered"]
  /\ UNCHANGED <<fString, fRefCount, held, at, victim>>

(* The object is deleted, with the use its own thread still made of it.    *)
Delete(th) ==
  LET r == victim[th].ref
  IN  /\ at[th] = "deleting"
      /\ at' = [at EXCEPT ![th] = "out"]
      /\ victim' = [victim EXCEPT ![th] = NoVictim]
      /\ held' = [held EXCEPT ![th] = NoRef]
      /\ life' = [life EXCEPT ![r] = "new"]
      /\ fRefCount' = [fRefCount EXCEPT ![r] = 0]
      /\ \E s \in Strings : fString' = [fString EXCEPT ![r] = s]
      /\ UNCHANGED fTable

Finish(th) == Release(th) \/ UnRegisterResume(th) \/ Delete(th)

TableNext ==
  \E th \in Threads :
    \/ Finish(th)
    \/ \E s \in Strings : Resolve(th, s)
    \/ \E r \in Refs :
         \/ Register(th, r) \/ RegisterOrResolve(th, r) \/ Swap(th, r)
         \/ \E n \in {0, 1} : UnRegister(th, r, n) \/ TryUnRegister(th, r, n)

TableSpec == TableInit /\ [][TableNext]_tableVars

-----------------------------------------------------------------------------
(* Two objects are never in the table under one name, so a name means one  *)
(* object: Register and RegisterOrResolve test and add in one step, and    *)
(* Swap removes what it displaces.                                         *)
OnePerName ==
  \A r, s \in fTable : fString[r] = fString[s] => r = s

(* fRefCount is the number of threads that use the object.                 *)
CountsAreExact ==
  \A r \in Refs : fRefCount[r] = Cardinality(Users(r))

Alone(th, r) ==
  /\ Users(r) \subseteq {th}
  /\ r \notin fTable
  /\ \A u \in Threads \ {th} : victim[u].ref # r

(* The thread that deletes an object is the only one that can reach it: no *)
(* other thread uses it, none can find it, and none will delete it again,  *)
(* whoever resolved, released or swapped it while UnRegister waited.       *)
DeletesAlone ==
  \A th \in Threads : at[th] = "deleting" => Alone(th, victim[th].ref)

(* The memory of a deleted object is in nobody's hands.                    *)
NewIsUnused ==
  \A r \in Refs :
    life[r] = "new" =>
      Users(r) = {} /\ r \notin fTable /\ \A th \in Threads : victim[th].ref # r

(* UnRegister sleeps only while somebody else uses the reference: the last *)
(* Release wakes it, also when the caller counts itself (refCount = 1).    *)
NoLostWakeup ==
  \A th \in Threads :
    at[th] = "asleep" => fRefCount[victim[th].ref] > victim[th].refCount

(* A reference leaves the table by its own UnRegister or because another   *)
(* is swapped in for it, never because of one that merely has its name     *)
(* ("sometimes remove is called 2x ( swap, then un register )",            *)
(* OSHashTable.h).                                                         *)
LeavesByItself ==
  [][\A r \in fTable :
       r \notin fTable' =>
         \/ \E th \in Threads : at'[th] = "deleting" /\ victim'[th].ref = r
         \/ \E s \in fTable' \ fTable : fString[s] = fString[r]]_tableVars
=============================================================================
