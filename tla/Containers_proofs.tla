-------------------------- MODULE Containers_proofs --------------------------
(***************************************************************************)
(* The two containers of CommonUtilitiesLib that every thread relies on.   *)
(*                                                                         *)
(* The reference table (OSRefTable), for any number of references, names   *)
(* and threads: a name means one object, the counters are exact, an object *)
(* is deleted only when its owner is the only thread that can still reach  *)
(* it, and a reference leaves the table by its own UnRegister or by the    *)
(* Swap that replaces it.                                                  *)
(*                                                                         *)
(* The timer heap (OSHeap), for any elements, values and capacity: the     *)
(* swaps never lose or double an element, and as long as nothing is        *)
(* removed from the middle every element is at least as large as its       *)
(* parent, so that the heap implements PriorityQueue.                      *)
(***************************************************************************)
EXTENDS OSRefTable, OSHeap, FiniteSetTheorems, WellFoundedInduction, TLAPS


(* The users of a reference are finitely many, so counting them is         *)
(* counting up and down by one.                                            *)
LEMMA UsersFinite ==
  ASSUME NEW r
  PROVE  IsFiniteSet(Users(r)) /\ Cardinality(Users(r)) \in Nat
<1>1. Users(r) \subseteq Threads
  BY DEF Users
<1>2. QED
  BY <1>1, RefTableAssumption, FS_Subset, FS_CardinalityType

LEMMA UserAdded ==
  ASSUME NEW r, NEW th \in Threads, held \in [Threads -> Refs \union {NoRef}],
         held[th] # r, held' = [held EXCEPT ![th] = r]
  PROVE  Cardinality(Users(r)') = Cardinality(Users(r)) + 1
<1>1. Users(r)' = Users(r) \union {th} /\ th \notin Users(r)
  BY DEF Users
<1>2. QED
  BY <1>1, UsersFinite, FS_AddElement

LEMMA UserRemoved ==
  ASSUME NEW r, NEW th \in Threads, held \in [Threads -> Refs \union {NoRef}],
         held[th] = r, r # NoRef, held' = [held EXCEPT ![th] = NoRef]
  PROVE  /\ Cardinality(Users(r)') = Cardinality(Users(r)) - 1
         /\ Cardinality(Users(r)) > 0
<1>1. Users(r)' = Users(r) \ {th} /\ th \in Users(r)
  BY DEF Users
<1>2. Cardinality(Users(r)') = Cardinality(Users(r)) - 1
  BY <1>1, UsersFinite, FS_RemoveElement
<1>3. IsFiniteSet(Users(r)') /\ Cardinality(Users(r)') \in Nat
  BY <1>1, UsersFinite, FS_RemoveElement, FS_CardinalityType
<1>4. QED
  BY <1>2, <1>3, UsersFinite

LEMMA NoUsers ==
  ASSUME NEW r, Cardinality(Users(r)) = 0
  PROVE  Users(r) = {}
BY UsersFinite, FS_EmptySet

LEMMA OneUser ==
  ASSUME NEW r, NEW th \in Users(r), Cardinality(Users(r)) <= 1
  PROVE  Users(r) = {th}
<1>1. IsFiniteSet(Users(r) \ {th}) /\ Cardinality(Users(r) \ {th}) = Cardinality(Users(r)) - 1
  BY UsersFinite, FS_RemoveElement
<1>2. Cardinality(Users(r) \ {th}) \in Nat
  BY <1>1, FS_CardinalityType
<1>3. Users(r) \ {th} = {}
  BY <1>1, <1>2, UsersFinite, FS_EmptySet
<1>4. QED
  BY <1>3

-----------------------------------------------------------------------------
(* A thread in UnRegister or about to delete has a victim of its own, on   *)
(* its way out of the table, and counts itself among the users if and only *)
(* if it said so.                                                          *)
VictimsOK ==
  /\ \A th \in Threads :
       IF at[th] = "out"
         THEN victim[th] = NoVictim
         ELSE /\ victim[th].ref \in Refs
              /\ life[victim[th].ref] = "leaving"
              /\ held[th] = IF victim[th].refCount = 1 THEN victim[th].ref ELSE NoRef
  /\ \A th, u \in Threads : victim[th].ref = victim[u].ref /\ th # u => victim[th].ref = NoRef

TableInv ==
  /\ TableTypeOK /\ OnePerName /\ CountsAreExact /\ VictimsOK /\ DeletesAlone /\ NewIsUnused

LEMMA InitTableInv == TableInit => TableInv
<1> SUFFICES ASSUME TableInit PROVE TableInv
  OBVIOUS
<1> USE RefTableAssumption DEF TableInit
<1>1. TableTypeOK
  BY DEF TableTypeOK, Lives, NoVictim
<1>2. \A r \in Refs : Users(r) = {}
  BY DEF Users
<1>3. CountsAreExact
  BY <1>2, FS_EmptySet DEF CountsAreExact
<1>4. OnePerName /\ VictimsOK /\ DeletesAlone /\ NewIsUnused
  BY <1>2 DEF OnePerName, VictimsOK, DeletesAlone, NewIsUnused, NoVictim
<1>5. QED
  BY <1>1, <1>3, <1>4 DEF TableInv

(* The table and the life of its members change, no user does.             *)
LEMMA SameUsers ==
  ASSUME TableInv, UNCHANGED <<held, fRefCount>>
  PROVE  CountsAreExact' /\ \A r : Users(r)' = Users(r)
BY DEF TableInv, CountsAreExact, Users

LEMMA StepTableInv == ASSUME TableInv, [TableNext]_tableVars PROVE TableInv'
<1> USE RefTableAssumption DEF TableInv, TableTypeOK, Lives
<1>1. ASSUME NEW th \in Threads, NEW r \in Refs, Register(th, r) \/ Swap(th, r)
      PROVE  TableInv'
  <2>1. /\ at[th] = "out" /\ life[r] = "new"
        /\ fTable' \subseteq fTable \union {r}
        /\ life' = [life EXCEPT ![r] = "registered"]
        /\ UNCHANGED <<fString, fRefCount, held, at, victim>>
    BY <1>1 DEF Register, Swap
  <2>2. OnePerName'
    BY <1>1, <2>1 DEF Register, Swap, Map, OnePerName
  <2>3. VictimsOK' /\ DeletesAlone' /\ NewIsUnused'
    <3>1. \A u \in Threads : at[u] # "out" => victim[u].ref # r
      BY <2>1 DEF VictimsOK
    <3>2. VictimsOK'
      BY <2>1, <3>1 DEF VictimsOK, NoVictim
    <3>3. DeletesAlone'
      BY <2>1, <3>1 DEF DeletesAlone, Alone, Users
    <3>4. NewIsUnused'
      BY <2>1, SameUsers DEF NewIsUnused
    <3>5. QED
      BY <3>2, <3>3, <3>4
  <2>4. QED
    BY <2>1, <2>2, <2>3, SameUsers
<1>2. ASSUME NEW th \in Threads, NEW s \in Strings, Resolve(th, s)
      PROVE  TableInv'
  <2>1. PICK r \in Map(s) : Take(th, r)
    BY <1>2 DEF Resolve
  <2>2. /\ r \in fTable /\ at[th] = "out" /\ held[th] = NoRef
        /\ fRefCount' = [fRefCount EXCEPT ![r] = @ + 1]
        /\ held' = [held EXCEPT ![th] = r]
        /\ UNCHANGED <<fString, fTable, life, at, victim>>
    BY <1>2, <2>1 DEF Resolve, Take, Map
  <2>3. Cardinality(Users(r)') = Cardinality(Users(r)) + 1
    BY <2>2, UserAdded
  <2>4. \A q \in Refs \ {r} : Users(q)' = Users(q)
    BY <2>2 DEF Users
  <2>5. CountsAreExact'
    BY <2>2, <2>3, <2>4 DEF CountsAreExact
  <2>6. VictimsOK'
    BY <2>2 DEF VictimsOK
  <2>7. DeletesAlone' /\ NewIsUnused'
    <3>1. \A u \in Threads : at[u] = "deleting" => victim[u].ref # r
      BY <2>2 DEF DeletesAlone, Alone
    <3>2. life[r] # "new"
      BY <2>2 DEF NewIsUnused
    <3>3. \A u \in Threads : at[u] = "deleting" => victim[u].ref \in Refs \ {r}
      BY <3>1 DEF VictimsOK
    <3>4. DeletesAlone'
      BY <2>2, <3>3 DEF DeletesAlone, Alone, Users
    <3>5. NewIsUnused'
      BY <2>2, <2>4, <3>2 DEF NewIsUnused
    <3>6. QED
      BY <3>4, <3>5
  <2>8. QED
    BY <2>2, <2>5, <2>6, <2>7 DEF OnePerName
<1>3. ASSUME NEW th \in Threads, Release(th)
      PROVE  TableInv'
  <2>1. PICK r \in Refs : r = held[th]
    BY <1>3 DEF Release
  <2>2. /\ at[th] = "out"
        /\ fRefCount' = [fRefCount EXCEPT ![r] = @ - 1]
        /\ held' = [held EXCEPT ![th] = NoRef]
        /\ at' = [u \in Threads |-> IF at[u] = "asleep" /\ victim[u].ref = r
                                      THEN "woken" ELSE at[u]]
        /\ UNCHANGED <<fString, fTable, life, victim>>
    BY <1>3, <2>1 DEF Release
  <2>3. /\ Cardinality(Users(r)') = Cardinality(Users(r)) - 1
        /\ Cardinality(Users(r)) > 0
    BY <2>1, <2>2, UserRemoved
  <2>4. /\ \A q \in Refs \ {r} : Users(q)' = Users(q)
        /\ Users(r)' \subseteq Users(r)
    BY <2>1, <2>2 DEF Users
  <2>5. CountsAreExact' /\ fRefCount' \in [Refs -> Nat]
    BY <2>2, <2>3, <2>4, UsersFinite DEF CountsAreExact
  <2>6. VictimsOK'
    BY <2>2 DEF VictimsOK
  <2>7. \A u \in Threads : at'[u] = "deleting" <=> at[u] = "deleting"
    BY <2>2
  <2>8. DeletesAlone' /\ NewIsUnused'
    <3>1. \A q \in Refs : Users(q)' \subseteq Users(q)
      BY <2>4
    <3>2. \A u \in Threads : at[u] = "deleting" => victim[u].ref \in Refs
      BY DEF VictimsOK
    <3>3. DeletesAlone'
      BY <2>2, <2>7, <3>1, <3>2 DEF DeletesAlone, Alone
    <3>4. NewIsUnused'
      BY <2>2, <3>1 DEF NewIsUnused
    <3>5. QED
      BY <3>3, <3>4
  <2>9. QED
    BY <2>2, <2>5, <2>6, <2>8 DEF OnePerName
<1>4. ASSUME NEW th \in Threads, NEW r \in Refs, NEW n \in {0, 1}, UnRegister(th, r, n)
      PROVE  TableInv'
  <2>1. /\ at[th] = "out" /\ life[r] = "registered"
        /\ held[th] = IF n = 1 THEN r ELSE NoRef
        /\ life' = [life EXCEPT ![r] = "leaving"]
        /\ victim' = [victim EXCEPT ![th] = [ref |-> r, refCount |-> n]]
        /\ UNCHANGED <<fString, fRefCount, held>>
    BY <1>4 DEF UnRegister, MayUnRegister
  <2>2. VictimsOK' /\ NewIsUnused'
    <3>1. \A u \in Threads : victim[u].ref # r
      BY <2>1 DEF VictimsOK, NoVictim
    <3>2. PICK x \in {"asleep", "deleting"} : at' = [at EXCEPT ![th] = x]
      BY <1>4 DEF UnRegister, Wait, HashRemove
    <3>3. fTable' \subseteq fTable
      BY <1>4 DEF UnRegister, Wait, HashRemove
    <3>4. VictimsOK'
      BY <2>1, <3>1, <3>2 DEF VictimsOK
    <3>5. NewIsUnused'
      BY <2>1, <3>1, <3>3, SameUsers DEF NewIsUnused
    <3>6. QED
      BY <3>4, <3>5
  <2>3. CASE fRefCount[r] > n
    <3>1. at' = [at EXCEPT ![th] = "asleep"] /\ fTable' = fTable
      BY <1>4, <2>3 DEF UnRegister, Wait
    <3>2. \A u \in Threads : at'[u] = "deleting" => at[u] = "deleting" /\ u # th /\ victim[u].ref # r
      BY <2>1, <3>1 DEF VictimsOK
    <3>3. DeletesAlone'
      BY <2>1, <3>1, <3>2 DEF DeletesAlone, Alone, Users
    <3>4. QED
      BY <2>1, <2>2, <3>1, <3>3, SameUsers DEF OnePerName
  <2>4. CASE ~(fRefCount[r] > n)
    <3>1. at' = [at EXCEPT ![th] = "deleting"] /\ fTable' = fTable \ {r}
      BY <1>4, <2>4 DEF UnRegister, HashRemove
    <3>2. Users(r) \subseteq {th}
      <4>1. CASE n = 0
        <5>1. Cardinality(Users(r)) = 0
          BY <2>4, <4>1, UsersFinite DEF CountsAreExact
        <5>2. QED
          BY <5>1, NoUsers
      <4>2. CASE n = 1
        <5>1. Cardinality(Users(r)) <= 1 /\ th \in Users(r)
          BY <2>1, <2>4, <4>2, UsersFinite DEF CountsAreExact, Users
        <5>2. QED
          BY <5>1, OneUser
      <4>3. QED
        BY <4>1, <4>2
    <3>a. /\ \A u \in Threads \ {th} : victim'[u] = victim[u] /\ victim[u].ref # r
          /\ \A u \in Threads \ {th} : at'[u] = at[u]
          /\ victim'[th].ref = r
      BY <2>1, <3>1 DEF VictimsOK, NoVictim
    <3>3. DeletesAlone'
      BY <2>1, <3>1, <3>2, <3>a DEF DeletesAlone, Alone, Users
    <3>4. QED
      BY <2>1, <2>2, <3>1, <3>3, SameUsers DEF OnePerName
  <2>5. QED
    BY <2>3, <2>4
<1>5. ASSUME NEW th \in Threads, UnRegisterResume(th)
      PROVE  TableInv'
  <2>0. PICK r \in Refs : r = victim[th].ref
    BY <1>5 DEF UnRegisterResume, VictimsOK
  <2>1. at[th] = "woken" /\ UNCHANGED <<fString, fRefCount, life, held, victim>>
    BY <1>5 DEF UnRegisterResume
  <2>2. CASE fRefCount[r] > victim[th].refCount
    <3>1. at' = [at EXCEPT ![th] = "asleep"] /\ fTable' = fTable
      BY <1>5, <2>0, <2>2 DEF UnRegisterResume, Wait
    <3>2. VictimsOK' /\ NewIsUnused'
      BY <2>1, <3>1, SameUsers DEF VictimsOK, NewIsUnused
    <3>a. DeletesAlone'
      BY <2>1, <3>1 DEF DeletesAlone, Alone, Users
    <3>3. QED
      BY <2>1, <3>1, <3>2, <3>a, SameUsers DEF OnePerName
  <2>3. CASE ~(fRefCount[r] > victim[th].refCount)
    <3>1. at' = [at EXCEPT ![th] = "deleting"] /\ fTable' = fTable \ {r}
      BY <1>5, <2>0, <2>3 DEF UnRegisterResume, HashRemove
    <3>2. Users(r) \subseteq {th}
      <4>1. victim[th].refCount \in {0, 1}
        BY DEF VictimsOK
      <4>2. CASE victim[th].refCount = 0
        <5>1. Cardinality(Users(r)) = 0
          BY <2>3, <4>2, UsersFinite DEF CountsAreExact
        <5>2. QED
          BY <5>1, NoUsers
      <4>3. CASE victim[th].refCount = 1
        <5>1. th \in Users(r)
          BY <2>0, <2>1, <4>3 DEF VictimsOK, Users
        <5>2. Cardinality(Users(r)) <= 1
          BY <2>3, <4>3, UsersFinite DEF CountsAreExact
        <5>3. QED
          BY <5>1, <5>2, OneUser
      <4>4. QED
        BY <4>1, <4>2, <4>3
    <3>3. \A u \in Threads \ {th} : victim[u].ref # r
      BY <2>0 DEF VictimsOK
    <3>4. VictimsOK' /\ NewIsUnused'
      BY <2>1, <3>1, SameUsers DEF VictimsOK, NewIsUnused
    <3>5. DeletesAlone'
      BY <2>0, <2>1, <3>1, <3>2, <3>3 DEF DeletesAlone, Alone, Users
    <3>6. QED
      BY <2>1, <3>1, <3>4, <3>5, SameUsers DEF OnePerName
  <2>4. QED
    BY <2>2, <2>3
<1>6. ASSUME NEW th \in Threads, Delete(th)
      PROVE  TableInv'
  <2>0. PICK r \in Refs : r = victim[th].ref
    BY <1>6 DEF Delete, VictimsOK
  <2>1. /\ at[th] = "deleting" /\ at' = [at EXCEPT ![th] = "out"]
        /\ victim' = [victim EXCEPT ![th] = NoVictim]
        /\ held' = [held EXCEPT ![th] = NoRef]
        /\ life' = [life EXCEPT ![r] = "new"]
        /\ fRefCount' = [fRefCount EXCEPT ![r] = 0]
        /\ fTable' = fTable
    BY <1>6, <2>0 DEF Delete
  <2>2. PICK s \in Strings : fString' = [fString EXCEPT ![r] = s]
    BY <1>6, <2>0 DEF Delete
  <2>3. /\ Users(r) \subseteq {th} /\ r \notin fTable
        /\ \A u \in Threads \ {th} : victim[u].ref # r
        /\ held[th] \in {r, NoRef}
    BY <2>0, <2>1 DEF DeletesAlone, Alone, VictimsOK
  <2>4. Users(r)' = {} /\ \A q \in Refs \ {r} : Users(q)' = Users(q)
    BY <2>1, <2>3 DEF Users
  <2>5. CountsAreExact'
    BY <2>1, <2>4, FS_EmptySet DEF CountsAreExact
  <2>6. OnePerName'
    BY <2>1, <2>2, <2>3 DEF OnePerName
  <2>7. VictimsOK' /\ DeletesAlone' /\ NewIsUnused'
    <3>1. VictimsOK'
      BY <2>1, <2>3 DEF VictimsOK, NoVictim
    <3>2. DeletesAlone'
      <4>1. \A u \in Threads : at'[u] = "deleting" =>
              at[u] = "deleting" /\ u # th /\ victim[u].ref \in Refs \ {r}
        BY <2>1, <2>3 DEF VictimsOK
      <4>2. NoVictim.ref = NoRef
        BY DEF NoVictim
      <4>3. QED
        BY <2>1, <2>4, <4>1, <4>2 DEF DeletesAlone, Alone
    <3>3. NewIsUnused'
      BY <2>0, <2>1, <2>3, <2>4 DEF NewIsUnused, NoVictim, VictimsOK
    <3>4. QED
      BY <3>1, <3>2, <3>3
  <2>8. QED
    BY <2>1, <2>2, <2>5, <2>6, <2>7 DEF NoVictim
<1>7. ASSUME NEW th \in Threads, NEW r \in Refs, RegisterOrResolve(th, r)
      PROVE  TableInv'
  BY <1>1, <1>2, <1>7 DEF RegisterOrResolve
<1>8. ASSUME NEW th \in Threads, NEW r \in Refs, NEW n \in {0, 1}, TryUnRegister(th, r, n)
      PROVE  TableInv'
  BY <1>4, <1>8 DEF TryUnRegister
<1>9. CASE UNCHANGED tableVars
  BY <1>9 DEF tableVars, OnePerName, CountsAreExact, VictimsOK, DeletesAlone, NewIsUnused, Users, Alone
<1>10. QED
  BY <1>1, <1>2, <1>3, <1>4, <1>5, <1>6, <1>7, <1>8, <1>9 DEF TableNext, Finish

LEMMA TableInductive == TableSpec => []TableInv
<1>1. TableInit => TableInv
  BY InitTableInv
<1>2. TableInv /\ [TableNext]_tableVars => TableInv'
  BY StepTableInv
<1>3. QED
  BY <1>1, <1>2, PTL DEF TableSpec

(* Every variable of the table keeps its type; no counter goes below zero. *)
THEOREM TableTypeCorrect == TableSpec => []TableTypeOK
<1>1. TableInv => TableTypeOK
  BY DEF TableInv
<1>2. QED
  BY <1>1, TableInductive, PTL

(* The table never holds two objects of one name.                          *)
THEOREM OnePerNameHolds == TableSpec => []OnePerName
<1>1. TableInv => OnePerName
  BY DEF TableInv
<1>2. QED
  BY <1>1, TableInductive, PTL

(* fRefCount is the number of users.                                       *)
THEOREM CountsHold == TableSpec => []CountsAreExact
<1>1. TableInv => CountsAreExact
  BY DEF TableInv
<1>2. QED
  BY <1>1, TableInductive, PTL

(* When UnRegister returns, the caller may delete the object: nobody else  *)
(* uses it, finds it or is about to delete it.                             *)
THEOREM DeletesAloneHolds == TableSpec => []DeletesAlone
<1>1. TableInv => DeletesAlone
  BY DEF TableInv
<1>2. QED
  BY <1>1, TableInductive, PTL

(* UnRegister never sleeps on a reference nobody else uses.                *)
THEOREM NoLostWakeupHolds == TableSpec => []NoLostWakeup
<1>1. TableInit => NoLostWakeup
  BY DEF TableInit, NoLostWakeup
<1>2. TableInv /\ TableInv' /\ NoLostWakeup /\ [TableNext]_tableVars => NoLostWakeup'
  <2> SUFFICES ASSUME TableInv, TableInv', NoLostWakeup, [TableNext]_tableVars PROVE NoLostWakeup'
    OBVIOUS
  <2> USE DEF TableInv, TableTypeOK
  <2>1. ASSUME NEW th \in Threads, NEW r \in Refs, Register(th, r) \/ Swap(th, r)
        PROVE  NoLostWakeup'
    BY <2>1 DEF Register, Swap, NoLostWakeup
  <2>2. ASSUME NEW th \in Threads, NEW s \in Strings, Resolve(th, s)
        PROVE  NoLostWakeup'
    BY <2>2 DEF Resolve, Take, Map, NoLostWakeup, VictimsOK
  <2>3. ASSUME NEW th \in Threads, Release(th)
        PROVE  NoLostWakeup'
    BY <2>3 DEF Release, NoLostWakeup, VictimsOK
  <2>4. ASSUME NEW th \in Threads, NEW r \in Refs, NEW n \in {0, 1}, UnRegister(th, r, n)
        PROVE  NoLostWakeup'
    BY <2>4 DEF UnRegister, MayUnRegister, Wait, HashRemove, NoLostWakeup
  <2>5. ASSUME NEW th \in Threads, UnRegisterResume(th)
        PROVE  NoLostWakeup'
    BY <2>5 DEF UnRegisterResume, Wait, HashRemove, NoLostWakeup
  <2>6. ASSUME NEW th \in Threads, Delete(th)
        PROVE  NoLostWakeup'
    BY <2>6 DEF Delete, NoLostWakeup, VictimsOK, DeletesAlone, Alone
  <2>7. CASE UNCHANGED tableVars
    BY <2>7 DEF tableVars, NoLostWakeup
  <2>8. QED
    BY <2>1, <2>2, <2>3, <2>4, <2>5, <2>6, <2>7
    DEF TableNext, Finish, RegisterOrResolve, TryUnRegister
<1>3. QED
  BY <1>1, <1>2, TableInductive, PTL DEF TableSpec

-----------------------------------------------------------------------------
(* What a step may take out of the table.                                  *)
Leaves ==
  \A r \in fTable :
    r \notin fTable' =>
      \/ \E th \in Threads : at'[th] = "deleting" /\ victim'[th].ref = r
      \/ \E s \in fTable' \ fTable : fString[s] = fString[r]

LEMMA StepLeaves == ASSUME TableInv, [TableNext]_tableVars PROVE Leaves
<1> USE DEF TableInv, TableTypeOK
<1>1. ASSUME UNCHANGED fTable PROVE Leaves
  BY <1>1 DEF Leaves
<1>2. ASSUME NEW th \in Threads, NEW r \in Refs, Register(th, r)
      PROVE  Leaves
  BY <1>2 DEF Register, Leaves
<1>3. ASSUME NEW th \in Threads, NEW r \in Refs, Swap(th, r)
      PROVE  Leaves
  <2>1. PICK old \in Map(fString[r]) : fTable' = (fTable \ {old}) \union {r}
    BY <1>3 DEF Swap
  <2>2. r \notin fTable
    BY <1>3 DEF Swap, NewIsUnused
  <2>3. fString[r] = fString[old]
    BY DEF Map
  <2>4. QED
    BY <2>1, <2>2, <2>3 DEF Leaves
<1>4. ASSUME NEW th \in Threads, NEW r \in Refs, HashRemove(th, r), victim'[th].ref = r
      PROVE  Leaves
  BY <1>4 DEF HashRemove, Leaves
<1>5. ASSUME NEW th \in Threads, NEW r \in Refs, NEW n \in {0, 1}, UnRegister(th, r, n)
      PROVE  Leaves
  <2>1. victim'[th].ref = r
    BY <1>5 DEF UnRegister, MayUnRegister
  <2>2. Wait(th) \/ HashRemove(th, r)
    BY <1>5 DEF UnRegister
  <2>3. QED
    BY <1>1, <1>4, <2>1, <2>2 DEF Wait
<1>6. ASSUME NEW th \in Threads, UnRegisterResume(th)
      PROVE  Leaves
  <2>1. victim' = victim /\ (Wait(th) \/ HashRemove(th, victim[th].ref))
    BY <1>6 DEF UnRegisterResume
  <2>2. victim[th].ref \in Refs
    BY <1>6 DEF UnRegisterResume, VictimsOK
  <2>3. QED
    BY <1>1, <1>4, <2>1, <2>2 DEF Wait
<1>7. QED
  BY <1>1, <1>2, <1>3, <1>5, <1>6
  DEF TableNext, Finish, Release, Delete, Resolve, RegisterOrResolve, Take, TryUnRegister, tableVars

(* A reference leaves the table by its own UnRegister or because another   *)
(* is swapped in for it: the second Remove of OSHashTable.h, after a Swap, *)
(* takes nothing that merely has the name.                                 *)
THEOREM LeavesByItselfHolds == TableSpec => LeavesByItself
<1>1. TableInv /\ [TableNext]_tableVars => [Leaves]_tableVars
  BY StepLeaves
<1>2. QED
  BY <1>1, TableInductive, PTL DEF TableSpec, LeavesByItself, Leaves

-----------------------------------------------------------------------------

(* The array as a set of members.                                          *)
ArrayOK ==
  /\ fFreeIndex <= Capacity + 1
  /\ \A i \in Used : fHeap[i] \in Elems /\ fCurrentHeap[fHeap[i]]
  /\ pc = "up" => pos \in Used
  /\ pos \in Nat

MIInv == TypeOK /\ ArrayOK /\ ExactlyTheMembers

LEMMA UsedPlaces == ASSUME TypeOK, ArrayOK PROVE Used \subseteq Places
BY HeapAssumption DEF TypeOK, ArrayOK, Used, Places

LEMMA Half ==
  ASSUME NEW i \in Nat, i > 1
  PROVE  /\ i \div 2 \in Nat /\ i \div 2 >= 1 /\ i \div 2 < i
         /\ i = 2 * (i \div 2) \/ i = 2 * (i \div 2) + 1
OBVIOUS

LEMMA HalfUsed ==
  ASSUME TypeOK, NEW i \in Used, i > 1
  PROVE  i \div 2 \in Used /\ i \in Children(i \div 2)
BY Half DEF Used, Children, TypeOK

LEMMA GreatestIsChild ==
  ASSUME NEW i \in Used, Greatest(i) # i
  PROVE  Greatest(i) \in Children(i)
BY DEF Greatest, Children

(* A swap of two used places changes neither the members nor the values.   *)
LEMMA ExchangeMembers ==
  ASSUME TypeOK, ArrayOK, ExactlyTheMembers, NEW i \in Used, NEW j \in Used, Exchange(i, j), i # j,
         UNCHANGED <<fFreeIndex, fValue, fCurrentHeap>>
  PROVE  /\ fHeap' \in [Places -> Elems \union {NoElem}]
         /\ ExactlyTheMembers'
         /\ \A k \in Used : fHeap'[k] \in Elems /\ fCurrentHeap[fHeap'[k]]
         /\ fHeap'[i] = fHeap[j] /\ fHeap'[j] = fHeap[i]
         /\ \A k \in Used \ {i, j} : fHeap'[k] = fHeap[k]
<1>1. Used \subseteq Places /\ Used' = Used
  BY UsedPlaces DEF Used
<1>2. /\ fHeap' \in [Places -> Elems \union {NoElem}]
      /\ fHeap'[i] = fHeap[j] /\ fHeap'[j] = fHeap[i]
      /\ \A k \in Used \ {i, j} : fHeap'[k] = fHeap[k]
  BY <1>1 DEF Exchange, TypeOK
<1>3. \A k \in Used : fHeap'[k] \in Elems /\ fCurrentHeap[fHeap'[k]]
  BY <1>2 DEF ArrayOK
<1>4. \A k, l \in Used : fHeap'[k] = fHeap'[l] => k = l
  BY <1>2 DEF ExactlyTheMembers
<1>5. {fHeap'[k] : k \in Used} = {fHeap[k] : k \in Used}
  BY <1>2
<1>6. QED
  BY <1>1, <1>2, <1>3, <1>4, <1>5 DEF ExactlyTheMembers

LEMMA InsertMembers ==
  ASSUME MIInv, NEW e \in Elems, NEW v \in Values, Insert(e, v)
  PROVE  MIInv'
<1> USE HeapAssumption DEF MIInv
<1>1. /\ pc = "idle" /\ ~fCurrentHeap[e] /\ fFreeIndex <= Capacity
      /\ fArraySize' = IF fFreeIndex = fArraySize THEN 2 * fArraySize ELSE fArraySize
      /\ fValue' = [fValue EXCEPT ![e] = v]
      /\ fHeap' = [fHeap EXCEPT ![fFreeIndex] = e]
      /\ fFreeIndex' = fFreeIndex + 1
      /\ fCurrentHeap' = [fCurrentHeap EXCEPT ![e] = TRUE]
      /\ pc' = "up" /\ pos' = fFreeIndex /\ result' = NoElem
  BY DEF Insert
<1>2. /\ Used' = Used \union {fFreeIndex} /\ fFreeIndex \notin Used
      /\ fFreeIndex \in Places
  BY <1>1 DEF Used, Places, TypeOK
<1>3. fHeap'[fFreeIndex] = e /\ \A i \in Used : fHeap'[i] = fHeap[i]
  BY <1>1, <1>2, UsedPlaces DEF TypeOK
<1>4. TypeOK'
  BY <1>1, <1>2 DEF TypeOK, Places
<1>5. ArrayOK'
  BY <1>1, <1>2, <1>3 DEF ArrayOK, TypeOK
<1>6. ExactlyTheMembers'
  <2>1. \A i \in Used : fHeap[i] # e
    BY <1>1 DEF ArrayOK
  <2>2. {fHeap'[i] : i \in Used'} = {fHeap[i] : i \in Used} \union {e}
    BY <1>2, <1>3
  <2>3. {d \in Elems : fCurrentHeap'[d]} = {d \in Elems : fCurrentHeap[d]} \union {e}
    BY <1>1 DEF TypeOK
  <2>4. \A i, j \in Used' : fHeap'[i] = fHeap'[j] => i = j
    BY <1>2, <1>3, <2>1 DEF ExactlyTheMembers
  <2>5. QED
    BY <2>2, <2>3, <2>4 DEF ExactlyTheMembers
<1>7. QED
  BY <1>4, <1>5, <1>6

LEMMA ExtractMembers ==
  ASSUME MIInv, pc = "idle", NEW i \in Used, Extract(i)
  PROVE  MIInv'
<1> USE HeapAssumption DEF MIInv
<1> DEFINE last == fFreeIndex - 1
<1>1. /\ fFreeIndex' = fFreeIndex - 1
      /\ fCurrentHeap' = [fCurrentHeap EXCEPT ![fHeap[i]] = FALSE]
      /\ pc' = "down" /\ pos' = i /\ result' = fHeap[i]
      /\ UNCHANGED <<fArraySize, fValue>>
  BY DEF Extract
<1>2. /\ last \in Used /\ Used' = Used \ {last} /\ Used \subseteq Places
      /\ i \in Nat /\ i >= 1 /\ i <= Capacity
  BY <1>1, UsedPlaces DEF Used, Places, TypeOK, ArrayOK
<1>3. fHeap' = [j \in Places |-> IF j = last THEN NoElem
                                 ELSE IF j = i THEN fHeap[last] ELSE fHeap[j]]
  BY DEF Extract
<1>4. \A j \in Used \ {last} : fHeap'[j] = IF j = i THEN fHeap[last] ELSE fHeap[j]
  BY <1>2, <1>3
<1>5. TypeOK'
  <2>1. fHeap' \in [Places -> Elems \union {NoElem}]
    BY <1>2, <1>3 DEF ArrayOK, TypeOK
  <2>2. fHeap[i] \in Elems
    BY DEF ArrayOK
  <2>3. fFreeIndex' \in 1 .. fArraySize /\ pos' \in 1 .. Capacity + 1
    BY <1>1, <1>2 DEF TypeOK, Used
  <2>4. QED
    BY <1>1, <2>1, <2>2, <2>3 DEF TypeOK
<1>6. \A j \in Used \ {last} : fHeap'[j] \in Elems /\ fHeap'[j] # fHeap[i]
  BY <1>2, <1>4 DEF ArrayOK, ExactlyTheMembers
<1>7. ArrayOK'
  <2>1. fFreeIndex' <= Capacity + 1 /\ pos' \in Nat
    BY <1>1, <1>2 DEF ArrayOK, TypeOK
  <2>2. \A j \in Used' : fHeap'[j] \in Elems /\ fCurrentHeap'[fHeap'[j]]
    BY <1>1, <1>2, <1>4, <1>6 DEF ArrayOK, TypeOK
  <2>3. QED
    BY <1>1, <2>1, <2>2 DEF ArrayOK
<1>8. ExactlyTheMembers'
  <2>1. \A j, k \in Used' : fHeap'[j] = fHeap'[k] => j = k
    <3> SUFFICES ASSUME NEW j \in Used \ {last}, NEW k \in Used \ {last}, fHeap'[j] = fHeap'[k]
                 PROVE  j = k
      BY <1>2
    <3>1. \A x, y \in Used : fHeap[x] = fHeap[y] => x = y
      BY DEF ExactlyTheMembers
    <3>2. fHeap'[j] = (IF j = i THEN fHeap[last] ELSE fHeap[j])
      BY <1>4
    <3>3. fHeap'[k] = (IF k = i THEN fHeap[last] ELSE fHeap[k])
      BY <1>4
    <3>4. QED
      BY <1>2, <3>1, <3>2, <3>3
  <2>2. {fHeap'[j] : j \in Used'} = {fHeap[j] : j \in Used} \ {fHeap[i]}
    <3>1. ASSUME NEW x \in {fHeap'[j] : j \in Used'}
          PROVE  x \in {fHeap[j] : j \in Used} \ {fHeap[i]}
      BY <1>2, <1>4, <1>6, <3>1
    <3>2. ASSUME NEW x \in {fHeap[j] : j \in Used} \ {fHeap[i]}
          PROVE  x \in {fHeap'[j] : j \in Used'}
      <4>1. PICK k \in Used : x = fHeap[k] /\ k # i
        BY <3>2
      <4>2. CASE k = last
        <5>1. i \in Used' /\ fHeap'[i] = x
          BY <1>2, <1>4, <4>1, <4>2
        <5>2. QED
          BY <5>1
      <4>3. CASE k # last
        <5>1. k \in Used' /\ fHeap'[k] = x
          BY <1>2, <1>4, <4>1, <4>3
        <5>2. QED
          BY <5>1
      <4>4. QED
        BY <4>2, <4>3
    <3>3. QED
      BY <3>1, <3>2
  <2>3. {d \in Elems : fCurrentHeap'[d]} = {d \in Elems : fCurrentHeap[d]} \ {fHeap[i]}
    BY <1>1 DEF TypeOK, ArrayOK
  <2>4. QED
    BY <2>1, <2>2, <2>3 DEF ExactlyTheMembers
<1>9. QED
  BY <1>5, <1>7, <1>8

LEMMA MembersInductive == Spec => []MIInv
<1>1. Init => MIInv
  BY HeapAssumption DEF Init, MIInv, TypeOK, ArrayOK, ExactlyTheMembers, Used, Places
<1>2. ASSUME MIInv, [Next]_vars PROVE MIInv'
  <2>1. ASSUME NEW e \in Elems, NEW v \in Values, Insert(e, v)
        PROVE  MIInv'
    BY <1>2, <2>1, InsertMembers
  <2>2. CASE ExtractMin
    <3>1. pc = "idle" /\ Extract(1) /\ 1 \in Used
      BY <1>2, <2>2 DEF ExtractMin, Used, MIInv, TypeOK
    <3>2. QED
      BY <1>2, <3>1, ExtractMembers
  <2>3. ASSUME NEW e \in Removable, Remove(e)
        PROVE  MIInv'
    BY <1>2, <2>3, ExtractMembers DEF Remove
  <2>4. CASE BubbleUp
    <3>1. UNCHANGED <<fFreeIndex, fArraySize, fValue, fCurrentHeap, result>> /\ pc = "up"
      BY <2>4 DEF BubbleUp
    <3>2. CASE pos > 1 /\ Val(pos) < Val(pos \div 2)
      <4>1. Exchange(pos, pos \div 2) /\ pos' = pos \div 2 /\ pc' = pc
        BY <2>4, <3>2 DEF BubbleUp
      <4>2. pos \in Used /\ pos \div 2 \in Used /\ pos # pos \div 2 /\ pos \div 2 \in 1 .. Capacity + 1
        BY <1>2, <3>1, <3>2, Half, HalfUsed, UsedPlaces, HeapAssumption
        DEF MIInv, ArrayOK, Places
      <4>3. QED
        BY <1>2, <3>1, <4>1, <4>2, ExchangeMembers DEF MIInv, TypeOK, ArrayOK, Used
    <3>3. CASE ~(pos > 1 /\ Val(pos) < Val(pos \div 2))
      <4>1. UNCHANGED <<fHeap, pos>> /\ pc' = "idle"
        BY <2>4, <3>3 DEF BubbleUp
      <4>2. QED
        BY <1>2, <3>1, <4>1 DEF MIInv, TypeOK, ArrayOK, ExactlyTheMembers, Used
    <3>4. QED
      BY <3>2, <3>3
  <2>5. CASE BubbleDown
    <3>1. UNCHANGED <<fFreeIndex, fArraySize, fValue, fCurrentHeap, result>> /\ pc = "down"
      BY <2>5 DEF BubbleDown
    <3>2. CASE pos \in Used /\ Greatest(pos) # pos
      <4>1. Exchange(pos, Greatest(pos)) /\ pos' = Greatest(pos) /\ pc' = pc
        BY <2>5, <3>2 DEF BubbleDown
      <4>2. Greatest(pos) \in Used /\ Greatest(pos) \in 1 .. Capacity + 1
        BY <1>2, <3>2, GreatestIsChild, UsedPlaces, HeapAssumption DEF MIInv, Places, Children
      <4>3. QED
        BY <1>2, <3>1, <3>2, <4>1, <4>2, ExchangeMembers DEF MIInv, TypeOK, ArrayOK, Used
    <3>3. CASE ~(pos \in Used /\ Greatest(pos) # pos)
      <4>1. UNCHANGED <<fHeap, pos>> /\ pc' = "idle"
        BY <2>5, <3>3 DEF BubbleDown
      <4>2. QED
        BY <1>2, <3>1, <4>1 DEF MIInv, TypeOK, ArrayOK, ExactlyTheMembers, Used
    <3>4. QED
      BY <3>2, <3>3
  <2>6. CASE UNCHANGED vars
    BY <1>2, <2>6 DEF vars, MIInv, TypeOK, ArrayOK, ExactlyTheMembers, Used
  <2>7. QED
    BY <1>2, <2>1, <2>2, <2>3, <2>4, <2>5, <2>6 DEF Next
<1>3. QED
  BY <1>1, <1>2, PTL DEF Spec

(* Every variable keeps its type; the array is never written beyond its    *)
(* allocated size.                                                         *)
THEOREM TypeCorrect == Spec => []TypeOK
<1>1. MIInv => TypeOK
  BY DEF MIInv
<1>2. QED
  BY <1>1, MembersInductive, PTL

(* The array holds exactly the elements marked as inside, each once, under *)
(* any sequence of Insert, ExtractMin and Remove.                          *)
THEOREM MembersHold == Spec => []ExactlyTheMembers
<1>1. MIInv => ExactlyTheMembers
  BY DEF MIInv
<1>2. QED
  BY <1>1, MembersInductive, PTL

-----------------------------------------------------------------------------
(* Order.  While an element rises it is the only one that may be smaller   *)
(* than its parent, and while one sinks it is the only one that may be     *)
(* larger than a child; in both cases the order would hold without it.     *)
Rising ==
  /\ \A i \in Used : \A j \in Children(i) \ {pos} : Val(i) <= Val(j)
  /\ \A i \in Used : pos \in Children(i) => \A j \in Children(pos) : Val(i) <= Val(j)

Sinking ==
  /\ \A i \in Used \ {pos} : \A j \in Children(i) : Val(i) <= Val(j)
  /\ \A i \in Used : pos \in Children(i) => \A j \in Children(pos) : Val(i) <= Val(j)

Order ==
  /\ SanityCheck
  /\ pc = "up" => Rising
  /\ pc = "down" => Sinking

LEMMA ParentUnique ==
  ASSUME NEW i \in Nat, NEW j \in Nat, NEW k \in Children(i), k \in Children(j)
  PROVE  i = j /\ (i > 0 => k > i)
BY DEF Children

LEMMA ValInt ==
  ASSUME MIInv, NEW i \in Used
  PROVE  Val(i) \in Int
BY HeapAssumption DEF MIInv, TypeOK, ArrayOK, Val

LEMMA InsertOrder ==
  ASSUME MIInv, Order, NEW e \in Elems, NEW v \in Values, Insert(e, v)
  PROVE  Order'
<1>1. /\ pc = "idle" /\ ~fCurrentHeap[e] /\ fFreeIndex <= Capacity
      /\ fValue' = [fValue EXCEPT ![e] = v]
      /\ fHeap' = [fHeap EXCEPT ![fFreeIndex] = e]
      /\ fFreeIndex' = fFreeIndex + 1
      /\ pc' = "up" /\ pos' = fFreeIndex
  BY DEF Insert
<1>0. PICK f \in Nat : f = fFreeIndex /\ f > 0
  BY DEF MIInv, TypeOK
<1>2. /\ Used' = Used \union {f} /\ f \notin Used
      /\ \A i \in Used : i \in Nat /\ i > 0 /\ i < f
  BY <1>0, <1>1 DEF Used, MIInv, TypeOK
<1>3. \A i \in Used : Val(i)' = Val(i)
  BY <1>0, <1>1, <1>2, UsedPlaces DEF Val, MIInv, TypeOK, ArrayOK
<1>4. \A i \in Used' : \A j \in Children(i)' \ {f} : i \in Used /\ j \in Children(i)
  BY <1>0, <1>2 DEF Children
<1>5. \A j \in Children(f)' : FALSE
  BY <1>0, <1>2 DEF Children
<1>6. \A i \in Used : \A j \in Children(i) : Val(i) <= Val(j) /\ j \in Used
  BY <1>1 DEF Order, SanityCheck, Children
<1>7. Rising'
  <2>1. pos' = f
    BY <1>0, <1>1
  <2>2. \A i \in Used' : \A j \in Children(i)' \ {f} : Val(i)' <= Val(j)'
    BY <1>3, <1>4, <1>6
  <2>3. QED
    BY <1>5, <2>1, <2>2 DEF Rising
<1>8. QED
  BY <1>1, <1>7 DEF Order, SanityCheck

LEMMA ExtractMinOrder ==
  ASSUME MIInv, Order, ExtractMin
  PROVE  Order'
<1>1. pc = "idle" /\ Extract(1) /\ 1 \in Used
  BY DEF ExtractMin, Used, MIInv, TypeOK
<1>2. /\ fFreeIndex' = fFreeIndex - 1 /\ pc' = "down" /\ pos' = 1
      /\ fHeap' = [j \in Places |-> IF j = fFreeIndex - 1 THEN NoElem
                                    ELSE IF j = 1 THEN fHeap[fFreeIndex - 1] ELSE fHeap[j]]
      /\ fValue' = fValue
  BY <1>1 DEF Extract
<1>3. /\ Used' \subseteq Used /\ \A i \in Used' : i \in Nat /\ i > 0 /\ i # fFreeIndex - 1
  BY <1>2 DEF Used, MIInv, TypeOK
<1>4. \A i \in Used' \ {1} : Val(i)' = Val(i)
  BY <1>2, <1>3, UsedPlaces DEF Val, MIInv
<1>5. \A i \in Used' : \A j \in Children(i)' : j \in Children(i) /\ j \in Used' /\ j > 1
  BY <1>3 DEF Children
<1>6. Sinking'
  <2>1. \A i \in Used' \ {1} : \A j \in Children(i)' : Val(i)' <= Val(j)'
    BY <1>1, <1>3, <1>4, <1>5 DEF Order, SanityCheck
  <2>2. QED
    BY <1>2, <1>5, <2>1 DEF Sinking
<1>7. QED
  BY <1>2, <1>6 DEF Order, SanityCheck

LEMMA BubbleUpOrder ==
  ASSUME MIInv, Order, BubbleUp
  PROVE  Order'
<1>1. /\ UNCHANGED <<fFreeIndex, fArraySize, fValue, fCurrentHeap, result>>
      /\ pc = "up" /\ pos \in Used /\ Rising
      /\ Used' = Used /\ \A i : Children(i)' = Children(i)
      /\ \A i \in Used : i \in Nat /\ i > 0
  BY DEF BubbleUp, Order, MIInv, ArrayOK, Used, Children
<1>2. CASE pos > 1 /\ Val(pos) < Val(pos \div 2)
  <2>1. PICK q \in Used : q = pos \div 2 /\ pos \in Children(q) /\ q # pos
    BY <1>1, <1>2, Half, HalfUsed DEF MIInv
  <2>2. Exchange(pos, q) /\ pos' = q /\ pc' = "up"
    BY <1>1, <1>2, <2>1 DEF BubbleUp
  <2>3. /\ fHeap'[pos] = fHeap[q] /\ fHeap'[q] = fHeap[pos]
        /\ \A i \in Used \ {pos, q} : fHeap'[i] = fHeap[i]
    BY <1>1, <2>1, <2>2, ExchangeMembers DEF MIInv
  <2> DEFINE V(i) == fValue[fHeap[i]]
             W(i) == fValue[fHeap'[i]]
  <2>4. /\ W(pos) = V(q) /\ W(q) = V(pos) /\ V(pos) < V(q)
        /\ \A i \in Used \ {pos, q} : W(i) = V(i)
        /\ \A i \in Used : V(i) \in Int /\ W(i) \in Int
    BY <1>1, <1>2, <2>1, <2>3, ValInt DEF Val
  <2>5. /\ \A i \in Used : \A j \in Children(i) \ {pos} : V(i) <= V(j)
        /\ \A j \in Children(pos) : V(q) <= V(j)
    BY <1>1, <2>1 DEF Rising, Val
  <2>6. /\ \A i, j \in Used : pos \in Children(i) => i = q
        /\ \A i \in Used : \A j \in Children(i) : j \in Used /\ j # i
        /\ \A i \in Used : q \in Children(i) => i # pos
    BY <1>1, <2>1 DEF Children
  <2> HIDE DEF V, W
  <2>7. ASSUME NEW i \in Used, NEW j \in Children(i) \ {q}
        PROVE  W(i) <= W(j)
    <3>1. CASE i = q
      <4>1. CASE j = pos
        BY <2>4, <3>1, <4>1
      <4>2. CASE j # pos
        <5>1. j \in Used \ {pos, q} /\ V(q) <= V(j)
          BY <2>5, <2>6, <2>7, <3>1, <4>2
        <5>2. QED
          BY <2>1, <2>4, <3>1, <5>1
      <4>3. QED
        BY <4>1, <4>2
    <3>2. CASE i = pos
      BY <2>4, <2>5, <2>6, <3>2, <2>1
    <3>3. CASE i \notin {pos, q}
      BY <2>4, <2>5, <2>6, <3>3, <2>1
    <3>4. QED
      BY <3>1, <3>2, <3>3
  <2>8. ASSUME NEW i \in Used, q \in Children(i), NEW j \in Children(q)
        PROVE  W(i) <= W(j)
    <3>1. i # pos /\ i # q /\ V(i) <= V(q) /\ W(i) = V(i)
      BY <2>1, <2>4, <2>5, <2>6, <2>8
    <3>2. CASE j = pos
      BY <2>4, <3>1, <3>2
    <3>3. CASE j # pos
      <4>1. j \in Used \ {pos, q} /\ V(q) <= V(j)
        BY <2>1, <2>5, <2>6, <2>8, <3>3
      <4>2. QED
        BY <2>1, <2>4, <3>1, <4>1
    <3>4. QED
      BY <3>2, <3>3
  <2>9. Rising'
    <3>1. \A i \in Used : Val(i)' = W(i)
      BY <1>1 DEF Val, W
    <3>2. \A i \in Used : \A j \in Children(i) : j \in Used
      BY DEF Children
    <3>3. QED
      BY <1>1, <2>1, <2>2, <2>7, <2>8, <3>1, <3>2 DEF Rising
  <2>10. QED
    BY <2>2, <2>9 DEF Order, SanityCheck
<1>3. CASE ~(pos > 1 /\ Val(pos) < Val(pos \div 2))
  <2>1. UNCHANGED <<fHeap, pos>> /\ pc' = "idle"
    BY <1>3 DEF BubbleUp
  <2>2. \A i \in Used : pos \in Children(i) => Val(i) <= Val(pos)
    <3> SUFFICES ASSUME NEW i \in Used, pos \in Children(i) PROVE Val(i) <= Val(pos)
      OBVIOUS
    <3>1. pos > 1 /\ pos \div 2 = i
      BY <1>1 DEF Children
    <3>2. Val(i) \in Int /\ Val(pos) \in Int
      BY <1>1, ValInt
    <3>3. QED
      BY <1>3, <3>1, <3>2
  <2>3. SanityCheck
    BY <1>1 DEF SanityCheck
  <2>4. \A i \in Used : \A j \in Children(i) : Val(i) <= Val(j)
    BY <1>1, <2>2 DEF Rising
  <2>5. QED
    BY <1>1, <2>1, <2>4 DEF Order, SanityCheck, Val
<1>4. QED
  BY <1>2, <1>3

LEMMA BubbleDownOrder ==
  ASSUME MIInv, Order, BubbleDown
  PROVE  Order'
<1>1. /\ UNCHANGED <<fFreeIndex, fArraySize, fValue, fCurrentHeap, result>>
      /\ pc = "down" /\ Sinking
      /\ Used' = Used /\ \A i : Children(i)' = Children(i)
      /\ \A i \in Used : i \in Nat /\ i > 0
  BY DEF BubbleDown, Order, Used, Children, MIInv, TypeOK
<1>2. \A i \in Used : Val(i) \in Int
  BY ValInt
<1>3. CASE pos \in Used /\ Greatest(pos) # pos
  <2>1. PICK g \in Children(pos) : g = Greatest(pos)
    BY <1>3, GreatestIsChild
  <2>2. /\ Val(g) < Val(pos) /\ g # pos /\ g \in Used
        /\ \A j \in Children(pos) : Val(g) <= Val(j)
    BY <1>1, <1>2, <1>3, <2>1 DEF Greatest, Children
  <2>3. Exchange(pos, g) /\ pos' = g /\ pc' = "down"
    BY <1>1, <1>3, <2>1 DEF BubbleDown
  <2>4. /\ fHeap'[pos] = fHeap[g] /\ fHeap'[g] = fHeap[pos]
        /\ \A i \in Used \ {pos, g} : fHeap'[i] = fHeap[i]
    BY <1>1, <1>3, <2>2, <2>3, ExchangeMembers DEF MIInv
  <2> DEFINE V(i) == fValue[fHeap[i]]
             W(i) == fValue[fHeap'[i]]
  <2>5. /\ W(pos) = V(g) /\ W(g) = V(pos) /\ V(g) < V(pos)
        /\ \A i \in Used \ {pos, g} : W(i) = V(i)
        /\ \A i \in Used : V(i) \in Int /\ W(i) \in Int
    BY <1>2, <1>3, <2>2, <2>4 DEF Val
  <2>6. /\ \A i \in Used \ {pos} : \A j \in Children(i) : V(i) <= V(j)
        /\ \A i \in Used : pos \in Children(i) => \A j \in Children(pos) : V(i) <= V(j)
        /\ \A j \in Children(pos) : V(g) <= V(j)
    BY <1>1, <2>2 DEF Sinking, Val
  <2>7. /\ \A i \in Used : g \in Children(i) => i = pos
        /\ \A i \in Used : \A j \in Children(i) : j \in Used /\ j # i
        /\ \A j \in Children(g) : j # pos
    BY <1>1, <1>3, <2>1, <2>2 DEF Children
  <2> HIDE DEF V, W
  <2>8. ASSUME NEW i \in Used \ {g}, NEW j \in Children(i)
        PROVE  W(i) <= W(j)
    <3>1. CASE i = pos
      <4>1. CASE j = g
        BY <2>2, <2>5, <3>1, <4>1
      <4>2. CASE j # g
        BY <2>5, <2>6, <2>7, <3>1, <4>2
      <4>3. QED
        BY <4>1, <4>2
    <3>2. CASE i # pos
      <4>1. j # g /\ W(i) = V(i) /\ V(i) <= V(j) /\ j \in Used
        BY <2>5, <2>6, <2>7, <3>2
      <4>2. CASE j = pos
        BY <2>1, <2>5, <2>6, <4>1, <4>2
      <4>3. CASE j # pos
        BY <2>5, <4>1, <4>3
      <4>4. QED
        BY <4>2, <4>3
    <3>3. QED
      BY <3>1, <3>2
  <2>9. ASSUME NEW i \in Used, g \in Children(i), NEW j \in Children(g)
        PROVE  W(i) <= W(j)
    <3>1. i = pos /\ j # pos /\ j # g /\ j \in Used /\ W(i) = V(g) /\ V(g) <= V(j)
      BY <2>2, <2>5, <2>6, <2>7, <2>9
    <3>2. QED
      BY <2>5, <3>1
  <2>10. Sinking'
    <3>1. \A i \in Used : Val(i)' = W(i)
      BY <1>1 DEF Val, W
    <3>2. \A i \in Used : \A j \in Children(i) : j \in Used
      BY DEF Children
    <3>3. QED
      BY <1>1, <2>2, <2>3, <2>8, <2>9, <3>1, <3>2 DEF Sinking
  <2>11. QED
    BY <2>3, <2>10 DEF Order, SanityCheck
<1>4. CASE ~(pos \in Used /\ Greatest(pos) # pos)
  <2>1. UNCHANGED <<fHeap, pos>> /\ pc' = "idle"
    BY <1>4 DEF BubbleDown
  <2>2. pos \in Used => \A j \in Children(pos) : Val(pos) <= Val(j)
    BY <1>1, <1>2, <1>4 DEF Greatest, Children
  <2>3. \A i \in Used : \A j \in Children(i) : Val(i) <= Val(j)
    BY <1>1, <2>2 DEF Sinking
  <2>4. QED
    BY <1>1, <2>1, <2>3 DEF Order, SanityCheck, Val
<1>5. QED
  BY <1>3, <1>4

LEMMA OrderInductive == ASSUME Removable = {} PROVE Spec => []Order
<1>1. Init => Order
  BY DEF Init, Order, SanityCheck, Used
<1>2. MIInv /\ Order /\ [Next]_vars => Order'
  <2> SUFFICES ASSUME MIInv, Order, [Next]_vars PROVE Order'
    OBVIOUS
  <2>1. CASE UNCHANGED vars
    BY <2>1 DEF vars, Order, SanityCheck, Rising, Sinking, Used, Children, Val
  <2>2. QED
    BY <2>1, InsertOrder, ExtractMinOrder, BubbleUpOrder, BubbleDownOrder DEF Next
<1>3. QED
  BY <1>1, <1>2, MembersInductive, PTL DEF Spec

(* Without Remove, SanityCheck holds whenever an operation starts.         *)
THEOREM SanityCheckHolds == ASSUME Removable = {} PROVE Spec => []SanityCheck
<1>1. Order => SanityCheck
  BY DEF Order
<1>2. QED
  BY <1>1, OrderInductive, PTL

-----------------------------------------------------------------------------
(* A set of places that is not empty has a first one.                      *)
LEMMA FirstPlace ==
  ASSUME NEW T \in SUBSET Nat, T # {}
  PROVE  \E m \in T : \A n \in T : m <= n
<1>1. PICK m \in T : \A n \in T : ~(<<n, m>> \in OpToRel(<, Nat))
  BY NatLessThanWellFounded, WFMin, Zenon
<1>2. \A n \in T : ~(n < m)
  BY <1>1 DEF OpToRel
<1>3. QED
  BY <1>2

(* The heap as a priority queue.  Were an element smaller than the root,   *)
(* the first such place would have a parent that is not, and would be      *)
(* smaller than its parent.                                                *)
LEMMA RootIsLeast ==
  ASSUME MIInv, SanityCheck, pc = "idle"
  PROVE  \A i \in Used : Val(1) <= Val(i)
<1> DEFINE Smaller == {i \in Used : ~(Val(1) <= Val(i))}
<1>1. SUFFICES ASSUME Smaller # {} PROVE FALSE
  OBVIOUS
<1>2. Used \subseteq Nat /\ \A i \in Used : 1 \in Used /\ i >= 1
  BY DEF MIInv, TypeOK, Used
<1>3. Smaller \in SUBSET Nat
  BY <1>2
<1>4. PICK i \in Smaller : \A j \in Smaller : i <= j
  BY <1>1, <1>3, FirstPlace
<1>5. Val(1) \in Int /\ \A j \in Used : Val(j) \in Int
  BY <1>2, ValInt
<1>6. i \in Used /\ i > 1
  BY <1>2, <1>5
<1>7. PICK h \in Used : h = i \div 2 /\ h < i /\ i \in Children(h)
  BY <1>2, <1>6, Half, HalfUsed DEF MIInv
<1>8. Val(h) <= Val(i)
  BY <1>7 DEF SanityCheck
<1>9. h \in Smaller
  BY <1>5, <1>6, <1>7, <1>8
<1>10. QED
  BY <1>2, <1>4, <1>6, <1>7, <1>9

Members == {fHeap[i] : i \in Used}

LEMMA Marked == ASSUME ExactlyTheMembers PROVE Members = {e \in Elems : fCurrentHeap[e]}
BY DEF ExactlyTheMembers, Members

(* Every step of the loops is a step of the queue or none.                 *)
LEMMA StepOfQueue ==
  ASSUME Removable = {}, MIInv, ExactlyTheMembers', SanityCheck, [Next]_vars
  PROVE  [Queue!Next]_<<Members, fValue, result>>
<1>1. Members = {e \in Elems : fCurrentHeap[e]}
  BY Marked DEF MIInv
<1>2. Members' = {e \in Elems : fCurrentHeap'[e]}
  BY DEF ExactlyTheMembers, Members
<1>3. ASSUME NEW e \in Elems, NEW v \in Values, Insert(e, v)
      PROVE  Queue!Next
  <2>1. e \notin Members
    BY <1>1, <1>3 DEF Insert
  <2>2. Members' = Members \union {e}
    BY <1>1, <1>2, <1>3 DEF Insert, MIInv, TypeOK
  <2>3. fValue' = [fValue EXCEPT ![e] = v] /\ result' = NoElem
    BY <1>3 DEF Insert
  <2>4. Queue!Insert(e)
    BY <2>1, <2>2, <2>3 DEF Queue!Insert, Members
  <2>5. QED
    BY <2>4 DEF Queue!Next
<1>4. CASE ExtractMin
  <2>1. pc = "idle" /\ Extract(1) /\ 1 \in Used
    BY <1>4 DEF ExtractMin, Used, MIInv, TypeOK
  <2>2. fHeap[1] \in Members /\ fHeap[1] \in Elems
    BY <2>1 DEF Members, MIInv, ArrayOK
  <2>3. \A d \in Members : fValue[fHeap[1]] <= fValue[d]
    BY <2>1, RootIsLeast DEF Members, Val
  <2>4. Members' = Members \ {fHeap[1]}
    BY <1>1, <1>2, <2>1, <2>2 DEF Extract, MIInv, TypeOK
  <2>5. result' = fHeap[1] /\ fValue' = fValue
    BY <2>1 DEF Extract
  <2>6. Queue!ExtractMin
    BY <2>2, <2>3, <2>4, <2>5 DEF Queue!ExtractMin, Members
  <2>7. QED
    BY <2>6 DEF Queue!Next
<1>5. CASE BubbleUp \/ BubbleDown \/ UNCHANGED vars
  <2>1. UNCHANGED <<fValue, fCurrentHeap, result>>
    BY <1>5 DEF BubbleUp, BubbleDown, vars
  <2>2. Members' = Members
    BY <1>1, <1>2, <2>1
  <2>3. QED
    BY <2>1, <2>2
<1>6. QED
  BY <1>3, <1>4, <1>5 DEF Next

(* Without Remove the heap is a priority queue: every ExtractMin takes an  *)
(* element of the smallest value, in whatever order the elements came.     *)
THEOREM IsAPriorityQueueHolds == ASSUME Removable = {} PROVE Spec => IsAPriorityQueue
<1>1. Init => Queue!Init
  <2>1. Init => Members = {}
    BY DEF Init, Members, Used
  <2>2. QED
    BY <2>1 DEF Init, Queue!Init, Members
<1>2. MIInv /\ ExactlyTheMembers' /\ SanityCheck /\ [Next]_vars
        => [Queue!Next]_<<{fHeap[i] : i \in Used}, fValue, result>>
  BY StepOfQueue DEF Members
<1>3. MIInv => ExactlyTheMembers
  BY DEF MIInv
<1>4. QED
  BY <1>1, <1>2, <1>3, MembersInductive, SanityCheckHolds, PTL
  DEF Spec, IsAPriorityQueue, Queue!Spec
=============================================================================
