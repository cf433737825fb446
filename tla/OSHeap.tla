-------------------------------- MODULE OSHeap --------------------------------
(***************************************************************************)
(* CommonUtilitiesLib/OSHeap.cpp: the binary heap in which each task       *)
(* thread keeps its sleeping tasks and the idle thread its timers.  The    *)
(* elements are fHeap[1] to fHeap[fFreeIndex - 1]; the children of i are   *)
(* 2i and 2i + 1.  One step is one round of a loop; the caller has the     *)
(* heap for itself, so an operation starts when the last one is over.      *)
(*                                                                         *)
(* A definition named <operation>_<slip> is that operation with a slip,    *)
(* kept to show that a property would notice it.                           *)
(***************************************************************************)
EXTENDS Integers

CONSTANTS
  Elems,     (* OSHeapElem objects                                         *)
  Values,    (* times                                                      *)
  Removable, (* the elements Remove() may be called for                    *)
  StartSize, (* the first size of the array                                *)
  Capacity,  (* bound: elements in the heap at a time                      *)
  NoElem

ASSUME HeapAssumption ==
  /\ Values \subseteq Int
  /\ StartSize \in Nat /\ StartSize >= 2
  /\ Capacity \in Nat
  /\ NoElem \notin Elems

VARIABLES
  fHeap,        (* the array                                               *)
  fFreeIndex,   (* the first free place                                    *)
  fArraySize,   (* the places allocated, with the unused place 0           *)
  fValue,       (* per element                                             *)
  fCurrentHeap, (* per element: whether it is in this heap                 *)
  pc,           (* the loop that runs: "up", "down", or "idle"             *)
  pos,          (* swapPos or parent in that loop                          *)
  result        (* the element the last operation took out                 *)

vars == <<fHeap, fFreeIndex, fArraySize, fValue, fCurrentHeap, pc, pos, result>>

Places == 1 .. Capacity
Used   == 1 .. fFreeIndex - 1

TypeOK ==
  /\ fHeap \in [Places -> Elems \union {NoElem}]
  /\ fArraySize \in Nat
  /\ fFreeIndex \in 1 .. fArraySize
  /\ fValue \in [Elems -> Values]
  /\ fCurrentHeap \in [Elems -> BOOLEAN]
  /\ pc \in {"idle", "up", "down"}
  /\ pos \in 1 .. Capacity + 1
  /\ result \in Elems \union {NoElem}

Init ==
  /\ fHeap = [i \in Places |-> NoElem]
  /\ fFreeIndex = 1
  /\ fArraySize = StartSize
  /\ fValue \in [Elems -> Values]
  /\ fCurrentHeap = [e \in Elems |-> FALSE]
  /\ pc = "idle" /\ pos = 1 /\ result = NoElem

-----------------------------------------------------------------------------
Val(i) == fValue[fHeap[i]]

Exchange(i, j) == fHeap' = [fHeap EXCEPT ![i] = fHeap[j], ![j] = fHeap[i]]

(* SetValue, then Insert: the element goes into the last leaf and rises.   *)
(* A full array is replaced by one twice as large first.                   *)
Insert(e, v) ==
  /\ pc = "idle" /\ ~fCurrentHeap[e] /\ fFreeIndex <= Capacity
  /\ fValue' = [fValue EXCEPT ![e] = v]
  /\ fHeap' = [fHeap EXCEPT ![fFreeIndex] = e]
  /\ fArraySize' = IF fFreeIndex = fArraySize THEN 2 * fArraySize ELSE fArraySize
  /\ fFreeIndex' = fFreeIndex + 1
  /\ fCurrentHeap' = [fCurrentHeap EXCEPT ![e] = TRUE]
  /\ pc' = "up" /\ pos' = fFreeIndex
  /\ result' = NoElem

BubbleUp_OneLevel ==
  /\ pc = "up"
  /\ pc' = "idle"
  /\ IF pos > 1 /\ Val(pos) < Val(pos \div 2)
       THEN Exchange(pos, pos \div 2) ELSE UNCHANGED fHeap
  /\ UNCHANGED <<fFreeIndex, fArraySize, fValue, fCurrentHeap, pos, result>>

BubbleUp ==
  /\ pc = "up"
  /\ IF pos > 1 /\ Val(pos) < Val(pos \div 2)
       THEN /\ Exchange(pos, pos \div 2)
            /\ pos' = pos \div 2
            /\ UNCHANGED pc
       ELSE /\ pc' = "idle"
            /\ UNCHANGED <<fHeap, pos>>
  /\ UNCHANGED <<fFreeIndex, fArraySize, fValue, fCurrentHeap, result>>

Extract_KeepsMark(i) ==
  /\ fHeap' = [j \in Places |-> IF j = fFreeIndex - 1 THEN NoElem
                                ELSE IF j = i THEN fHeap[fFreeIndex - 1] ELSE fHeap[j]]
  /\ fFreeIndex' = fFreeIndex - 1
  /\ pc' = "down" /\ pos' = i
  /\ result' = fHeap[i]
  /\ UNCHANGED <<fArraySize, fValue, fCurrentHeap>>

(* Extract: the last leaf takes the place of the victim and sinks.  (The   *)
(* code leaves the pointer behind fFreeIndex; nothing reads it.)           *)
Extract(i) ==
  /\ fHeap' = [j \in Places |-> IF j = fFreeIndex - 1 THEN NoElem
                                ELSE IF j = i THEN fHeap[fFreeIndex - 1] ELSE fHeap[j]]
  /\ fFreeIndex' = fFreeIndex - 1
  /\ fCurrentHeap' = [fCurrentHeap EXCEPT ![fHeap[i]] = FALSE]
  /\ pc' = "down" /\ pos' = i
  /\ result' = fHeap[i]
  /\ UNCHANGED <<fArraySize, fValue>>

ExtractMin ==
  /\ pc = "idle" /\ fFreeIndex > 1
  /\ Extract(1)

(* Remove looks for the element and extracts it from where it is.          *)
Remove(e) ==
  /\ pc = "idle" /\ e \in Removable
  /\ \E i \in Used : fHeap[i] = e /\ Extract(i)

Children(i) == {2 * i, 2 * i + 1} \intersect Used

(* The child to swap with: the smaller one, the left one if they are equal.*)
Greatest_LeftOnly(i) ==
  IF 2 * i \in Used /\ Val(2 * i) < Val(i) THEN 2 * i ELSE i

Greatest(i) ==
  LET left == IF 2 * i \in Used /\ Val(2 * i) < Val(i) THEN 2 * i ELSE i
  IN  IF 2 * i + 1 \in Used /\ Val(2 * i + 1) < Val(left) THEN 2 * i + 1 ELSE left

BubbleDown ==
  /\ pc = "down"
  /\ IF pos \in Used /\ Greatest(pos) # pos
       THEN /\ Exchange(pos, Greatest(pos))
            /\ pos' = Greatest(pos)
            /\ UNCHANGED pc
       ELSE /\ pc' = "idle"
            /\ UNCHANGED <<fHeap, pos>>
  /\ UNCHANGED <<fFreeIndex, fArraySize, fValue, fCurrentHeap, result>>

Next ==
  \/ \E e \in Elems, v \in Values : Insert(e, v)
  \/ BubbleUp
  \/ ExtractMin
  \/ \E e \in Removable : Remove(e)
  \/ BubbleDown

Spec == Init /\ [][Next]_vars

-----------------------------------------------------------------------------
(* OSHeap::SanityCheck, which the operations start with in a test build:   *)
(* no element is smaller than its parent.                                  *)
SanityCheck ==
  pc = "idle" => \A i \in Used : \A j \in Children(i) : Val(i) <= Val(j)

(* No element is lost or doubled by the swaps and the shrinking: the array *)
(* holds each element that is marked as being in the heap once, and no     *)
(* other.                                                                  *)
ExactlyTheMembers ==
  /\ \A i, j \in Used : fHeap[i] = fHeap[j] => i = j
  /\ {fHeap[i] : i \in Used} = {e \in Elems : fCurrentHeap[e]}

(* ExtractMin returns an element of the smallest value, also when others   *)
(* were removed from the middle before: the heap is a priority queue.      *)
Queue == INSTANCE PriorityQueue WITH
  members <- {fHeap[i] : i \in Used}, value <- fValue, out <- result

IsAPriorityQueue == Queue!Spec
=============================================================================
