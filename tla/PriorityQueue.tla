---------------------------- MODULE PriorityQueue ----------------------------
(***************************************************************************)
(* What the timers of the server expect of CommonUtilitiesLib/OSHeap: a    *)
(* set of elements with values, from which ExtractMin takes an element of  *)
(* the smallest value.  Some may also be taken by name.                    *)
(***************************************************************************)
EXTENDS Integers

CONSTANTS Elems, Removable, Values, NoElem

VARIABLES
  members, (* the elements inside                                          *)
  value,   (* their values                                                 *)
  out      (* the element last taken out                                   *)

Init == members = {} /\ value \in [Elems -> Values] /\ out = NoElem

Insert(e) ==
  /\ e \notin members
  /\ members' = members \union {e}
  /\ \E v \in Values : value' = [value EXCEPT ![e] = v]
  /\ out' = NoElem

ExtractMin ==
  \E e \in members :
    /\ \A d \in members : value[e] <= value[d]
    /\ members' = members \ {e}
    /\ out' = e
    /\ UNCHANGED value

Remove(e) ==
  /\ e \in members
  /\ members' = members \ {e}
  /\ out' = e
  /\ UNCHANGED value

Next == ExtractMin \/ (\E e \in Elems : Insert(e)) \/ \E e \in Removable : Remove(e)

Spec == Init /\ [][Next]_<<members, value, out>>
=============================================================================
