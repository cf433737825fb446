-------------------------- MODULE ReliableUDP_proofs --------------------------
(***************************************************************************)
(* The congestion window of reliable UDP, for any number of streams, any   *)
(* sizes of packets and any window of the client.                          *)
(*                                                                         *)
(* The argument: a packet is written only while fewer bytes are counted    *)
(* than the congestion window has, so the count passes the window by less  *)
(* than one packet; the congestion window stays between one and the        *)
(* client's window whatever it is grown, halved or set by; and both hold   *)
(* from the first PLAY, which sets the windows before anything is sent.    *)
(* The count is exact because a packet's bytes enter it with the packet    *)
(* and leave it with the packet, or all at once while PLAY clears the      *)
(* streams one by one.  The bytes are counted as a set of triples, whose   *)
(* cardinality grows and shrinks by the size of one packet at a time.      *)
(***************************************************************************)
EXTENDS ReliableUDP, FiniteSetTheorems, TLAPS

(* The two operators on pairs.                                             *)
LEMMA MinOfTwo ==
  ASSUME NEW x \in Int, NEW y \in Int
  PROVE  /\ MinOf({x, y}) \in {x, y}
         /\ MinOf({x, y}) <= x /\ MinOf({x, y}) <= y
<1>1. \E m \in {x, y} : \A n \in {x, y} : m <= n
  <2>1. CASE x <= y BY <2>1
  <2>2. CASE ~(x <= y) BY <2>2
  <2> QED BY <2>1, <2>2
<1> QED BY <1>1 DEF MinOf

LEMMA MaxOfTwo ==
  ASSUME NEW x \in Int, NEW y \in Int
  PROVE  /\ MaxOf({x, y}) \in {x, y}
         /\ MaxOf({x, y}) >= x /\ MaxOf({x, y}) >= y
<1>1. \E m \in {x, y} : \A n \in {x, y} : n <= m
  <2>1. CASE x <= y BY <2>1
  <2>2. CASE ~(x <= y) BY <2>2
  <2> QED BY <2>1, <2>2
<1> QED BY <1>1 DEF MaxOf

LEMMA Quotient ==
  ASSUME NEW x \in Nat, NEW y \in Nat \ {0}
  PROVE  x \div y \in Nat /\ x \div y <= x
  OBVIOUS

LEMMA Square ==
  ASSUME NEW x \in Nat
  PROVE  x * x \in Nat
  OBVIOUS

(* Whatever left the list, the congestion window stays between one and the *)
(* client's (EmptyWindow).                                                 *)
LEMMA GrownInRange ==
  ASSUME NEW window \in Nat \ {0}, NEW bytes \in Nat,
         fBytesInList \in Nat, fSlowStartThreshold \in Nat, fClientWindow \in Nat \ {0}
  PROVE  Grown(window, bytes) \in 1 .. fClientWindow
<1> DEFINE b == MinOf({bytes, fBytesInList})
           w == IF window >= fSlowStartThreshold THEN window + (b * b) \div window ELSE window + b
<1>1. b \in Nat
  <2>1. bytes \in Int /\ fBytesInList \in Int OBVIOUS
  <2>2. MinOf({bytes, fBytesInList}) \in {bytes, fBytesInList} BY <2>1, MinOfTwo
  <2> QED BY <2>2
<1>2. (b * b) \div window \in Nat
  <2> HIDE DEF b
  <2>1. b * b \in Nat BY <1>1, Square
  <2> QED BY <2>1, Quotient
<1>3. w \in Nat /\ w >= 1
  <2> HIDE DEF b
  <2> DEFINE d == (b * b) \div window
  <2>1. d \in Nat BY <1>2
  <2> HIDE DEF d
  <2>2. w = IF window >= fSlowStartThreshold THEN window + d ELSE window + b BY DEF d
  <2> QED BY <1>1, <2>1, <2>2
<1> HIDE DEF w
<1>4. MinOf({w, fClientWindow}) \in 1 .. fClientWindow
  BY <1>3, MinOfTwo
<1>5. Grown(window, bytes) = MinOf({w, fClientWindow}) BY DEF Grown, w
<1> QED BY <1>4, <1>5

-----------------------------------------------------------------------------
(* The inductive invariant: nothing happens before the first PLAY, which   *)
(* sets the client's window.                                               *)
Opened ==
  /\ fClientWindow = 0 => pc = "idle" /\ fState = "paused" /\ fBytesInList = 0
  /\ pc = "clear" => at[1] \in Streams

IInv == TypeOK /\ WithinTheWindow /\ Opened

LEMMA ClientWindowIsPositive ==
  ASSUME fClientWindow \in {0, WindowSize}, fClientWindow # 0
  PROVE  fClientWindow \in Nat \ {0} /\ fClientWindow >= kMaximumSegmentSize /\ fClientWindow > 0
  BY ReliableAssumption

(* The bytes that leave the list are not more than are in it.              *)
LEMMA EmptyWindowKeeps ==
  ASSUME IInv, fClientWindow # 0, UNCHANGED fClientWindow,
         NEW bytes \in Nat, EmptyWindow(bytes)
  PROVE  /\ fBytesInList' \in Nat /\ fBytesInList' <= fBytesInList
         /\ fCongestionWindow' \in 1 .. fClientWindow
         /\ fSlowStartThreshold' = fSlowStartThreshold
<1>1. fClientWindow \in Nat \ {0} /\ fClientWindow > 0
  BY ClientWindowIsPositive DEF IInv, TypeOK
<1>2. fBytesInList \in Nat /\ fSlowStartThreshold \in Nat /\ fCongestionWindow \in Nat \ {0}
  BY <1>1 DEF IInv, TypeOK, WithinTheWindow
<1>3. /\ fBytesInList' = fBytesInList - MinOf({bytes, fBytesInList})
      /\ fCongestionWindow' = Grown(fCongestionWindow, bytes)
      /\ fSlowStartThreshold' = fSlowStartThreshold
  BY DEF EmptyWindow, Grow
<1>4. MinOf({bytes, fBytesInList}) \in Nat /\ MinOf({bytes, fBytesInList}) <= fBytesInList
  <2>1. bytes \in Int /\ fBytesInList \in Int BY <1>2
  <2>2. /\ MinOf({bytes, fBytesInList}) \in {bytes, fBytesInList}
        /\ MinOf({bytes, fBytesInList}) <= fBytesInList BY <2>1, MinOfTwo
  <2> QED BY <2>2, <1>2
<1>5. Grown(fCongestionWindow, bytes) \in 1 .. fClientWindow
  BY <1>1, <1>2, GrownInRange
<1> QED BY <1>2, <1>3, <1>4, <1>5

LEMMA GrowKeeps ==
  ASSUME IInv, fClientWindow # 0, NEW bytes \in Nat, Grow(bytes)
  PROVE  /\ fCongestionWindow' \in 1 .. fClientWindow
         /\ fSlowStartThreshold' = fSlowStartThreshold
<1>1. fClientWindow \in Nat \ {0} /\ fClientWindow > 0
  BY ClientWindowIsPositive DEF IInv, TypeOK
<1>2. fBytesInList \in Nat /\ fSlowStartThreshold \in Nat /\ fCongestionWindow \in Nat \ {0}
  BY <1>1 DEF IInv, TypeOK, WithinTheWindow
<1>5. Grown(fCongestionWindow, bytes) \in 1 .. fClientWindow
  BY <1>1, <1>2, GrownInRange
<1> QED BY <1>5 DEF Grow

(* What is left of WithinTheWindow, once the numbers are known.            *)
LEMMA StillWithin ==
  ASSUME IInv, fClientWindow # 0, UNCHANGED fClientWindow,
         fBytesInList' \in Nat, fBytesInList' <= fBytesInList,
         fCongestionWindow' \in 1 .. fClientWindow, fSlowStartThreshold' \in Nat
  PROVE  /\ fCongestionWindow' \in Nat /\ fSlowStartThreshold' \in Nat /\ fBytesInList' \in Nat
         /\ fClientWindow' \in {0, WindowSize} /\ fClientWindow' # 0
         /\ WithinTheWindow'
<1>1. fClientWindow \in Nat \ {0} /\ fClientWindow > 0
  BY ClientWindowIsPositive DEF IInv, TypeOK
<1>2. fBytesInList < fClientWindow + kMaximumSegmentSize
  BY <1>1 DEF IInv, WithinTheWindow
<1>3. kMaximumSegmentSize \in Nat /\ fBytesInList \in Nat
  BY ReliableAssumption DEF IInv, TypeOK
<1>4. fBytesInList' < fClientWindow + kMaximumSegmentSize
  BY <1>1, <1>2, <1>3
<1> QED BY <1>1, <1>4 DEF WithinTheWindow, IInv, TypeOK

(* RemovePacket leaves an array of packets.                                *)
LEMMA RemovePacketType ==
  ASSUME TypeOK, NEW s \in Streams, NEW i \in DOMAIN fPacketArray[s], RemovePacket(s, i)
  PROVE  fPacketArray' \in [Streams -> Seq(Entry)]
<1> DEFINE a == fPacketArray[s]
           n == Len(a)
<1>1. a \in Seq(Entry) BY DEF TypeOK
<1>2. i \in 1 .. n /\ n \in Nat /\ n >= 1 BY <1>1
<1>3. a[n] \in Entry BY <1>1, <1>2
<1> HIDE DEF a
<1>4. [a EXCEPT ![i] = a[n]] \in Seq(Entry) /\ Len([a EXCEPT ![i] = a[n]]) = n
  BY <1>1, <1>2, <1>3 DEF n
<1>5. SubSeq([a EXCEPT ![i] = a[n]], 1, n - 1) \in Seq(Entry)
  BY <1>4, <1>2
<1>6. fPacketArray' = [fPacketArray EXCEPT ![s] = SubSeq([a EXCEPT ![i] = a[n]], 1, n - 1)]
  BY DEF RemovePacket, a, n
<1>7. fPacketArray \in [Streams -> Seq(Entry)] BY DEF TypeOK
<1> DEFINE rest == SubSeq([a EXCEPT ![i] = a[n]], 1, n - 1)
<1>8. rest \in Seq(Entry) /\ fPacketArray' = [fPacketArray EXCEPT ![s] = rest]
  BY <1>5, <1>6
<1> HIDE DEF rest
<1> QED BY <1>7, <1>8

LEMMA SizesInRange ==
  ASSUME NEW z \in Sizes
  PROVE  z \in Nat /\ z <= kMaximumSegmentSize
<1>1. z \in 1 .. kMaximumSegmentSize BY ReliableAssumption
<1> QED BY <1>1

LEMMA SizesAreNat ==
  ASSUME TypeOK, NEW s \in Streams, NEW i \in DOMAIN fPacketArray[s]
  PROVE  fPacketArray[s][i] \in Entry /\ fPacketArray[s][i].size \in Nat
<1>1. fPacketArray[s] \in Seq(Entry) BY DEF TypeOK
<1>2. fPacketArray[s][i] \in Entry BY <1>1
<1>3. fPacketArray[s][i].size \in Sizes BY <1>2 DEF Entry
<1> QED BY <1>2, <1>3, SizesInRange

LEMMA InitIInv == Init => IInv
<1> SUFFICES ASSUME Init PROVE IInv OBVIOUS
<1>1. fPacketArray \in [Streams -> Seq(Entry)] BY DEF Init
<1>2. at \in (0 .. NumStreams) \X Nat BY ReliableAssumption DEF Init, Nowhere
<1>3. fCongestionWindow \in Nat /\ fCurRetransmitTimeout \in MinRTO .. MaxRTO
  BY ReliableAssumption DEF Init
<1>4. TypeOK BY <1>1, <1>2, <1>3 DEF Init, TypeOK
<1> QED BY <1>4 DEF Init, IInv, WithinTheWindow, Opened

(* Steps that leave the tracker's numbers alone.                           *)
LEMMA SameNumbers ==
  ASSUME IInv, UNCHANGED <<fBytesInList, fCongestionWindow, fSlowStartThreshold, fClientWindow>>
  PROVE  WithinTheWindow'
  BY DEF IInv, WithinTheWindow

LEMMA NewEntry ==
  ASSUME NEW q \in Seqs, NEW z \in Sizes, NEW ageLimit \in AgeLimits
  PROVE  [seq |-> q, size |-> z, age |-> 0, life |-> ageLimit, resent |-> FALSE] \in Entry
<1>1. 0 \in 0 .. MaxRTO + 1 /\ ageLimit \in Nat BY ReliableAssumption
<1> QED BY <1>1 DEF Entry

LEMMA OlderEntry ==
  ASSUME NEW e \in Entry
  PROVE  Older(e) \in Entry
<1>1. e.age \in 0 .. MaxRTO + 1 /\ e.life \in Nat \cup {-1} /\ MaxRTO \in Nat
  BY ReliableAssumption DEF Entry
<1>2. MinOf({e.age + 1, MaxRTO + 1}) \in 0 .. MaxRTO + 1
  <2>1. e.age + 1 \in Int /\ MaxRTO + 1 \in Int BY <1>1
  <2>2. /\ MinOf({e.age + 1, MaxRTO + 1}) \in {e.age + 1, MaxRTO + 1}
        /\ MinOf({e.age + 1, MaxRTO + 1}) <= MaxRTO + 1 BY <2>1, MinOfTwo
  <2> QED BY <1>1, <2>2
<1>3. MaxOf({e.life - 1, -1}) \in Nat \cup {-1}
  <2>1. e.life - 1 \in Int /\ -1 \in Int BY <1>1
  <2>2. /\ MaxOf({e.life - 1, -1}) \in {e.life - 1, -1}
        /\ MaxOf({e.life - 1, -1}) >= -1 BY <2>1, MaxOfTwo
  <2> QED BY <1>1, <2>2
<1>4. Older(e) = [e EXCEPT !.age = MinOf({e.age + 1, MaxRTO + 1}),
                           !.life = MaxOf({e.life - 1, -1})]
  BY DEF Older
<1> DEFINE x == MinOf({e.age + 1, MaxRTO + 1})
           y == MaxOf({e.life - 1, -1})
<1>5. x \in 0 .. MaxRTO + 1 /\ y \in Nat \cup {-1} BY <1>2, <1>3
<1>6. Older(e) = [e EXCEPT !.age = x, !.life = y] BY <1>4
<1> HIDE DEF x, y
<1> QED BY <1>5, <1>6 DEF Entry

(* A retransmission halves the window to no less than one packet.          *)
LEMMA AdjustKeeps ==
  ASSUME IInv, fClientWindow # 0, AdjustWindowForRetransmit
  PROVE  /\ fCongestionWindow' \in 1 .. fClientWindow
         /\ fSlowStartThreshold' \in Nat /\ calm' \in BOOLEAN
<1>1. fClientWindow \in Nat \ {0} /\ fClientWindow > 0 /\ fClientWindow >= kMaximumSegmentSize
  BY ClientWindowIsPositive DEF IInv, TypeOK
<1>2. fSlowStartThreshold \in Nat /\ fCongestionWindow \in 1 .. fClientWindow
      /\ kMaximumSegmentSize \in Nat \ {0}
  BY <1>1, ReliableAssumption DEF IInv, TypeOK, WithinTheWindow
<1> DEFINE window == IF calm THEN fCongestionWindow \div 2 ELSE fCongestionWindow
<1>3. window \in Nat /\ window <= fClientWindow BY <1>1, <1>2
<1>4. fCongestionWindow' = MaxOf({window, kMaximumSegmentSize}) /\ calm' = FALSE
  BY DEF AdjustWindowForRetransmit
<1> HIDE DEF window
<1>5. fCongestionWindow' \in 1 .. fClientWindow
  <2>1. window \in Int /\ kMaximumSegmentSize \in Int BY <1>2, <1>3
  <2>2. /\ fCongestionWindow' \in {window, kMaximumSegmentSize}
        /\ fCongestionWindow' >= kMaximumSegmentSize BY <1>4, <2>1, MaxOfTwo
  <2> QED BY <1>1, <1>2, <1>3, <2>2
<1>6. fSlowStartThreshold' \in Nat
  <2> DEFINE threshold == MaxOf({fSlowStartThreshold, kMaximumSegmentSize})
  <2>1. fSlowStartThreshold \in Int /\ kMaximumSegmentSize \in Int BY <1>2
  <2>2. threshold \in {fSlowStartThreshold, kMaximumSegmentSize} BY <2>1, MaxOfTwo
  <2>3. threshold \in Nat BY <1>2, <2>2
  <2>4. fSlowStartThreshold' = IF calm THEN (fCongestionWindow * 3) \div 4 ELSE threshold
    BY DEF AdjustWindowForRetransmit
  <2> HIDE DEF threshold
  <2>5. (fCongestionWindow * 3) \div 4 \in Nat BY <1>2
  <2> QED BY <2>3, <2>4, <2>5
<1> QED BY <1>4, <1>5, <1>6

LEMMA SetWindowSizeKeeps ==
  ASSUME IInv, SetWindowSize
  PROVE  /\ fClientWindow' = WindowSize /\ WindowSize \in Nat \ {0}
         /\ fCongestionWindow' \in 1 .. WindowSize
         /\ fSlowStartThreshold' \in Nat /\ calm' \in BOOLEAN
<1>0. WindowSize \in Nat \ {0} /\ WindowSize >= 2 /\ kMaximumSegmentSize \in Nat
  BY ReliableAssumption
<1>1. CASE fClientWindow > 0
  <2>1. fClientWindow = WindowSize BY <1>1 DEF IInv, TypeOK
  <2>2. UNCHANGED <<fClientWindow, calm, fSlowStartThreshold, fCongestionWindow>>
    BY <1>1 DEF SetWindowSize
  <2> QED BY <1>0, <1>1, <2>1, <2>2 DEF IInv, TypeOK, WithinTheWindow
<1>2. CASE ~(fClientWindow > 0)
  <2> DEFINE threshold == IF UsesSlowStart THEN (WindowSize * 3) \div 4 ELSE WindowSize
  <2>1. threshold \in Nat BY <1>0
  <2>2. /\ fClientWindow' = WindowSize /\ calm' = TRUE
        /\ fSlowStartThreshold' = MaxOf({threshold, kMaximumSegmentSize})
        /\ fCongestionWindow' = IF UsesSlowStart THEN WindowSize \div 2 ELSE WindowSize
    BY <1>2 DEF SetWindowSize
  <2> HIDE DEF threshold
  <2>3. fSlowStartThreshold' \in Nat
    <3>1. threshold \in Int /\ kMaximumSegmentSize \in Int BY <1>0, <2>1
    <3>2. fSlowStartThreshold' \in {threshold, kMaximumSegmentSize} BY <2>2, <3>1, MaxOfTwo
    <3> QED BY <1>0, <2>1, <3>2
  <2>4. fCongestionWindow' \in 1 .. WindowSize BY <1>0, <2>2
  <2> QED BY <1>0, <2>2, <2>3, <2>4
<1> QED BY <1>1, <1>2

-----------------------------------------------------------------------------
LEMMA NextIInv == IInv /\ [Next]_vars => IInv'
<1> SUFFICES ASSUME IInv, [Next]_vars PROVE IInv' OBVIOUS
<1> USE DEF IInv
<1>0. fClientWindow = 0 => pc = "idle" /\ fState = "paused" BY DEF Opened
<1>1. CASE Play
  <2>1. /\ pc' = "clear" /\ at' = <<1, 0>> /\ fState' = "playing" /\ scheduled' = TRUE
        /\ ended' = FALSE /\ SetWindowSize
        /\ UNCHANGED <<fPacketArray, fBytesInList, fCurRetransmitTimeout>>
    BY <1>1 DEF Play
  <2>2. /\ fClientWindow' = WindowSize /\ WindowSize \in Nat \ {0}
        /\ fCongestionWindow' \in 1 .. WindowSize
        /\ fSlowStartThreshold' \in Nat /\ calm' \in BOOLEAN
    BY <2>1, SetWindowSizeKeeps
  <2>3. 1 \in Streams /\ <<1, 0>> \in (0 .. NumStreams) \X Nat /\ <<1, 0>>[1] = 1
    BY ReliableAssumption DEF Streams
  <2>4. fCongestionWindow' \in Nat BY <2>2
  <2>5. TypeOK' BY <2>1, <2>2, <2>3, <2>4 DEF TypeOK
  <2>6. Opened' BY <2>1, <2>2, <2>3 DEF Opened
  <2>7. WithinTheWindow'
    <3>1. CASE fClientWindow = 0
      <4>1. fBytesInList = 0 BY <3>1 DEF Opened
      <4> QED BY <4>1, <2>1, <2>2, ReliableAssumption DEF WithinTheWindow
    <3>2. CASE fClientWindow # 0
      <4>1. fClientWindow = WindowSize BY <3>2 DEF TypeOK
      <4>2. fBytesInList < WindowSize + kMaximumSegmentSize
        BY <4>1, <2>2 DEF WithinTheWindow
      <4> QED BY <4>2, <2>1, <2>2 DEF WithinTheWindow
    <3> QED BY <3>1, <3>2
  <2> QED BY <2>5, <2>6, <2>7
<1>2. CASE Pause
  <2>1. /\ UNCHANGED <<fPacketArray, fBytesInList, fCongestionWindow, fSlowStartThreshold,
                       fClientWindow, calm, fCurRetransmitTimeout, scheduled, ended, pc, at>>
        /\ pc = "idle" /\ fState' = "paused"
    BY <1>2 DEF Pause, tracker
  <2>2. WithinTheWindow' BY <2>1, SameNumbers
  <2> QED BY <2>1, <2>2 DEF TypeOK, Opened
<1>3. CASE RunPaused
  <2>1. /\ UNCHANGED <<fPacketArray, fBytesInList, fCongestionWindow, fSlowStartThreshold,
                       fClientWindow, calm, fCurRetransmitTimeout, fState, ended, pc, at>>
        /\ scheduled' = FALSE
    BY <1>3 DEF RunPaused, tracker
  <2>2. WithinTheWindow' BY <2>1, SameNumbers
  <2> QED BY <2>1, <2>2 DEF TypeOK, Opened
<1>4. CASE RunRetransmits \/ RunModule \/ ReliableRTPWrite
  <2>1. /\ UNCHANGED <<fPacketArray, fBytesInList, fCongestionWindow, fSlowStartThreshold,
                       fClientWindow, calm, fCurRetransmitTimeout, fState, scheduled, ended, at>>
        /\ pc' \in {"retransmit", "module", "write"}
        /\ fState = "playing" \/ pc = "module"
    BY <1>4 DEF RunRetransmits, RunModule, ReliableRTPWrite, tracker, task
  <2>2. WithinTheWindow' BY <2>1, SameNumbers
  <2>3. fClientWindow # 0 BY <2>1, <1>0
  <2> QED BY <2>1, <2>2, <2>3 DEF TypeOK, Opened
<1>5. CASE EndRetransmits \/ EndOfMovie \/ TooEarly \/ WouldBlock
  <2>1. /\ UNCHANGED <<fPacketArray, fBytesInList, fCongestionWindow, fSlowStartThreshold,
                       fClientWindow, calm, fCurRetransmitTimeout>>
        /\ pc # "idle" /\ pc' = "idle" /\ scheduled' \in BOOLEAN /\ ended' \in {ended, TRUE}
        /\ fState' \in {fState, "playing", "paused"}
        /\ at' \in {at, Nowhere}
    BY <1>5 DEF EndRetransmits, EndOfMovie, TooEarly, WouldBlock, Return, PassIsOver, tracker
  <2>2. WithinTheWindow' BY <2>1, SameNumbers
  <2>3. fClientWindow # 0 BY <2>1, <1>0
  <2>4. Nowhere \in (0 .. NumStreams) \X Nat BY ReliableAssumption DEF Nowhere
  <2>5. TypeOK' BY <2>1, <2>4 DEF TypeOK
  <2> QED BY <2>1, <2>2, <2>3, <2>5 DEF Opened
<1>6. CASE ClearPacket
  <2> DEFINE s == at[1]
  <2>1. s \in Streams /\ fPacketArray[s] # <<>> /\ pc = "clear"
    BY <1>6 DEF ClearPacket, Opened
  <2>2. fPacketArray[s] \in Seq(Entry) /\ 1 \in DOMAIN fPacketArray[s]
    BY <2>1 DEF TypeOK
  <2>3. fPacketArray[s][1].size \in Nat BY <2>1, <2>2, SizesAreNat
  <2>4. fClientWindow # 0 BY <2>1, <1>0
  <2>5. Grow(fPacketArray[s][1].size) BY <1>6 DEF ClearPacket
  <2>6. fCongestionWindow' \in 1 .. fClientWindow /\ fSlowStartThreshold' = fSlowStartThreshold
    BY <2>3, <2>4, <2>5, GrowKeeps
  <2>7. /\ fPacketArray' = [fPacketArray EXCEPT ![s] = Tail(fPacketArray[s])]
        /\ UNCHANGED <<fBytesInList, fClientWindow, calm, fCurRetransmitTimeout, fState,
                       scheduled, ended, pc, at>>
    BY <1>6 DEF ClearPacket, task
  <2>8. Tail(fPacketArray[s]) \in Seq(Entry) BY <2>1, <2>2
  <2> HIDE DEF s
  <2>9. fPacketArray' \in [Streams -> Seq(Entry)] BY <2>1, <2>7, <2>8 DEF TypeOK
  <2>10. fBytesInList' \in Nat /\ fBytesInList' <= fBytesInList /\ fSlowStartThreshold' \in Nat
    BY <2>6, <2>7 DEF TypeOK
  <2>11. /\ fCongestionWindow' \in Nat /\ fClientWindow' # 0 /\ fClientWindow' \in {0, WindowSize}
         /\ WithinTheWindow'
    BY <2>4, <2>6, <2>7, <2>10, StillWithin
  <2>12. TypeOK' BY <2>7, <2>9, <2>10, <2>11 DEF TypeOK
  <2>13. Opened' BY <2>7, <2>11 DEF Opened
  <2> QED BY <2>11, <2>12, <2>13
<1>7. CASE ClearStream
  <2>1. at[1] \in Streams /\ pc = "clear" BY <1>7 DEF ClearStream, Opened
  <2>2. fClientWindow # 0 BY <2>1, <1>0
  <2>3. /\ EmptyWindow(fBytesInList)
        /\ UNCHANGED <<fPacketArray, fClientWindow, calm, fCurRetransmitTimeout, fState,
                       scheduled, ended>>
    BY <1>7 DEF ClearStream, task
  <2>4. fBytesInList \in Nat BY DEF TypeOK
  <2>5. /\ fBytesInList' \in Nat /\ fBytesInList' <= fBytesInList
        /\ fCongestionWindow' \in 1 .. fClientWindow
        /\ fSlowStartThreshold' = fSlowStartThreshold
    BY <2>2, <2>3, <2>4, EmptyWindowKeeps
  <2>6. fSlowStartThreshold' \in Nat BY <2>5 DEF TypeOK
  <2>7. /\ fCongestionWindow' \in Nat /\ fClientWindow' # 0 /\ fClientWindow' \in {0, WindowSize}
        /\ WithinTheWindow'
    BY <2>2, <2>3, <2>5, <2>6, StillWithin
  <2>8. /\ pc' \in {"idle", "clear"} /\ at' \in (0 .. NumStreams) \X Nat
        /\ pc' = "clear" => at'[1] \in Streams
    <3>1. CASE at[1] = NumStreams
      <4>1. pc' = "idle" /\ at' = Nowhere BY <1>7, <3>1 DEF ClearStream
      <4> QED BY <4>1, ReliableAssumption DEF Nowhere
    <3>2. CASE at[1] # NumStreams
      <4>1. pc' = "clear" /\ at' = <<at[1] + 1, 0>> BY <1>7, <2>1, <3>2 DEF ClearStream
      <4>2. at[1] + 1 \in 1 .. NumStreams BY <2>1, <3>2, ReliableAssumption DEF Streams
      <4> QED BY <4>1, <4>2, ReliableAssumption DEF Streams
    <3> QED BY <3>1, <3>2
  <2>9. TypeOK' BY <2>3, <2>5, <2>6, <2>7, <2>8 DEF TypeOK
  <2>10. Opened' BY <2>7, <2>8 DEF Opened
  <2> QED BY <2>7, <2>9, <2>10
<1>8. CASE ResendDueEntries
  <2>1. pc \in {"retransmit", "write"} BY <1>8 DEF ResendDueEntries
  <2>2. fClientWindow # 0 BY <2>1, <1>0
  <2>3. PICK x \in DueEntries :
          /\ at' = x
          /\ IF fPacketArray[x[1]][x[2]].life < 0 THEN Expire(x[1], x[2])
                                                  ELSE Resend(x[1], x[2])
    BY <1>8 DEF ResendDueEntries
  <2>4. UNCHANGED <<fClientWindow, fState, scheduled, ended, pc>>
    BY <1>8 DEF ResendDueEntries, task
  <2>5. /\ x \in Streams \X (1 .. SeqNums) /\ x[1] \in Streams
        /\ x[2] \in DOMAIN fPacketArray[x[1]]
    BY <2>3 DEF DueEntries
  <2>6. at' \in (0 .. NumStreams) \X Nat
    BY <2>3, <2>5, ReliableAssumption DEF Streams
  <2>7. fPacketArray[x[1]][x[2]] \in Entry /\ fPacketArray[x[1]][x[2]].size \in Nat
    BY <2>5, SizesAreNat
  <2>8. CASE Expire(x[1], x[2])
    <3>1. /\ EmptyWindow(fPacketArray[x[1]][x[2]].size) /\ RemovePacket(x[1], x[2])
          /\ UNCHANGED <<calm, fCurRetransmitTimeout>>
      BY <2>8 DEF Expire
    <3>2. /\ fBytesInList' \in Nat /\ fBytesInList' <= fBytesInList
          /\ fCongestionWindow' \in 1 .. fClientWindow
          /\ fSlowStartThreshold' = fSlowStartThreshold
      BY <2>2, <2>4, <2>7, <3>1, EmptyWindowKeeps
    <3>3. fPacketArray' \in [Streams -> Seq(Entry)] BY <2>5, <3>1, RemovePacketType
    <3>4. fSlowStartThreshold' \in Nat BY <3>2 DEF TypeOK
    <3>5. /\ fCongestionWindow' \in Nat /\ fClientWindow' # 0
          /\ fClientWindow' \in {0, WindowSize} /\ WithinTheWindow'
      BY <2>2, <2>4, <3>2, <3>4, StillWithin
    <3>6. TypeOK' BY <2>4, <2>6, <3>1, <3>2, <3>3, <3>4, <3>5 DEF TypeOK
    <3> QED BY <2>1, <2>4, <3>5, <3>6 DEF Opened
  <2>9. CASE Resend(x[1], x[2])
    <3>1. /\ fPacketArray' = [fPacketArray EXCEPT ![x[1]][x[2]].age = 0,
                                                  ![x[1]][x[2]].resent = TRUE]
          /\ AdjustWindowForRetransmit /\ UNCHANGED fBytesInList
          /\ UNCHANGED fCurRetransmitTimeout \/ AddToRTTEstimate
      BY <2>9 DEF Resend
    <3>2. /\ fCongestionWindow' \in 1 .. fClientWindow
          /\ fSlowStartThreshold' \in Nat /\ calm' \in BOOLEAN
      BY <2>2, <3>1, AdjustKeeps
    <3>3. fPacketArray' \in [Streams -> Seq(Entry)]
      <4>1. fPacketArray[x[1]] \in Seq(Entry) BY <2>5 DEF TypeOK
      <4> DEFINE e == [fPacketArray[x[1]][x[2]] EXCEPT !.age = 0, !.resent = TRUE]
                 a == [fPacketArray[x[1]] EXCEPT ![x[2]] = e]
      <4>2. e \in Entry
        <5>1. 0 \in 0 .. MaxRTO + 1 BY ReliableAssumption
        <5> QED BY <2>7, <5>1 DEF Entry
      <4>3. fPacketArray' = [fPacketArray EXCEPT ![x[1]] = a]
        BY <2>5, <3>1 DEF TypeOK
      <4> HIDE DEF e
      <4>4. a \in Seq(Entry) BY <4>1, <4>2, <2>5
      <4> HIDE DEF a
      <4> QED BY <2>5, <4>3, <4>4 DEF TypeOK
    <3>4. fBytesInList' \in Nat /\ fBytesInList' <= fBytesInList BY <3>1 DEF TypeOK
    <3>5. /\ fCongestionWindow' \in Nat /\ fClientWindow' # 0
          /\ fClientWindow' \in {0, WindowSize} /\ WithinTheWindow'
      BY <2>2, <2>4, <3>2, <3>4, StillWithin
    <3>6. fCurRetransmitTimeout' \in MinRTO .. MaxRTO BY <3>1 DEF AddToRTTEstimate, TypeOK
    <3>7. TypeOK' BY <2>4, <2>6, <3>2, <3>3, <3>4, <3>5, <3>6 DEF TypeOK
    <3> QED BY <2>1, <2>4, <3>5, <3>7 DEF Opened
  <2> QED BY <2>3, <2>8, <2>9
<1>9. ASSUME NEW s \in Streams, NEW q \in Seqs, NEW z \in Sizes, NEW a \in AgeLimits,
             Write(s, q, z, a)
      PROVE  IInv'
  <2>1. /\ pc = "write" /\ pc' = "module" /\ ~IsFlowControlled /\ AddPacket(s, q, z, a)
        /\ UNCHANGED <<fCongestionWindow, fSlowStartThreshold, fClientWindow, calm,
                       fCurRetransmitTimeout, fState, scheduled, ended>>
        /\ at' = Nowhere
    BY <1>9 DEF Write, PassIsOver, task
  <2>2. fClientWindow # 0 BY <2>1, <1>0
  <2>3. fClientWindow \in Nat \ {0} /\ fClientWindow > 0
    BY <2>2, ClientWindowIsPositive DEF TypeOK
  <2>4. /\ fCongestionWindow \in 1 .. fClientWindow /\ fBytesInList \in Nat
        /\ fBytesInList < fCongestionWindow
    BY <2>1, <2>3 DEF WithinTheWindow, TypeOK, IsFlowControlled
  <2>5. z \in Nat /\ z <= kMaximumSegmentSize /\ kMaximumSegmentSize \in Nat
    BY SizesInRange, ReliableAssumption
  <2>6. Nowhere \in (0 .. NumStreams) \X Nat BY ReliableAssumption DEF Nowhere
  <2>7. /\ fPacketArray' \in [Streams -> Seq(Entry)]
        /\ fBytesInList' \in {fBytesInList, fBytesInList + z}
    <3>1. CASE a <= 0 \/ Index(s, q) # {} BY <2>1, <3>1 DEF AddPacket, TypeOK
    <3>2. CASE ~(a <= 0 \/ Index(s, q) # {})
      <4> DEFINE e == [seq |-> q, size |-> z, age |-> 0, life |-> a, resent |-> FALSE]
      <4>1. e \in Entry BY NewEntry
      <4>2. /\ fPacketArray' = [fPacketArray EXCEPT ![s] = Append(fPacketArray[s], e)]
            /\ fBytesInList' = fBytesInList + z
        BY <2>1, <3>2 DEF AddPacket, FillWindow
      <4> HIDE DEF e
      <4>3. Append(fPacketArray[s], e) \in Seq(Entry) BY <4>1 DEF TypeOK
      <4> QED BY <4>2, <4>3 DEF TypeOK
    <3> QED BY <3>1, <3>2
  <2>8. fBytesInList' \in Nat /\ fBytesInList' < fClientWindow + kMaximumSegmentSize
    BY <2>3, <2>4, <2>5, <2>7
  <2>9. TypeOK' BY <2>1, <2>6, <2>7, <2>8 DEF TypeOK
  <2>10. WithinTheWindow' BY <2>1, <2>4, <2>8 DEF WithinTheWindow
  <2> QED BY <2>1, <2>2, <2>9, <2>10 DEF Opened
<1>10. ASSUME NEW s \in Streams, NEW q \in Seqs, Ack(s, q)
       PROVE  IInv'
  <2>1. /\ pc = "idle" /\ fClientWindow > 0 /\ AckPacket(s, q)
        /\ UNCHANGED <<fClientWindow, calm, fState, scheduled, ended, pc, at>>
    BY <1>10 DEF Ack, task
  <2>2. fClientWindow # 0 BY <2>1
  <2>3. CASE Index(s, q) = {}
    <3>1. /\ Grow(kMaximumSegmentSize)
          /\ UNCHANGED <<fPacketArray, fBytesInList, fCurRetransmitTimeout>>
      BY <2>1, <2>3 DEF AckPacket
    <3>2. kMaximumSegmentSize \in Nat BY ReliableAssumption
    <3>3. fCongestionWindow' \in 1 .. fClientWindow /\ fSlowStartThreshold' = fSlowStartThreshold
      BY <2>2, <3>1, <3>2, GrowKeeps
    <3>4. fBytesInList' \in Nat /\ fBytesInList' <= fBytesInList /\ fSlowStartThreshold' \in Nat
      BY <3>1, <3>3 DEF TypeOK
    <3>5. /\ fCongestionWindow' \in Nat /\ fClientWindow' # 0
          /\ fClientWindow' \in {0, WindowSize} /\ WithinTheWindow'
      BY <2>1, <2>2, <3>3, <3>4, StillWithin
    <3>6. TypeOK' BY <2>1, <3>1, <3>4, <3>5 DEF TypeOK
    <3> QED BY <2>1, <3>5, <3>6 DEF Opened
  <2>4. CASE Index(s, q) # {}
    <3>1. PICK i \in Index(s, q) :
            /\ EmptyWindow(fPacketArray[s][i].size)
            /\ UNCHANGED fCurRetransmitTimeout \/ AddToRTTEstimate
            /\ RemovePacket(s, i)
      BY <2>1, <2>4 DEF AckPacket
    <3>2. i \in DOMAIN fPacketArray[s] BY DEF Index
    <3>3. fPacketArray[s][i].size \in Nat BY <3>2, SizesAreNat
    <3>4. /\ fBytesInList' \in Nat /\ fBytesInList' <= fBytesInList
          /\ fCongestionWindow' \in 1 .. fClientWindow
          /\ fSlowStartThreshold' = fSlowStartThreshold
      BY <2>1, <2>2, <3>1, <3>3, EmptyWindowKeeps
    <3>5. fPacketArray' \in [Streams -> Seq(Entry)] BY <3>1, <3>2, RemovePacketType
    <3>6. fSlowStartThreshold' \in Nat /\ fCurRetransmitTimeout' \in MinRTO .. MaxRTO
      BY <3>1, <3>4 DEF TypeOK, AddToRTTEstimate
    <3>7. /\ fCongestionWindow' \in Nat /\ fClientWindow' # 0
          /\ fClientWindow' \in {0, WindowSize} /\ WithinTheWindow'
      BY <2>1, <2>2, <3>4, <3>6, StillWithin
    <3>8. TypeOK' BY <2>1, <3>4, <3>5, <3>6, <3>7 DEF TypeOK
    <3> QED BY <2>1, <3>7, <3>8 DEF Opened
  <2> QED BY <2>3, <2>4
<1>11. CASE Tick
  <2>1. /\ fPacketArray' = [s \in Streams |->
              [i \in DOMAIN fPacketArray[s] |-> Older(fPacketArray[s][i])]]
        /\ calm' = TRUE
        /\ UNCHANGED <<fBytesInList, fCongestionWindow, fSlowStartThreshold, fClientWindow,
                       fCurRetransmitTimeout, fState, scheduled, ended, pc, at>>
    BY <1>11 DEF Tick, task
  <2>2. ASSUME NEW s \in Streams
        PROVE  [i \in DOMAIN fPacketArray[s] |-> Older(fPacketArray[s][i])] \in Seq(Entry)
    <3>1. fPacketArray[s] \in Seq(Entry) BY DEF TypeOK
    <3>2. \A i \in DOMAIN fPacketArray[s] : fPacketArray[s][i] \in Entry BY <3>1
    <3>3. \A i \in DOMAIN fPacketArray[s] : Older(fPacketArray[s][i]) \in Entry
      BY <3>2, OlderEntry
    <3>4. DOMAIN fPacketArray[s] = 1 .. Len(fPacketArray[s]) /\ Len(fPacketArray[s]) \in Nat
      BY <3>1
    <3> QED BY <3>3, <3>4
  <2>3. fPacketArray' \in [Streams -> Seq(Entry)] BY <2>1, <2>2
  <2>4. WithinTheWindow' BY <2>1, SameNumbers
  <2> QED BY <2>1, <2>3, <2>4 DEF TypeOK, Opened
<1>12. CASE UNCHANGED vars
  <2>1. WithinTheWindow' BY <1>12, SameNumbers DEF vars, tracker
  <2> QED BY <1>12, <2>1 DEF vars, tracker, task, TypeOK, Opened
<1> QED BY <1>1, <1>2, <1>3, <1>4, <1>5, <1>6, <1>7, <1>8, <1>9, <1>10, <1>11, <1>12
        DEF Next, Run, Rounds, Module

LEMMA Invariance == Spec => []IInv
<1>1. Init => IInv BY InitIInv
<1>2. IInv /\ [Next]_vars => IInv' BY NextIInv
<1> QED BY <1>1, <1>2, PTL DEF Spec

(* Every variable of the tracker and of the streams keeps its type; in     *)
(* particular the count of bytes never goes below zero.                    *)
THEOREM TypeCorrect == Spec => []TypeOK
<1>1. IInv => TypeOK BY DEF IInv
<1> QED BY <1>1, Invariance, PTL

(* What is out never passes the client's window by a packet, and the       *)
(* congestion window stays between one and the client's, however           *)
(* acknowledgements, retransmissions and PLAYs follow each other.          *)
THEOREM WithinTheWindowHolds == Spec => []WithinTheWindow
<1>1. IInv => WithinTheWindow BY DEF IInv
<1> QED BY <1>1, Invariance, PTL
-----------------------------------------------------------------------------
(* The count of bytes.  The bytes of the packets in an array of arrays are *)
(* triples; what a step adds and takes away are the bytes of one packet.   *)
Packet(s, i, size) == {<<s, i, b>> : b \in 1 .. size}
BytesIn(A) ==
  UNION {UNION {Packet(s, i, A[s][i].size) : i \in DOMAIN A[s]} : s \in Streams}

LEMMA InBytes ==
  ASSUME NEW A, NEW x
  PROVE  x \in BytesIn(A) <=>
           \E s \in Streams : \E i \in DOMAIN A[s] : x \in Packet(s, i, A[s][i].size)
  BY DEF BytesIn

LEMMA InPacket ==
  ASSUME NEW s, NEW i, NEW size, NEW x
  PROVE  x \in Packet(s, i, size) <=> \E b \in 1 .. size : x = <<s, i, b>>
  BY DEF Packet

(* Packets at different places share no byte.                              *)
LEMMA PacketsDiffer ==
  ASSUME NEW s, NEW i, NEW m, NEW t, NEW j, NEW n, NEW x,
         x \in Packet(s, i, m), x \in Packet(t, j, n)
  PROVE  s = t /\ i = j
<1>1. PICK b \in 1 .. m : x = <<s, i, b>>
  BY InPacket
<1>2. PICK c \in 1 .. n : x = <<t, j, c>>
  BY InPacket
<1>3. QED
  BY <1>1, <1>2

LEMMA PacketCard ==
  ASSUME NEW s, NEW i, NEW size \in Nat
  PROVE  IsFiniteSet(Packet(s, i, size)) /\ Cardinality(Packet(s, i, size)) = size
<1> DEFINE f == [b \in 1 .. size |-> <<s, i, b>>]
<1>1. f \in Bijection(1 .. size, Packet(s, i, size))
  <2>1. f \in [1 .. size -> Packet(s, i, size)]
    BY DEF Packet
  <2>2. \A b, c \in 1 .. size : f[b] = f[c] => b = c
    OBVIOUS
  <2>3. \A x \in Packet(s, i, size) : \E b \in 1 .. size : f[b] = x
    BY DEF Packet
  <2>4. QED
    BY <2>1, <2>2, <2>3 DEF Bijection, Injection, IsInjective, Surjection
<1>2. IsFiniteSet(1 .. size) /\ Cardinality(1 .. size) = size
  BY FS_Interval
<1>3. QED
  BY <1>1, <1>2, FS_Bijection DEF ExistsBijection

(* A set that another one leaves.                                          *)
LEMMA CardAdd ==
  ASSUME NEW S, NEW T, IsFiniteSet(S), IsFiniteSet(T), S \cap T = {}
  PROVE  /\ IsFiniteSet(S \cup T)
         /\ Cardinality(S \cup T) = Cardinality(S) + Cardinality(T)
         /\ Cardinality(S) \in Nat /\ Cardinality(T) \in Nat
  BY FS_Union, FS_EmptySet, FS_CardinalityType

(* Counted(A, n): n is the number of bytes in A.                           *)
Counted(A, n) == IsFiniteSet(BytesIn(A)) /\ n = Cardinality(BytesIn(A))

(* The bytes do not change with the ages of the packets.                   *)
LEMMA SameBytes ==
  ASSUME NEW A, NEW B,
         \A s \in Streams : /\ DOMAIN A[s] = DOMAIN B[s]
                            /\ \A i \in DOMAIN A[s] : A[s][i].size = B[s][i].size
  PROVE  BytesIn(A) = BytesIn(B)
<1>1. ASSUME NEW x PROVE x \in BytesIn(A) <=> x \in BytesIn(B)
  BY InBytes
<1>2. QED
  BY <1>1

LEMMA AppendBytes ==
  ASSUME NEW A \in [Streams -> Seq(Entry)], NEW s \in Streams, NEW e \in Entry, NEW n,
         e.size \in Nat, Counted(A, n)
  PROVE  Counted([A EXCEPT ![s] = Append(A[s], e)], n + e.size)
<1> DEFINE B == [A EXCEPT ![s] = Append(A[s], e)]
           m == Len(A[s]) + 1
           New == Packet(s, m, e.size)
<1>1. /\ B[s] = Append(A[s], e) /\ \A t \in Streams \ {s} : B[t] = A[t]
      /\ A[s] \in Seq(Entry)
  OBVIOUS
<1>2. /\ DOMAIN B[s] = DOMAIN A[s] \cup {m} /\ m \notin DOMAIN A[s]
      /\ B[s][m] = e /\ \A i \in DOMAIN A[s] : B[s][i] = A[s][i]
  BY <1>1
<1> HIDE DEF B, m
<1>3. BytesIn(B) = BytesIn(A) \cup New
  <2>1. ASSUME NEW x PROVE x \in BytesIn(B) <=> x \in BytesIn(A) \cup New
    <3>1. CASE x \in BytesIn(B)
      <4>1. PICK t, i : /\ t \in Streams /\ i \in DOMAIN B[t]
                      /\ x \in Packet(t, i, B[t][i].size)
        BY <3>1, InBytes
      <4>2. CASE t = s /\ i = m
        <5>1. x \in New
          BY <1>2, <4>1, <4>2
        <5>2. QED
          BY <3>1, <5>1
      <4>3. CASE ~(t = s /\ i = m)
        <5>1. i \in DOMAIN A[t] /\ B[t][i] = A[t][i]
          BY <1>1, <1>2, <4>1, <4>3
        <5>2. QED
          BY <4>1, <5>1, InBytes
      <4>4. QED
        BY <3>1, <4>2, <4>3
    <3>2. CASE x \in BytesIn(A)
      <4>1. PICK t, i : /\ t \in Streams /\ i \in DOMAIN A[t]
                      /\ x \in Packet(t, i, A[t][i].size)
        BY <3>2, InBytes
      <4>2. i \in DOMAIN B[t] /\ B[t][i] = A[t][i]
        BY <1>1, <1>2, <4>1
      <4>3. QED
        BY <3>2, <4>1, <4>2, InBytes
    <3>3. CASE x \in New
      BY <1>2, <3>3, InBytes
    <3>4. QED
      BY <3>1, <3>2, <3>3
  <2>2. QED
    BY <2>1
<1>4. BytesIn(A) \cap New = {}
  <2>1. ASSUME NEW x \in BytesIn(A), x \in New PROVE FALSE
    <3>1. PICK t, i : /\ t \in Streams /\ i \in DOMAIN A[t]
                      /\ x \in Packet(t, i, A[t][i].size)
      BY InBytes
    <3>2. t = s /\ i = m
      BY <2>1, <3>1, PacketsDiffer
    <3>3. QED
      BY <1>2, <3>1, <3>2
  <2>2. QED
    BY <2>1
<1>5. IsFiniteSet(New) /\ Cardinality(New) = e.size
  BY PacketCard
<1>6. QED
  BY <1>3, <1>4, <1>5, CardAdd DEF Counted, B, m

(* RemovePacket: the last packet moves into the hole.                      *)
LEMMA RemoveBytes ==
  ASSUME NEW A \in [Streams -> Seq(Entry)], NEW s \in Streams, NEW i \in DOMAIN A[s], NEW n,
         \A j \in DOMAIN A[s] : A[s][j].size \in Nat, Counted(A, n)
  PROVE  /\ Counted([A EXCEPT ![s] = SubSeq([A[s] EXCEPT ![i] = A[s][Len(A[s])]], 1, Len(A[s]) - 1)],
                    n - A[s][i].size)
         /\ A[s][i].size <= n /\ n \in Nat
<1> DEFINE last == Len(A[s])
           B == [A EXCEPT ![s] = SubSeq([A[s] EXCEPT ![i] = A[s][last]], 1, last - 1)]
           Hole  == Packet(s, i, A[s][i].size)
           Old   == Packet(s, last, A[s][last].size)
           Moved == Packet(s, i, A[s][last].size)
           Rest  == BytesIn(A) \ (Hole \cup Old)
<1>1. /\ A[s] \in Seq(Entry) /\ last \in Nat /\ last \in DOMAIN A[s] /\ i \in 1 .. last
      /\ DOMAIN A[s] = 1 .. last
  OBVIOUS
<1>2. /\ \A t \in Streams \ {s} : B[t] = A[t]
      /\ DOMAIN B[s] = 1 .. last - 1
      /\ \A j \in 1 .. last - 1 : B[s][j] = IF j = i THEN A[s][last] ELSE A[s][j]
  <2>1. B[s] = SubSeq([A[s] EXCEPT ![i] = A[s][last]], 1, last - 1)
    OBVIOUS
  <2>2. [A[s] EXCEPT ![i] = A[s][last]] \in Seq(Entry) /\ Len([A[s] EXCEPT ![i] = A[s][last]]) = last
    BY <1>1
  <2>3. \A j \in 1 .. last : [A[s] EXCEPT ![i] = A[s][last]][j] = IF j = i THEN A[s][last] ELSE A[s][j]
    BY <1>1
  <2>4. \A t \in Streams \ {s} : B[t] = A[t]
    OBVIOUS
  <2> HIDE DEF B
  <2>5. QED
    BY <1>1, <2>1, <2>2, <2>3, <2>4
<1> HIDE DEF B, last
<1>3. Hole \subseteq BytesIn(A) /\ Old \subseteq BytesIn(A)
  BY <1>1, InBytes
<1>4. /\ IsFiniteSet(Hole) /\ Cardinality(Hole) = A[s][i].size
      /\ IsFiniteSet(Old) /\ Cardinality(Old) = A[s][last].size
      /\ IsFiniteSet(Moved) /\ Cardinality(Moved) = A[s][last].size
  BY <1>1, PacketCard
<1>5. IsFiniteSet(BytesIn(A)) /\ IsFiniteSet(Rest) /\ n = Cardinality(BytesIn(A)) /\ n \in Nat
  BY FS_Subset, FS_CardinalityType DEF Counted
<1>6. \A x : x \in Rest <=> \E t \in Streams : \E j \in DOMAIN A[t] :
               x \in Packet(t, j, A[t][j].size) /\ ~(t = s /\ j \in {i, last})
  <2>1. ASSUME NEW x \in Rest
        PROVE  \E t \in Streams : \E j \in DOMAIN A[t] :
                 x \in Packet(t, j, A[t][j].size) /\ ~(t = s /\ j \in {i, last})
    <3>1. PICK t, j : /\ t \in Streams /\ j \in DOMAIN A[t]
                      /\ x \in Packet(t, j, A[t][j].size)
      BY InBytes
    <3>2. ~(t = s /\ j \in {i, last})
      BY <3>1
    <3>3. QED
      BY <3>1, <3>2
  <2>2. ASSUME NEW x, NEW t \in Streams, NEW j \in DOMAIN A[t],
               x \in Packet(t, j, A[t][j].size), ~(t = s /\ j \in {i, last})
        PROVE  x \in Rest
    <3>1. x \in BytesIn(A)
      BY <2>2, InBytes
    <3>2. x \notin Hole /\ x \notin Old
      BY <2>2, PacketsDiffer
    <3>3. QED
      BY <3>1, <3>2
  <2>3. QED
    BY <2>1, <2>2
<1>7. CASE i = last
  <2>1. BytesIn(B) = Rest
    <3>1. ASSUME NEW x PROVE x \in BytesIn(B) <=> x \in Rest
      <4>1. ASSUME x \in BytesIn(B) PROVE x \in Rest
        <5>1. PICK t, j : /\ t \in Streams /\ j \in DOMAIN B[t]
                      /\ x \in Packet(t, j, B[t][j].size)
          BY <4>1, InBytes
        <5>2. j \in DOMAIN A[t] /\ B[t][j] = A[t][j] /\ ~(t = s /\ j \in {i, last})
          BY <1>1, <1>2, <1>7, <5>1
        <5>3. QED
          BY <1>6, <5>1, <5>2
      <4>2. ASSUME x \in Rest PROVE x \in BytesIn(B)
        <5>1. PICK t, j : /\ t \in Streams /\ j \in DOMAIN A[t]
                      /\ x \in Packet(t, j, A[t][j].size)
                      /\ ~(t = s /\ j \in {i, last})
          BY <1>6, <4>2
        <5>2. j \in DOMAIN B[t] /\ B[t][j] = A[t][j]
          BY <1>1, <1>2, <1>7, <5>1
        <5>3. QED
          BY <5>1, <5>2, InBytes
      <4>3. QED
        BY <4>1, <4>2
    <3>2. QED
      BY <3>1
  <2>2. BytesIn(A) = Rest \cup Hole /\ Rest \cap Hole = {}
    BY <1>3, <1>7
  <2>3. n = Cardinality(Rest) + Cardinality(Hole) /\ Cardinality(Rest) \in Nat
    BY <1>4, <1>5, <2>2, CardAdd
  <2> HIDE DEF Rest, Hole
  <2>4. A[s][i].size \in Nat /\ Cardinality(Rest) = n - A[s][i].size
    BY <1>1, <1>4, <2>3
  <2>5. Counted(B, n - A[s][i].size)
    BY <1>5, <2>1, <2>4 DEF Counted
  <2>6. QED
    BY <1>4, <1>5, <2>3, <2>4, <2>5 DEF B, last
<1>8. CASE i # last
  <2>1. BytesIn(B) = Rest \cup Moved
    <3>1. ASSUME NEW x PROVE x \in BytesIn(B) <=> x \in Rest \cup Moved
      <4>1. ASSUME x \in BytesIn(B) PROVE x \in Rest \cup Moved
        <5>1. PICK t, j : /\ t \in Streams /\ j \in DOMAIN B[t]
                      /\ x \in Packet(t, j, B[t][j].size)
          BY <4>1, InBytes
        <5>2. CASE t = s /\ j = i
          BY <1>1, <1>2, <5>1, <5>2
        <5>3. CASE ~(t = s /\ j = i)
          <6>1. j \in DOMAIN A[t] /\ B[t][j] = A[t][j] /\ ~(t = s /\ j \in {i, last})
            BY <1>1, <1>2, <5>1, <5>3
          <6>2. QED
            BY <1>6, <5>1, <6>1
        <5>4. QED
          BY <5>2, <5>3
      <4>2. ASSUME x \in Rest PROVE x \in BytesIn(B)
        <5>1. PICK t, j : /\ t \in Streams /\ j \in DOMAIN A[t]
                      /\ x \in Packet(t, j, A[t][j].size)
                      /\ ~(t = s /\ j \in {i, last})
          BY <1>6, <4>2
        <5>2. j \in DOMAIN B[t] /\ B[t][j] = A[t][j]
          BY <1>1, <1>2, <5>1
        <5>3. QED
          BY <5>1, <5>2, InBytes
      <4>3. ASSUME x \in Moved PROVE x \in BytesIn(B)
        <5>1. i \in DOMAIN B[s] /\ B[s][i] = A[s][last]
          BY <1>1, <1>2, <1>8
        <5>2. QED
          BY <4>3, <5>1, InBytes
      <4>4. QED
        BY <4>1, <4>2, <4>3
    <3>2. QED
      BY <3>1
  <2>2. Hole \cap Old = {}
    BY <1>8, PacketsDiffer
  <2>3. Rest \cap Moved = {}
    <3>1. ASSUME NEW x \in Rest, x \in Moved PROVE FALSE
      BY <1>6, <3>1, PacketsDiffer
    <3>2. QED
      BY <3>1
  <2>4. /\ IsFiniteSet(Hole \cup Old)
        /\ Cardinality(Hole \cup Old) = A[s][i].size + A[s][last].size
    <3>1. /\ IsFiniteSet(Hole) /\ Cardinality(Hole) = A[s][i].size
          /\ IsFiniteSet(Old) /\ Cardinality(Old) = A[s][last].size
      BY <1>4
    <3> HIDE DEF Hole, Old
    <3>2. /\ IsFiniteSet(Hole \cup Old)
          /\ Cardinality(Hole \cup Old) = Cardinality(Hole) + Cardinality(Old)
      BY <2>2, <3>1, CardAdd, Zenon
    <3>3. QED
      BY <3>1, <3>2
  <2>5. BytesIn(A) = Rest \cup (Hole \cup Old) /\ Rest \cap (Hole \cup Old) = {}
    BY <1>3
  <2>6. /\ n = Cardinality(Rest) + (A[s][i].size + A[s][last].size)
        /\ Cardinality(Rest) \in Nat
    BY <1>5, <2>4, <2>5, CardAdd
  <2>7. /\ IsFiniteSet(BytesIn(B))
        /\ Cardinality(BytesIn(B)) = Cardinality(Rest) + A[s][last].size
    <3>1. /\ IsFiniteSet(Rest) /\ IsFiniteSet(Moved)
          /\ Cardinality(Moved) = A[s][last].size
      BY <1>4, <1>5
    <3> HIDE DEF Rest, Moved
    <3>2. /\ IsFiniteSet(Rest \cup Moved)
          /\ Cardinality(Rest \cup Moved) = Cardinality(Rest) + Cardinality(Moved)
      BY <2>3, <3>1, CardAdd, Zenon
    <3>3. QED
      BY <2>1, <3>1, <3>2
  <2>8. A[s][i].size \in Nat /\ A[s][last].size \in Nat
    BY <1>1
  <2>9. QED
    BY <2>6, <2>7, <2>8 DEF Counted, B, last
<1>9. QED
  BY <1>7, <1>8 DEF B, last

-----------------------------------------------------------------------------
(* The count is exact but while PLAY clears the streams, when the tracker  *)
(* is emptied before the streams that come next are; those behind are      *)
(* empty, so it is exact again at the end.                                 *)
BytesInv ==
  /\ pc # "clear" => Counted(fPacketArray, fBytesInList)
  /\ pc = "clear" => \A s \in Streams : s < at[1] => fPacketArray[s] = <<>>

LEMMA NothingOut ==
  ASSUME NEW A, \A s \in Streams : A[s] = <<>>
  PROVE  Counted(A, 0)
<1>1. BytesIn(A) = {}
  <2>1. ASSUME NEW x \in BytesIn(A) PROVE FALSE
    <3>1. PICK s, i : s \in Streams /\ i \in DOMAIN A[s]
      BY InBytes
    <3>2. QED
      BY <3>1
  <2>2. QED
    BY <2>1
<1>2. QED
  BY <1>1, FS_EmptySet DEF Counted

(* A packet that leaves its array takes its bytes out of the tracker.      *)
LEMMA TakenOut ==
  ASSUME TypeOK, Counted(fPacketArray, fBytesInList),
         NEW s \in Streams, NEW i \in DOMAIN fPacketArray[s],
         EmptyWindow(fPacketArray[s][i].size), RemovePacket(s, i)
  PROVE  Counted(fPacketArray, fBytesInList)'
<1>1. fPacketArray \in [Streams -> Seq(Entry)]
  BY DEF TypeOK
<1>2. \A j \in DOMAIN fPacketArray[s] : fPacketArray[s][j].size \in Nat
  BY SizesAreNat
<1> DEFINE size == fPacketArray[s][i].size
           B == [fPacketArray EXCEPT ![s] =
                  SubSeq([fPacketArray[s] EXCEPT ![i] = fPacketArray[s][Len(fPacketArray[s])]],
                         1, Len(fPacketArray[s]) - 1)]
<1>3. Counted(B, fBytesInList - size) /\ size <= fBytesInList /\ fBytesInList \in Nat /\ size \in Nat
  BY <1>1, <1>2, RemoveBytes
<1>4. fPacketArray' = B
  BY DEF RemovePacket
<1>5. fBytesInList' = fBytesInList - MinOf({size, fBytesInList})
  BY DEF EmptyWindow
<1> HIDE DEF size, B
<1>6. MinOf({size, fBytesInList}) = size
  <2>1. size \in Int /\ fBytesInList \in Int
    BY <1>3
  <2>2. /\ MinOf({size, fBytesInList}) \in {size, fBytesInList}
        /\ MinOf({size, fBytesInList}) <= size
    BY <2>1, MinOfTwo
  <2>3. QED
    BY <1>3, <2>2
<1>7. Counted(fPacketArray', fBytesInList')
  BY <1>3, <1>4, <1>5, <1>6
<1>8. QED
  BY <1>7 DEF Counted, BytesIn

LEMMA NextBytesInv ==
  ASSUME IInv, BytesInv, [Next]_vars
  PROVE  BytesInv'
<1> USE DEF IInv
<1>1. ASSUME pc # "clear", pc' # "clear", Counted(fPacketArray', fBytesInList')
      PROVE  BytesInv'
  <2>1. Counted(fPacketArray, fBytesInList)'
    BY <1>1 DEF Counted, BytesIn
  <2>2. QED
    BY <1>1, <2>1 DEF BytesInv
<1>2. ASSUME pc # "clear", pc' # "clear", UNCHANGED <<fPacketArray, fBytesInList>>
      PROVE  BytesInv'
  BY <1>1, <1>2 DEF BytesInv
<1>3. CASE Play
  <2>1. pc' = "clear" /\ at' = <<1, 0>>
    BY <1>3 DEF Play
  <2>2. QED
    BY <2>1 DEF BytesInv, Streams
<1>4. CASE Pause \/ Run \/ ReliableRTPWrite \/ EndRetransmits \/ Module \/ WouldBlock
  BY <1>2, <1>4
  DEF Pause, Run, RunPaused, RunRetransmits, RunModule, ReliableRTPWrite, EndRetransmits,
      Module, EndOfMovie, TooEarly, WouldBlock, Return, tracker
<1>5. CASE ClearPacket
  <2>1. /\ pc = "clear" /\ pc' = "clear" /\ at' = at
        /\ fPacketArray' = [fPacketArray EXCEPT ![at[1]] = Tail(@)]
    BY <1>5 DEF ClearPacket
  <2>2. at[1] \in Int
    BY DEF TypeOK
  <2>3. \A s \in Streams : s < at[1] => fPacketArray'[s] = fPacketArray[s]
    BY <2>1, <2>2 DEF TypeOK, Streams
  <2>4. QED
    BY <2>1, <2>3 DEF BytesInv
<1>6. CASE ClearStream
  <2>1. /\ pc = "clear" /\ fPacketArray[at[1]] = <<>> /\ fPacketArray' = fPacketArray
        /\ fBytesInList' = fBytesInList - MinOf({fBytesInList, fBytesInList})
    BY <1>6 DEF ClearStream, EmptyWindow
  <2>2. at[1] \in Streams /\ at[1] \in Int
    BY <2>1 DEF Opened, Streams
  <2>3. \A s \in Streams : s <= at[1] => fPacketArray[s] = <<>>
    BY <2>1, <2>2 DEF BytesInv, Streams
  <2>4. CASE at[1] = NumStreams
    <3>1. pc' = "idle"
      BY <1>6, <2>4 DEF ClearStream
    <3>2. \A s \in Streams : fPacketArray'[s] = <<>>
      BY <2>1, <2>3, <2>4 DEF Streams
    <3>3. fBytesInList' = 0
      <4>1. fBytesInList \in Int
        BY DEF TypeOK
      <4>2. MinOf({fBytesInList, fBytesInList}) = fBytesInList
        BY <4>1, MinOfTwo
      <4>3. QED
        BY <2>1, <4>1, <4>2
    <3>4. Counted(fPacketArray', fBytesInList')
      BY <3>2, <3>3, NothingOut
    <3>5. Counted(fPacketArray, fBytesInList)'
      BY <3>4 DEF Counted, BytesIn
    <3>6. QED
      BY <3>1, <3>5 DEF BytesInv
  <2>5. CASE at[1] # NumStreams
    <3>1. pc' = "clear" /\ at'[1] = at[1] + 1
      BY <1>6, <2>1, <2>5 DEF ClearStream
    <3>2. QED
      BY <2>1, <2>2, <2>3, <3>1 DEF BytesInv, Streams
  <2>6. QED
    BY <2>4, <2>5
<1>7. CASE ResendDueEntries
  <2>1. pc # "clear" /\ pc' = pc /\ Counted(fPacketArray, fBytesInList)
    BY <1>7 DEF ResendDueEntries, BytesInv
  <2>2. PICK x \in DueEntries : IF fPacketArray[x[1]][x[2]].life < 0 THEN Expire(x[1], x[2])
                                                                   ELSE Resend(x[1], x[2])
    BY <1>7 DEF ResendDueEntries
  <2>3. x[1] \in Streams /\ x[2] \in DOMAIN fPacketArray[x[1]]
    BY DEF DueEntries
  <2>4. CASE Expire(x[1], x[2])
    <3>1. Counted(fPacketArray, fBytesInList)'
      BY <2>1, <2>3, <2>4, TakenOut DEF Expire
    <3>2. QED
      BY <2>1, <3>1 DEF BytesInv
  <2>5. CASE Resend(x[1], x[2])
    <3>1. /\ fPacketArray' = [fPacketArray EXCEPT ![x[1]][x[2]].age = 0,
                                                  ![x[1]][x[2]].resent = TRUE]
          /\ fBytesInList' = fBytesInList
      BY <2>5 DEF Resend
    <3>2. /\ fPacketArray[x[1]] \in Seq(Entry)
          /\ fPacketArray[x[1]][x[2]] \in Entry
      BY <2>3, SizesAreNat DEF TypeOK
    <3> DEFINE e == [fPacketArray[x[1]][x[2]] EXCEPT !.age = 0, !.resent = TRUE]
               a == [fPacketArray[x[1]] EXCEPT ![x[2]] = e]
    <3>3. fPacketArray' = [fPacketArray EXCEPT ![x[1]] = a]
      BY <2>3, <3>1 DEF TypeOK
    <3>4. e.size = fPacketArray[x[1]][x[2]].size
      BY <3>2 DEF Entry
    <3> HIDE DEF e
    <3>5. /\ DOMAIN a = DOMAIN fPacketArray[x[1]]
          /\ \A i \in DOMAIN a : a[i].size = fPacketArray[x[1]][i].size
      BY <2>3, <3>4
    <3> HIDE DEF a
    <3>6. \A s \in Streams :
            /\ DOMAIN fPacketArray'[s] = DOMAIN fPacketArray[s]
            /\ \A i \in DOMAIN fPacketArray'[s] : fPacketArray'[s][i].size = fPacketArray[s][i].size
      BY <2>3, <3>3, <3>5 DEF TypeOK
    <3>7. BytesIn(fPacketArray') = BytesIn(fPacketArray)
      BY <3>6, SameBytes
    <3>8. QED
      BY <1>1, <2>1, <3>1, <3>7 DEF Counted
  <2>6. QED
    BY <2>2, <2>4, <2>5
<1>8. ASSUME NEW s \in Streams, NEW q \in Seqs, NEW z \in Sizes, NEW ageLimit \in AgeLimits,
             Write(s, q, z, ageLimit)
      PROVE  BytesInv'
  <2>1. /\ pc # "clear" /\ pc' # "clear" /\ AddPacket(s, q, z, ageLimit)
        /\ Counted(fPacketArray, fBytesInList)
    BY <1>8 DEF Write, BytesInv
  <2>2. CASE ageLimit <= 0 \/ Index(s, q) # {}
    BY <1>2, <2>1, <2>2 DEF AddPacket
  <2>3. CASE ~(ageLimit <= 0 \/ Index(s, q) # {})
    <3> DEFINE e == [seq |-> q, size |-> z, age |-> 0, life |-> ageLimit, resent |-> FALSE]
    <3>1. /\ fPacketArray' = [fPacketArray EXCEPT ![s] = Append(fPacketArray[s], e)]
          /\ fBytesInList' = fBytesInList + e.size
      BY <2>1, <2>3 DEF AddPacket, FillWindow
    <3>2. e \in Entry /\ e.size \in Nat
      BY NewEntry, SizesInRange
    <3> HIDE DEF e
    <3>3. Counted(fPacketArray', fBytesInList')
      BY <2>1, <3>1, <3>2, AppendBytes DEF TypeOK
    <3>4. QED
      BY <1>1, <2>1, <3>3
  <2>4. QED
    BY <2>2, <2>3
<1>9. ASSUME NEW s \in Streams, NEW q \in Seqs, Ack(s, q)
      PROVE  BytesInv'
  <2>1. pc # "clear" /\ pc' = pc /\ AckPacket(s, q) /\ Counted(fPacketArray, fBytesInList)
    BY <1>9 DEF Ack, BytesInv
  <2>2. CASE UNCHANGED <<fPacketArray, fBytesInList>>
    BY <1>2, <2>1, <2>2
  <2>3. ASSUME NEW i \in Index(s, q), EmptyWindow(fPacketArray[s][i].size), RemovePacket(s, i)
        PROVE  BytesInv'
    <3>1. i \in DOMAIN fPacketArray[s]
      BY DEF Index
    <3>2. Counted(fPacketArray, fBytesInList)'
      BY <2>1, <2>3, <3>1, TakenOut
    <3>3. QED
      BY <2>1, <3>2 DEF BytesInv
  <2>4. QED
    BY <2>1, <2>2, <2>3 DEF AckPacket
<1>10. CASE Tick
  <2>1. /\ fPacketArray' = [s \in Streams |->
             [i \in DOMAIN fPacketArray[s] |-> Older(fPacketArray[s][i])]]
        /\ fBytesInList' = fBytesInList /\ pc # "clear" /\ pc' = pc
    BY <1>10 DEF Tick
  <2>2. ASSUME NEW s \in Streams, NEW i \in DOMAIN fPacketArray[s]
        PROVE  Older(fPacketArray[s][i]).size = fPacketArray[s][i].size
    <3>1. fPacketArray[s][i] \in Entry
      BY SizesAreNat
    <3>2. QED
      BY <3>1 DEF Older, Entry
  <2>3. \A s \in Streams :
          /\ DOMAIN fPacketArray'[s] = DOMAIN fPacketArray[s]
          /\ \A i \in DOMAIN fPacketArray'[s] : fPacketArray'[s][i].size = fPacketArray[s][i].size
    BY <2>1, <2>2
  <2>4. BytesIn(fPacketArray') = BytesIn(fPacketArray)
    BY <2>3, SameBytes
  <2>5. QED
    BY <1>1, <2>1, <2>4 DEF Counted, BytesInv
<1>11. CASE UNCHANGED vars
  <2>1. CASE pc = "clear"
    BY <1>11, <2>1 DEF vars, BytesInv
  <2>2. CASE pc # "clear"
    BY <1>2, <1>11, <2>2 DEF vars, tracker
  <2>3. QED
    BY <2>1, <2>2
<1>12. QED
  BY <1>3, <1>4, <1>5, <1>6, <1>7, <1>8, <1>9, <1>10, <1>11 DEF Next, Rounds

(* The tracker counts exactly the bytes of the packets in the arrays of    *)
(* the streams that share it, whatever is repeated, acknowledged late,     *)
(* resent, expired or cleared by another PLAY.                             *)
THEOREM BytesInListHolds == Spec => []BytesInListIsExact
<1>1. Init => BytesInv
  <2>1. Init => Counted(fPacketArray, fBytesInList)
    <3> SUFFICES ASSUME Init PROVE Counted(fPacketArray, fBytesInList)
      OBVIOUS
    <3>1. fBytesInList = 0 /\ \A s \in Streams : fPacketArray[s] = <<>>
      BY DEF Init
    <3>2. QED
      BY <3>1, NothingOut
  <2>2. QED
    BY <2>1 DEF Init, BytesInv
<1>2. IInv /\ BytesInv /\ [Next]_vars => BytesInv'
  BY NextBytesInv
<1>3. BytesInv => BytesInListIsExact
  BY DEF BytesInv, BytesInListIsExact, Counted, BytesIn, Outstanding, BytesOf, Packet
<1>4. QED
  BY <1>1, <1>2, <1>3, Invariance, PTL DEF Spec
===============================================================================
