----------------------------- MODULE ReliableUDP -----------------------------
(***************************************************************************)
(* Media over reliable UDP (Server.tproj): the streams of one session keep *)
(* what they sent in an array each (RTPPacketResender) until the client    *)
(* acknowledges it or it is too old, send it again when the retransmit     *)
(* timeout has passed, and share one congestion window                     *)
(* (RTPBandwidthTracker).  The session's task runs the module that sends   *)
(* (QTSSFileModule); acknowledgements come by RTCP packets from a network  *)
(* that loses, doubles and reorders.                                       *)
(*                                                                         *)
(* Everything happens under the session mutex: a step is a PLAY, a PAUSE,  *)
(* an acknowledgement, or one round of a loop of the task, which has the   *)
(* mutex while pc is not "idle".  An acknowledgement that comes then is    *)
(* dropped (ProcessIncomingRTCPPacket only tries the mutex), as if the     *)
(* network had lost it.  The network may hold an acknowledgement for any   *)
(* time, so one may come for any sequence number once packets are sent.    *)
(*                                                                         *)
(* Time is kept as ages: an entry knows the ticks since it was last sent   *)
(* and the ticks until it expires, both cut off where no comparison tells  *)
(* the values apart.  A tick is at least 250 msec.                         *)
(*                                                                         *)
(* A definition named <operation>_<slip> is that operation with a slip,    *)
(* kept to show that a property would notice it.                           *)
(***************************************************************************)
EXTENDS Integers, Sequences, FiniteSets

CONSTANTS
  NumStreams,
  Sizes,               (* of packets, in some unit of bytes                *)
  kMaximumSegmentSize, (* in the same unit                                 *)
  WindowSize,          (* the client's window: fClientWindow once it plays *)
  UsesSlowStart,       (* BOOLEAN: fUseSlowStart                           *)
  MinRTO, MaxRTO,      (* kMin- and kMaxRetransmitIntervalMSecs, in ticks  *)
  AgeLimits,           (* lifetimes a packet may have left, in ticks       *)
  SeqNums              (* bound: sequence numbers are 0 .. SeqNums - 1     *)

Streams == 1 .. NumStreams
Seqs    == 0 .. SeqNums - 1

MaxOf(S) == CHOOSE x \in S : \A y \in S : y <= x
MinOf(S) == CHOOSE x \in S : \A y \in S : x <= y

ASSUME ReliableAssumption ==
  /\ NumStreams \in Nat \ {0}
  /\ Sizes \subseteq 1 .. kMaximumSegmentSize
  /\ kMaximumSegmentSize \in Nat \ {0}
  /\ WindowSize \in Nat /\ WindowSize >= kMaximumSegmentSize /\ WindowSize >= 2
  /\ UsesSlowStart \in BOOLEAN
  /\ MinRTO \in Nat /\ MaxRTO \in Nat /\ MinRTO <= MaxRTO
  /\ AgeLimits \subseteq Nat
  /\ SeqNums \in Nat /\ SeqNums >= 2

VARIABLES
  fPacketArray,          (* per stream: the packets not acknowledged yet   *)
  fBytesInList,          (* the bytes of all of them, as counted           *)
  fCongestionWindow,
  fSlowStartThreshold,
  fClientWindow,
  calm,                  (* fLastCongestionAdjust is over 250 msec ago     *)
  fCurRetransmitTimeout,
  fState,                (* "paused" or "playing"                          *)
  scheduled,             (* the session's task will run                    *)
  ended,                 (* the module asked not to be called again        *)
  pc,                    (* where the task is                              *)
  at                     (* the stream and the index in the resend loop    *)

tracker == <<fBytesInList, fCongestionWindow, fSlowStartThreshold, fClientWindow,
             calm, fCurRetransmitTimeout>>
task == <<fState, scheduled, ended>>
vars == <<fPacketArray, tracker, task, pc, at>>

Entry == [seq : Seqs, size : Sizes, age : 0 .. MaxRTO + 1, life : Nat \cup {-1},
          resent : BOOLEAN]

TypeOK ==
  /\ fPacketArray \in [Streams -> Seq(Entry)]
  /\ fBytesInList \in Nat
  /\ fCongestionWindow \in Nat /\ fSlowStartThreshold \in Nat
  /\ fClientWindow \in {0, WindowSize}
  /\ calm \in BOOLEAN
  /\ fCurRetransmitTimeout \in MinRTO .. MaxRTO
  /\ fState \in {"paused", "playing"}
  /\ scheduled \in BOOLEAN /\ ended \in BOOLEAN
  /\ pc \in {"idle", "clear", "module", "retransmit", "write"}
  /\ at \in (0 .. NumStreams) \X Nat

Nowhere == <<0, 0>>

Init ==
  /\ fPacketArray = [s \in Streams |-> <<>>]
  /\ fBytesInList = 0
  /\ fCongestionWindow = kMaximumSegmentSize /\ fSlowStartThreshold = 0
  /\ fClientWindow = 0
  /\ calm = TRUE
  /\ fCurRetransmitTimeout = MinRTO
  /\ fState = "paused" /\ scheduled = FALSE /\ ended = FALSE
  /\ pc = "idle" /\ at = Nowhere

-----------------------------------------------------------------------------
(* RTPBandwidthTracker *)

IsFlowControlled_OneMore == fBytesInList > fCongestionWindow

IsFlowControlled == fBytesInList >= fCongestionWindow

(* The congestion window grows by what left the list, by less once it is   *)
(* over the threshold, and never over the client's window.                 *)
Grown(window, bytes) ==
  LET b == MinOf({bytes, fBytesInList})
      w == IF window >= fSlowStartThreshold THEN window + (b * b) \div window ELSE window + b
  IN  MinOf({w, fClientWindow})

Grow(bytes) ==
  /\ fCongestionWindow' = Grown(fCongestionWindow, bytes)
  /\ UNCHANGED fSlowStartThreshold

EmptyWindow(bytes) ==
  /\ fBytesInList' = fBytesInList - MinOf({bytes, fBytesInList})
  /\ Grow(bytes)

FillWindow(bytes) == fBytesInList' = fBytesInList + bytes

(* A burst of retransmissions halves the window once.                      *)
AdjustWindowForRetransmit ==
  LET threshold == MaxOf({fSlowStartThreshold, kMaximumSegmentSize})
      window    == IF calm THEN fCongestionWindow \div 2 ELSE fCongestionWindow
  IN  /\ fSlowStartThreshold' = IF calm THEN (fCongestionWindow * 3) \div 4 ELSE threshold
      /\ fCongestionWindow' = MaxOf({window, kMaximumSegmentSize})
      /\ calm' = FALSE

(* The estimate of the round trip is kept between two limits; its value    *)
(* depends on the samples and is left open.                                *)
AddToRTTEstimate == fCurRetransmitTimeout' \in MinRTO .. MaxRTO

(* Set once, by the first PLAY.                                            *)
SetWindowSize ==
  IF fClientWindow > 0
    THEN UNCHANGED <<fClientWindow, calm, fSlowStartThreshold, fCongestionWindow>>
    ELSE /\ fClientWindow' = WindowSize
         /\ calm' = TRUE
         /\ LET threshold == IF UsesSlowStart THEN (WindowSize * 3) \div 4 ELSE WindowSize
            IN  fSlowStartThreshold' = MaxOf({threshold, kMaximumSegmentSize})
         /\ fCongestionWindow' = IF UsesSlowStart THEN WindowSize \div 2 ELSE WindowSize

-----------------------------------------------------------------------------
(* RTPPacketResender *)

Index(s, q) == {i \in DOMAIN fPacketArray[s] : fPacketArray[s][i].seq = q}

(* The last entry moves into the hole.                                     *)
RemovePacket(s, i) ==
  LET a == fPacketArray[s]
      n == Len(a)
  IN  fPacketArray' = [fPacketArray EXCEPT ![s] =
        SubSeq([a EXCEPT ![i] = a[n]], 1, n - 1)]

AddPacket_CountsRepeats(s, q, size, ageLimit) ==
  IF ageLimit <= 0
    THEN UNCHANGED <<fPacketArray, fBytesInList>>
    ELSE /\ FillWindow(size)
         /\ IF Index(s, q) # {} THEN UNCHANGED fPacketArray
            ELSE fPacketArray' = [fPacketArray EXCEPT ![s] = Append(@,
              [seq |-> q, size |-> size, age |-> 0, life |-> ageLimit, resent |-> FALSE])]

(* A packet that is too late is sent but not kept; a repeated one is in    *)
(* the array already.                                                      *)
AddPacket(s, q, size, ageLimit) ==
  IF ageLimit <= 0 \/ Index(s, q) # {}
    THEN UNCHANGED <<fPacketArray, fBytesInList>>
    ELSE /\ fPacketArray' = [fPacketArray EXCEPT ![s] = Append(@,
              [seq |-> q, size |-> size, age |-> 0, life |-> ageLimit, resent |-> FALSE])]
         /\ FillWindow(size)

(* An acknowledgement of a packet that is not in the array opens the       *)
(* window a little all the same.                                           *)
AckPacket(s, q) ==
  \/ /\ Index(s, q) = {}
     /\ Grow(kMaximumSegmentSize)
     /\ UNCHANGED <<fPacketArray, fBytesInList, fCurRetransmitTimeout>>
  \/ \E i \in Index(s, q) :
       /\ EmptyWindow(fPacketArray[s][i].size)
       /\ IF fPacketArray[s][i].resent THEN UNCHANGED fCurRetransmitTimeout
                                       ELSE AddToRTTEstimate
       /\ RemovePacket(s, i)

(* One entry of ResendDueEntries: a due one expires or is sent again.      *)
Expire(s, i) ==
  /\ EmptyWindow(fPacketArray[s][i].size)
  /\ RemovePacket(s, i)
  /\ UNCHANGED <<calm, fCurRetransmitTimeout>>

Resend(s, i) ==
  /\ IF fPacketArray[s][i].resent THEN UNCHANGED fCurRetransmitTimeout ELSE AddToRTTEstimate
  /\ fPacketArray' = [fPacketArray EXCEPT ![s][i].age = 0, ![s][i].resent = TRUE]
  /\ AdjustWindowForRetransmit
  /\ UNCHANGED fBytesInList

(* PLAY clears the streams one after the other.  Each packet of a stream   *)
(* opens the congestion window; the bytes leave the list at the end of the *)
(* first stream, all of them, those of the other streams included.         *)
ClearPacket ==
  LET s == at[1] IN
  /\ pc = "clear" /\ fPacketArray[s] # <<>>
  /\ fPacketArray' = [fPacketArray EXCEPT ![s] = Tail(@)]
  /\ Grow(fPacketArray[s][1].size)
  /\ UNCHANGED <<fBytesInList, fClientWindow, calm, fCurRetransmitTimeout, task, pc, at>>

ClearStream ==
  LET s == at[1] IN
  /\ pc = "clear" /\ fPacketArray[s] = <<>>
  /\ EmptyWindow(fBytesInList)
  /\ IF s = NumStreams THEN pc' = "idle" /\ at' = Nowhere
                       ELSE pc' = pc /\ at' = <<s + 1, 0>>
  /\ UNCHANGED <<fPacketArray, fClientWindow, calm, fCurRetransmitTimeout, task>>

IsDue(e) == e.age > fCurRetransmitTimeout

(* The due entries that the loops over the streams, and over the array of  *)
(* each, last one first, have not come to.                                 *)
DueEntries ==
  {x \in Streams \X (1 .. SeqNums) :
     /\ x[1] > at[1] \/ (x[1] = at[1] /\ x[2] < at[2])
     /\ x[2] \in DOMAIN fPacketArray[x[1]]
     /\ IsDue(fPacketArray[x[1]][x[2]])}

ResendDueEntries ==
  /\ pc \in {"retransmit", "write"}
  /\ \E x \in DueEntries :
       /\ \A y \in DueEntries : x[1] < y[1] \/ (x[1] = y[1] /\ x[2] >= y[2])
       /\ at' = x
       /\ IF fPacketArray[x[1]][x[2]].life < 0 THEN Expire(x[1], x[2])
                                              ELSE Resend(x[1], x[2])
  /\ UNCHANGED <<fClientWindow, task, pc>>

PassIsOver == DueEntries = {} /\ at' = Nowhere

-----------------------------------------------------------------------------
(* RTPSession *)

Play ==
  /\ pc = "idle"
  /\ fState' = "playing" /\ scheduled' = TRUE /\ ended' = FALSE
  /\ SetWindowSize
  /\ pc' = "clear" /\ at' = <<1, 0>>
  /\ UNCHANGED <<fPacketArray, fBytesInList, fCurRetransmitTimeout>>

Pause ==
  /\ pc = "idle" /\ fState = "playing"
  /\ fState' = "paused"
  /\ UNCHANGED <<fPacketArray, tracker, scheduled, ended, pc, at>>

(* Run: a paused session goes to sleep; before the next time to send only  *)
(* what is due is sent again, then the module is called.                   *)
RunPaused ==
  /\ pc = "idle" /\ scheduled /\ fState = "paused"
  /\ scheduled' = FALSE
  /\ UNCHANGED <<fPacketArray, tracker, fState, ended, pc, at>>

RunRetransmits ==
  /\ pc = "idle" /\ scheduled /\ fState = "playing"
  /\ pc' = "retransmit"
  /\ UNCHANGED <<fPacketArray, tracker, task, at>>

RunModule ==
  /\ pc = "idle" /\ scheduled /\ fState = "playing"
  /\ pc' = "module"
  /\ UNCHANGED <<fPacketArray, tracker, task, at>>

(* Run comes back, and is to be called again or not.                       *)
Return(again) ==
  /\ pc' = "idle" /\ scheduled' = again
  /\ UNCHANGED <<fPacketArray, tracker>>

EndRetransmits ==
  /\ pc = "retransmit" /\ PassIsOver
  /\ Return(TRUE)
  /\ UNCHANGED <<fState, ended>>

-----------------------------------------------------------------------------
(* QTSSFileModule's SendPackets and RTPStream::Write *)

(* The end of the movie, or the time to stop, for which it pauses.         *)
EndOfMovie ==
  /\ pc = "module"
  /\ fState' \in {"playing", "paused"} /\ ended' = TRUE
  /\ Return(FALSE)
  /\ UNCHANGED at

(* It is too early for the packet (CheckTransmitTime).                     *)
TooEarly ==
  /\ pc = "module"
  /\ Return(TRUE)
  /\ UNCHANGED <<fState, ended, at>>

(* ReliableRTPWrite begins with the retransmissions of all streams.        *)
ReliableRTPWrite ==
  /\ pc = "module"
  /\ pc' = "write"
  /\ UNCHANGED <<fPacketArray, tracker, task, at>>

WouldBlock_NoProbe ==
  /\ pc = "write" /\ PassIsOver /\ IsFlowControlled
  /\ Return(FALSE)
  /\ UNCHANGED <<fState, ended>>

(* The module tries again after sFlowControlProbeInterval.                 *)
WouldBlock ==
  /\ pc = "write" /\ PassIsOver /\ IsFlowControlled
  /\ Return(TRUE)
  /\ UNCHANGED <<fState, ended>>

(* Sequence numbers only have to differ: the first free one is the next.   *)
Fresh(s) == LET free == {q \in Seqs : Index(s, q) = {}}
            IN  IF free = {} THEN 0 ELSE MinOf(free)

(* A new packet, or a repetition of one sent before.                       *)
Write(s, q, size, ageLimit) ==
  /\ pc = "write" /\ PassIsOver /\ ~IsFlowControlled
  /\ q = Fresh(s) \/ Index(s, q) # {}
  /\ AddPacket(s, q, size, ageLimit)
  /\ pc' = "module"
  /\ UNCHANGED <<fCongestionWindow, fSlowStartThreshold, fClientWindow, calm,
                 fCurRetransmitTimeout, task>>

-----------------------------------------------------------------------------
(* ProcessIncomingRTCPPacket: the sequence number of an acknowledgement;   *)
(* those of its mask follow in the same way.                               *)
Ack(s, q) ==
  /\ pc = "idle" /\ fClientWindow > 0
  /\ AckPacket(s, q)
  /\ UNCHANGED <<fClientWindow, calm, task, pc, at>>

Older(e) == [e EXCEPT !.age = MinOf({@ + 1, MaxRTO + 1}), !.life = MaxOf({@ - 1, -1})]

Tick ==
  /\ pc \in {"idle", "module"}
  /\ fPacketArray' = [s \in Streams |-> [i \in DOMAIN fPacketArray[s] |-> Older(fPacketArray[s][i])]]
  /\ calm' = TRUE
  /\ UNCHANGED <<fBytesInList, fCongestionWindow, fSlowStartThreshold, fClientWindow,
                 fCurRetransmitTimeout, task, pc, at>>

Run == RunPaused \/ RunRetransmits \/ RunModule
Rounds ==
  \/ ClearPacket \/ ClearStream \/ ResendDueEntries \/ EndRetransmits \/ WouldBlock
  \/ \E s \in Streams, q \in Seqs, z \in Sizes, a \in AgeLimits : Write(s, q, z, a)
Module == EndOfMovie \/ TooEarly

Next ==
  \/ Play \/ Pause \/ Run \/ Rounds \/ Module \/ ReliableRTPWrite
  \/ \E s \in Streams, q \in Seqs : Ack(s, q)
  \/ Tick

Spec == Init /\ [][Next]_vars

(* The task runs when it is scheduled and goes on with what it began.      *)
(* Time passes.  A packet is not too early or too late for ever: its time  *)
(* comes, and dropping late ones catches up with the time.                 *)
FairSpec ==
  /\ Spec
  /\ WF_vars(Run \/ Rounds \/ Module)
  /\ SF_vars(ReliableRTPWrite) /\ SF_vars(Tick)

-----------------------------------------------------------------------------
(* Each byte of a packet in an array, by its stream, its place and its     *)
(* offset.                                                                 *)
BytesOf(s, i)  == {<<s, i, b>> : b \in 1 .. fPacketArray[s][i].size}
Outstanding(s) == UNION {BytesOf(s, i) : i \in DOMAIN fPacketArray[s]}

(* The tracker, shared by the streams, counts the bytes of the packets in  *)
(* their arrays and no other: counted too high the window would close for  *)
(* good, too low it would let too much out.  The assertion at the end of   *)
(* Play is a part of it.                                                   *)
BytesInListIsExact ==
  pc # "clear" => fBytesInList = Cardinality(UNION {Outstanding(s) : s \in Streams})

(* The assertion of the tracker, "mainly just to catch fBytesInList        *)
(* wrapping below 0", for which it adds the slack of a packet to the       *)
(* client's window: no more than that is ever out.  Nor does the           *)
(* congestion window close, by which EmptyWindow divides.                  *)
WithinTheWindow ==
  fClientWindow > 0 =>
    /\ fBytesInList < fClientWindow + kMaximumSegmentSize
    /\ fCongestionWindow \in 1 .. fClientWindow

Plays == fState = "playing" /\ ~ended

(* No packet stays in the array for ever while the session plays: it is    *)
(* acknowledged, or is sent again and expires.                             *)
IsRepairedOrExpires ==
  \A s \in Streams, q \in Seqs :
    Index(s, q) # {} /\ Plays ~> Index(s, q) = {} \/ ~Plays
===============================================================================
