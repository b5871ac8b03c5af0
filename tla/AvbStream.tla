----------------------------- MODULE AvbStream ------------------------------
(***************************************************************************)
(* A talker, a listener and the network between them.  One VLAN priority   *)
(* of a bridged Ethernet keeps the order of a stream and does not          *)
(* duplicate; it may lose a packet and may delay it.  The two hosts share  *)
(* a clock, as PTP makes them.                                             *)
(***************************************************************************)
EXTENDS AvbListener

CONSTANT MaxFrames

VARIABLES
    tpc, seq_num, pdu, sent, wire,  \* the talker's
    discards                        \* history: late discards since the first packet kept

T == INSTANCE AvbTalker

(* Packets has every packet the talker can make within the bounds. *)
ASSUME StreamAssumption ==
    /\ MaxFrames \in Nat /\ StartTime <= MaxTime
    /\ \A seq \in 0 .. SeqMod - 1, ts \in 0 .. Epoch - 1, k \in 1 .. MaxFrames,
          due \in 1 .. MaxTime + MaxTransit : T!Pdu(seq, ts, k, due) \in Packets

tvars == <<tpc, seq_num, pdu, sent, wire>>
svars == <<vars, tvars, discards>>

StreamInit == Init /\ T!TalkerInit /\ discards = 0

TalkerStep == T!Talker /\ UNCHANGED <<vars, discards>>

(* A packet reaches the listener's socket, or is lost on the way. *)
Deliver ==
    /\ wire # <<>>
    /\ Arrive(Head(wire))
    /\ wire' = Tail(wire)
    /\ UNCHANGED <<tpc, seq_num, pdu, sent, discards>>

Lose ==
    /\ wire # <<>>
    /\ wire' = Tail(wire)
    /\ UNCHANGED <<vars, tpc, seq_num, pdu, sent, discards>>

ListenerStep ==
    /\ Listener
    /\ discards' = IF DiscardLate /\ stats # <<>> THEN discards + 1 ELSE discards
    /\ UNCHANGED tvars

StreamTick == Tick /\ UNCHANGED <<tvars, discards>>
StreamEsc  == PressEsc /\ UNCHANGED <<tvars, discards>>

(* Both processes may have ended. *)
StreamGone == Gone /\ UNCHANGED <<tvars, discards>>

StreamNext == TalkerStep \/ Deliver \/ Lose \/ ListenerStep \/ StreamTick
              \/ StreamEsc \/ StreamGone

StreamSpec == StreamInit /\ [][StreamNext]_svars

-----------------------------------------------------------------------------
(* Properties.                                                             *)

accepted == played \o samples

(* Packets between the first and the last one kept that were not kept. *)
missed ==
    IF accepted = <<>> THEN 0
    ELSE accepted[Len(accepted)].pcm.k - accepted[1].pcm.k + 1 - Len(accepted)

(* Fragments are played in the order they were captured, none twice. *)
PlayedInOrder ==
    \A i \in 2 .. Len(accepted) : accepted[i - 1].pcm.k < accepted[i].pcm.k

(* "Dropped packets" never counts a packet that was not missed. *)
DropsNotOvercounted == InSession => dropped <= missed

(* Without late discards it counts every missed packet, as far as a        *)
(* sequence number of SeqMod values can tell.                              *)
DropsCounted ==
    InSession /\ discards = 0 => (missed - dropped) % SeqMod = 0

(* The recovered time is the one the talker set, up to whole epochs. *)
RecoveredModuloEpoch ==
    [][Accept => LET s == samples'[Len(samples')] IN
           (s.tspec - s.pcm.due) % Epoch = 0]_svars

(* End to end: with a transit time below an epoch no burst starts before   *)
(* its first fragment's due time, although the listener never learns the   *)
(* high part of that time.                                                 *)
BurstStartsWhenDue ==
    [][PlayFirst /\ played' # played => Head(samples).pcm.due <= now]_svars

(* avb_aaf.c 485-486: "if the frame is late and the buffer is empty /      *)
(* discard it and wait for a better one": of the frames that find the      *)
(* buffer empty, the late ones are discarded and the others are kept.      *)
LateMeansLate ==
    [][(DiscardLate \/ Accept) /\ samples = <<>> =>
           (DiscardLate <=> Head(rx).pcm.due < now)]_svars

=============================================================================
