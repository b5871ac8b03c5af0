-------------------------- MODULE AvbStream_proofs --------------------------
(***************************************************************************)
(* Theorems about AvbStream, for any epoch, sequence range, transit time,  *)
(* losses and delays: the listener of a stream is the one AvbListener      *)
(* describes, fragments are played in order, dropped packets are counted   *)
(* as far as sequence numbers tell, and no burst starts early although the *)
(* high part of a due time is guessed.                                     *)
(***************************************************************************)
EXTENDS AvbStream, AvbListener_proofs, Numbers

-----------------------------------------------------------------------------
(* The talker's packets.                                                   *)

(* Every packet under way is one the listener may get. *)
TalkerInv ==
    /\ now \in StartTime .. MaxTime
    /\ tpc \in {"setup", "read", "stamp", "send", "key", "returned", "crashed"}
    /\ seq_num \in 0 .. SeqMod - 1 /\ sent \in 0 .. MaxFrames
    /\ tpc = "stamp" => sent < MaxFrames
    /\ tpc = "send" => pdu \in Packets
    /\ wire \in Seq(Packets)

LEMMA BoundTypes ==
    /\ StartTime \in Nat \ {0} /\ MaxTime \in Nat /\ StartTime <= MaxTime
    /\ MaxTransit \in Nat /\ MaxFrames \in Nat /\ SeqMod \in Nat \ {0}
    /\ Epoch \in Nat \ {0}
BY ListenerAssumption, StreamAssumption, EpochAssumption

(* The packet stamped is one of those. *)
LEMMA StampMakesPacket ==
    ASSUME TalkerInv, T!Stamp
    PROVE  /\ pdu' \in Packets
           /\ seq_num' \in 0 .. SeqMod - 1 /\ sent' = sent + 1 /\ sent' \in 1 .. MaxFrames
           /\ pdu' = T!Pdu(seq_num, (now + MaxTransit) % Epoch, sent + 1, now + MaxTransit)
<1>1. /\ sent' = sent + 1 /\ sent < MaxFrames
      /\ pdu' = T!Pdu(seq_num, (now + MaxTransit) % Epoch, sent + 1, now + MaxTransit)
      /\ seq_num' = (seq_num + 1) % SeqMod
  BY DEF T!Stamp, T!calculate_avtp_time, TalkerInv
<1>2. sent + 1 \in 1 .. MaxFrames /\ now + MaxTransit \in 1 .. MaxTime + MaxTransit
  BY <1>1, BoundTypes DEF TalkerInv
<1>3. (now + MaxTransit) % Epoch \in 0 .. Epoch - 1
  BY <1>2, BoundTypes
<1>4. (seq_num + 1) % SeqMod \in 0 .. SeqMod - 1
  BY BoundTypes DEF TalkerInv
<1>5. pdu' \in Packets
  BY <1>1, <1>2, <1>3, StreamAssumption DEF TalkerInv
<1>6. QED
  BY <1>1, <1>2, <1>4, <1>5

(* The listener changes neither the clock nor what was delivered. *)
LEMMA ListenerKeepsEnv == Listener => UNCHANGED env
<1> USE DEF Setup, Starting, SetupFails, WavOpenFails, UninitialisedResult,
            SessionTimerFails, StartSession, Poll, PollFails, new_packet, RecvFails,
            DropPacket, DiscardLate, Accept, AcceptFails, Kept, Receive, Play, PlayRunning,
            PlayFirst, TimerReadFails, WavTellAborts, PlayNothing, Playing, Check, Finish,
            FinishCrashes, Ending
<1>1. Setup \/ Poll \/ PollFails \/ Check \/ Finish \/ FinishCrashes => UNCHANGED env
  OBVIOUS
<1>2. new_packet => UNCHANGED env
  OBVIOUS
<1>3. Play => UNCHANGED env
  OBVIOUS
<1>4. QED
  BY <1>1, <1>2, <1>3 DEF Listener

(* The clock belongs to both processes. *)
LEMMA ClockStep ==
    ASSUME TalkerInv, [StreamNext]_svars
    PROVE  now' \in StartTime .. MaxTime /\ (now' = now \/ now' = now + 1)
<1>1. CASE StreamTick
  BY <1>1, BoundTypes DEF StreamTick, Tick, TalkerInv
<1>2. CASE ListenerStep
  BY <1>2, ListenerKeepsEnv DEF ListenerStep, env, TalkerInv
<1>3. CASE Deliver \/ Lose \/ TalkerStep \/ StreamEsc \/ StreamGone \/ UNCHANGED svars
  BY <1>3 DEF Deliver, Arrive, Lose, TalkerStep, StreamEsc, PressEsc, StreamGone, Gone,
              svars, vars, TalkerInv
<1>4. QED
  BY <1>1, <1>2, <1>3 DEF StreamNext

LEMMA TalkerStepInv == TalkerInv /\ [StreamNext]_svars => TalkerInv'
<1> SUFFICES ASSUME TalkerInv, [StreamNext]_svars PROVE TalkerInv'
  OBVIOUS
<1> USE ClockStep
<1>1. CASE T!Stamp
  BY <1>1, StampMakesPacket DEF T!Stamp, TalkerInv
<1>2. CASE T!Send
  BY <1>2 DEF T!Send, TalkerInv
<1>3. CASE T!TalkerSetup \/ T!TalkerSetupFails \/ T!avb_alsa_read \/ T!SendFails \/ T!TalkerKey
  BY <1>3 DEF T!TalkerSetup, T!TalkerSetupFails, T!avb_alsa_read, T!SendFails, T!TalkerKey,
              TalkerInv
<1>4. CASE Deliver \/ Lose
  BY <1>4 DEF Deliver, Lose, TalkerInv
<1>5. CASE UNCHANGED tvars
  BY <1>5 DEF tvars, TalkerInv
<1>6. QED
  BY <1>1, <1>2, <1>3, <1>4, <1>5
     DEF StreamNext, TalkerStep, T!Talker, ListenerStep, StreamTick, StreamEsc,
         StreamGone, svars, tvars

(* The packets on the wire are packets of the listener's model. *)
THEOREM TalkerCorrect == StreamSpec => []TalkerInv
<1>1. StreamInit => TalkerInv
  BY BoundTypes DEF StreamInit, Init, T!TalkerInit, TalkerInv
<1>2. QED
  BY <1>1, TalkerStepInv, PTL DEF StreamSpec

(* In a stream the listener behaves as AvbListener says: what is proved of *)
(* it for any packets holds for the packets of a talker.                   *)
THEOREM StreamImplementsListener == StreamSpec => Spec
<1>1. TalkerInv /\ [StreamNext]_svars => [Next]_vars
  <2> SUFFICES ASSUME TalkerInv, [StreamNext]_svars PROVE [Next]_vars
    OBVIOUS
  <2>1. CASE Deliver
    BY <2>1 DEF Deliver, TalkerInv, Next
  <2>2. CASE TalkerStep \/ Lose \/ UNCHANGED svars
    BY <2>2 DEF TalkerStep, Lose, svars
  <2>3. CASE ListenerStep \/ StreamTick \/ StreamEsc \/ StreamGone
    BY <2>3 DEF ListenerStep, StreamTick, StreamEsc, StreamGone, Next
  <2>4. QED
    BY <2>1, <2>2, <2>3 DEF StreamNext
<1>2. QED
  BY <1>1, TalkerCorrect, PTL DEF StreamSpec, StreamInit, Spec

-----------------------------------------------------------------------------
(* What a packet of the talker says.                                       *)

(* A packet has the number and the low part of the due time of its payload.*)
FromTalker(p) ==
    /\ p.kind = "aaf"
    /\ p.pcm.k \in 1 .. sent
    /\ p.seq = (p.pcm.k - 1) % SeqMod
    /\ p.pcm.due \in Nat /\ StartTime <= p.pcm.due /\ p.pcm.due <= now + MaxTransit
    /\ p.ts = p.pcm.due % Epoch

AllFrom(q) == \A i \in 1 .. Len(q) : \A p \in Packets : q[i] = p => FromTalker(p)

ContentsInv ==
    /\ seq_num = sent % SeqMod
    /\ tpc = "send" => FromTalker(pdu) /\ pdu.pcm.k = sent
    /\ AllFrom(wire) /\ AllFrom(rx)

(* What the talker wrote stays true. *)
LEMMA FromTalkerStep ==
    ASSUME TalkerInv, [StreamNext]_svars, NEW p \in Packets, FromTalker(p)
    PROVE  FromTalker(p)'
<1>1. now' >= now /\ now \in Nat /\ now' \in Nat
  BY ClockStep, BoundTypes DEF TalkerInv
<1>2. sent' = sent \/ T!Stamp
  BY DEF StreamNext, TalkerStep, T!Talker, T!TalkerSetup, T!TalkerSetupFails,
         T!avb_alsa_read, T!Send, T!SendFails, T!TalkerKey, Deliver, Lose, ListenerStep,
         StreamTick, StreamEsc, StreamGone, svars, tvars
<1>3. sent' >= sent /\ sent \in Nat /\ sent' \in Nat
  BY <1>2, StampMakesPacket, BoundTypes DEF TalkerInv
<1>4. QED
  BY <1>1, <1>3, BoundTypes DEF FromTalker

(* A delivery takes the first packet off the wire. *)
LEMMA DeliverProperties ==
    ASSUME TalkerInv, TypeOK, Deliver
    PROVE  /\ Len(wire) \in Nat \ {0} /\ wire[1] \in Packets
           /\ Len(wire') = Len(wire) - 1
           /\ \A i \in 1 .. Len(wire) - 1 : wire'[i] = wire[i + 1]
           /\ Len(rx) \in Nat /\ Len(rx') = Len(rx) + 1 /\ rx'[Len(rx) + 1] = wire[1]
           /\ \A i \in 1 .. Len(rx) : rx'[i] = rx[i]
<1>1. wire \in Seq(Packets) /\ wire # <<>> /\ rx \in Seq(Packets)
      /\ wire' = Tail(wire) /\ rx' = Append(rx, Head(wire))
  BY DEF Deliver, Arrive, TalkerInv, TypeOK
<1>2. QED
  BY <1>1, HeadTailProperties, AppendProperties, ElementOfSeq, LenProperties

(* The listener takes the first packet that was received, or none. *)
LEMMA ReceiveProperties ==
    ASSUME TypeOK, Receive
    PROVE  /\ Len(rx) \in Nat \ {0} /\ Head(rx) = rx[1] /\ rx[1] \in Packets
           /\ Len(rx') = Len(rx) - 1
           /\ \A i \in 1 .. Len(rx) - 1 : rx'[i] = rx[i + 1]
<1>1. rx \in Seq(Packets) /\ rx # <<>> /\ rx' = Tail(rx)
  BY DEF Receive, TypeOK
<1>2. QED
  BY <1>1, HeadTailProperties, ElementOfSeq, LenProperties

LEMMA ListenerReceives == Listener => Receive \/ rx' = rx
<1> USE DEF Setup, Starting, SetupFails, WavOpenFails, UninitialisedResult,
            SessionTimerFails, StartSession, Poll, PollFails, new_packet, RecvFails,
            DropPacket, DiscardLate, Accept, AcceptFails, Kept, Play, PlayRunning,
            PlayFirst, TimerReadFails, WavTellAborts, PlayNothing, Playing, Check, Finish,
            FinishCrashes, Ending
<1>1. Setup \/ Poll \/ PollFails \/ Check \/ Finish \/ FinishCrashes => rx' = rx
  OBVIOUS
<1>2. new_packet => Receive
  OBVIOUS
<1>3. Play => rx' = rx
  OBVIOUS
<1>4. QED
  BY <1>1, <1>2, <1>3 DEF Listener

LEMMA ContentsStep ==
    ASSUME TypeOK, TalkerInv, ContentsInv, [StreamNext]_svars
    PROVE  ContentsInv'
<1>1. \A p \in Packets : FromTalker(p) => FromTalker(p)'
  BY FromTalkerStep
<1>2. CASE UNCHANGED <<rx, wire, pdu, seq_num, sent>> /\ (tpc' = "send" => tpc = "send")
  <2>1. tpc = "send" => FromTalker(pdu)'
    BY <1>1, <1>2 DEF ContentsInv, TalkerInv, FromTalker
  <2>2. QED
    BY <1>1, <1>2, <2>1 DEF ContentsInv, AllFrom
<1>3. CASE TalkerStep /\ T!Stamp
  <2>1. /\ pdu' = T!Pdu(seq_num, (now + MaxTransit) % Epoch, sent + 1, now + MaxTransit)
        /\ sent' = sent + 1 /\ sent \in Nat /\ UNCHANGED <<now, rx, wire>>
        /\ seq_num' = (seq_num + 1) % SeqMod
    BY <1>3, StampMakesPacket DEF TalkerStep, T!Stamp, vars, TalkerInv
  <2>2. seq_num' = (sent + 1) % SeqMod
    <3>1. PICK a \in Int : a = sent
      BY <2>1
    <3>2. ((a % SeqMod) + 1) % SeqMod = (a + 1) % SeqMod
      BY NextModulo, BoundTypes
    <3>3. seq_num = a % SeqMod
      BY <3>1 DEF ContentsInv
    <3>4. QED
      BY <2>1, <3>1, <3>2, <3>3, Zenon
  <2>3. FromTalker(pdu)' /\ pdu'.pcm.k = sent'
    <3>1. /\ pdu'.kind = "aaf" /\ pdu'.seq = seq_num /\ pdu'.pcm.k = sent'
          /\ pdu'.pcm.due = now + MaxTransit /\ pdu'.ts = pdu'.pcm.due % Epoch
      BY <2>1 DEF T!Pdu
    <3>2. sent' \in 1 .. sent' /\ (sent' - 1) = sent
      BY <2>1
    <3>3. /\ now + MaxTransit \in Nat /\ StartTime <= now + MaxTransit
          /\ now + MaxTransit <= now' + MaxTransit
      BY <2>1, BoundTypes DEF TalkerInv
    <3>4. pdu'.seq = (sent' - 1) % SeqMod
      BY <3>1, <3>2 DEF ContentsInv
    <3>5. QED
      BY <3>1, <3>2, <3>3, <3>4 DEF FromTalker
  <2>4. QED
    BY <1>1, <2>1, <2>2, <2>3 DEF ContentsInv, AllFrom
<1>4. CASE TalkerStep /\ T!Send
  <2>1. /\ wire' = Append(wire, pdu) /\ pdu \in Packets /\ FromTalker(pdu)
        /\ wire \in Seq(Packets) /\ tpc' # "send"
        /\ UNCHANGED <<now, rx, pdu, seq_num, sent>>
    BY <1>4 DEF TalkerStep, T!Send, vars, TalkerInv, ContentsInv
  <2>2. ASSUME NEW i \in 1 .. Len(wire'), NEW p \in Packets, wire'[i] = p
        PROVE  FromTalker(p)'
    <3>1. CASE i \in 1 .. Len(wire) /\ wire'[i] = wire[i]
      BY <1>1, <2>2, <3>1 DEF ContentsInv, AllFrom
    <3>2. CASE wire'[i] = pdu
      BY <1>1, <2>1, <2>2, <3>2
    <3>3. QED
      BY <2>1, <3>1, <3>2
  <2>3. QED
    BY <1>1, <2>1, <2>2 DEF ContentsInv, AllFrom
<1>5. CASE Deliver
  <2>1. UNCHANGED <<pdu, seq_num, sent, tpc>>
    BY <1>5 DEF Deliver
  <2>2. ASSUME NEW i \in 1 .. Len(wire'), NEW p \in Packets, wire'[i] = p
        PROVE  FromTalker(p)'
    <3>1. i + 1 \in 1 .. Len(wire) /\ wire[i + 1] = p
      BY <1>5, <2>2, DeliverProperties
    <3>2. QED
      BY <1>1, <3>1 DEF ContentsInv, AllFrom
  <2>3. ASSUME NEW i \in 1 .. Len(rx'), NEW p \in Packets, rx'[i] = p
        PROVE  FromTalker(p)'
    <3>1. CASE i \in 1 .. Len(rx)
      BY <1>1, <1>5, <2>3, <3>1, DeliverProperties DEF ContentsInv, AllFrom
    <3>2. CASE i = Len(rx) + 1
      <4>1. 1 \in 1 .. Len(wire) /\ wire[1] = p
        BY <1>5, <2>3, <3>2, DeliverProperties
      <4>2. QED
        BY <1>1, <4>1 DEF ContentsInv, AllFrom
    <3>3. QED
      BY <1>5, <3>1, <3>2, DeliverProperties
  <2>4. tpc = "send" => FromTalker(pdu)'
    BY <1>1, <2>1 DEF ContentsInv, TalkerInv, FromTalker
  <2>5. QED
    BY <2>1, <2>2, <2>3, <2>4 DEF ContentsInv, AllFrom
<1>6. CASE Lose
  <2>1. /\ UNCHANGED <<now, rx, pdu, seq_num, sent, tpc>>
        /\ wire \in Seq(Packets) /\ wire # <<>> /\ wire' = Tail(wire)
    BY <1>6 DEF Lose, vars, TalkerInv
  <2>2. ASSUME NEW i \in 1 .. Len(wire'), NEW p \in Packets, wire'[i] = p
        PROVE  FromTalker(p)'
    <3>1. i + 1 \in 1 .. Len(wire) /\ wire[i + 1] = p
      BY <2>1, <2>2
    <3>2. QED
      BY <1>1, <3>1 DEF ContentsInv, AllFrom
  <2>3. tpc = "send" => FromTalker(pdu)'
    BY <2>1 DEF ContentsInv, FromTalker
  <2>4. QED
    BY <1>1, <2>1, <2>2, <2>3 DEF ContentsInv, AllFrom
<1>7. CASE ListenerStep /\ Receive
  <2>1. UNCHANGED <<now, wire, pdu, seq_num, sent, tpc>>
    BY <1>7 DEF ListenerStep, tvars, Receive, env
  <2>2. ASSUME NEW i \in 1 .. Len(rx'), NEW p \in Packets, rx'[i] = p
        PROVE  FromTalker(p)'
    <3>1. i + 1 \in 1 .. Len(rx) /\ rx[i + 1] = p
      BY <1>7, <2>2, ReceiveProperties
    <3>2. QED
      BY <1>1, <3>1 DEF ContentsInv, AllFrom
  <2>3. tpc = "send" => FromTalker(pdu)'
    BY <2>1 DEF ContentsInv, FromTalker
  <2>4. QED
    BY <1>1, <2>1, <2>2, <2>3 DEF ContentsInv, AllFrom
<1>8. CASE TalkerStep /\ ~T!Stamp /\ ~T!Send
  BY <1>2, <1>8 DEF TalkerStep, T!Talker, T!TalkerSetup, T!TalkerSetupFails,
                    T!avb_alsa_read, T!SendFails, T!TalkerKey, vars
<1>9. CASE ListenerStep /\ ~Receive
  BY <1>2, <1>9, ListenerReceives DEF ListenerStep, tvars
<1>10. CASE StreamTick \/ StreamEsc \/ StreamGone \/ UNCHANGED svars
  BY <1>2, <1>10 DEF StreamTick, Tick, StreamEsc, PressEsc, StreamGone, Gone, svars, tvars, vars
<1>11. QED
  BY <1>3, <1>4, <1>5, <1>6, <1>7, <1>8, <1>9, <1>10 DEF StreamNext

(* A packet keeps the number and the due time the talker gave its payload, *)
(* on the wire and in the socket.                                          *)
THEOREM ContentsCorrect == StreamSpec => []ContentsInv
<1>1. StreamInit => ContentsInv
  BY BoundTypes DEF StreamInit, Init, T!TalkerInit, ContentsInv, AllFrom
<1>2. QED
  BY <1>1, ContentsStep, TalkerCorrect, StreamImplementsListener, TypeCorrect, PTL
     DEF StreamSpec

-----------------------------------------------------------------------------
(* Due times.                                                              *)

(* The recovered time differs from the due time by whole epochs. *)
LEMMA EpochsApart ==
    ASSUME NEW due \in Nat, NEW clock \in Nat
    PROVE  \E n \in Int : get_presentation_time(due % Epoch, clock) - due = Epoch * n
<1>0. due \in Int /\ Epoch \in Nat \ {0}
  BY EpochAssumption
<1>1. PICK b \in Int : \E r \in 0 .. Epoch - 1 : due = Epoch * b + r /\ due % Epoch = r
  BY <1>0, DivisionWithRemainder, Zenon
<1>2. PICK r \in 0 .. Epoch - 1 : due = Epoch * b + r /\ due % Epoch = r
  BY <1>1
<1>3. PICK a \in Int : a = clock \div Epoch
  BY EpochAssumption, Z3
<1>4. PICK n \in Int : n = a - b
  OBVIOUS
<1>5. get_presentation_time(due % Epoch, clock) = Epoch * a + r
  BY <1>2, <1>3, Zenon DEF get_presentation_time
<1>6. (Epoch * a + r) - due = Epoch * n
  <2>1. Epoch * n = Epoch * a - Epoch * b
    BY <1>4, EpochAssumption, Z3
  <2>2. QED
    BY <1>2, <2>1, EpochAssumption, Z3
<1>7. QED
  BY <1>5, <1>6

(* A packet that is not late is recovered in its own epoch or a later one, *)
(* if the transit time is below an epoch.                                  *)
LEMMA NotLateNotEarly ==
    ASSUME NEW due \in Nat, NEW clock \in Nat,
           MaxTransit < Epoch, due <= clock + MaxTransit, ~IsLate(due % Epoch, clock)
    PROVE  due <= get_presentation_time(due % Epoch, clock)
<1>1. PICK tspec \in Nat : tspec = get_presentation_time(due % Epoch, clock)
  <2>1. due % Epoch \in Nat
    BY EpochAssumption, Z3
  <2>2. QED
    BY <2>1, PresentationIsTime
<1>2. PICK n \in Int : tspec - due = Epoch * n
  BY <1>1, EpochsApart
<1>3. tspec >= clock
  BY <1>1 DEF IsLate
<1>4. CASE n >= 0
  <2>1. Epoch * n >= 0
    BY <1>4, EpochAssumption, Z3
  <2>2. QED
    BY <1>1, <1>2, <2>1
<1>5. CASE n < 0
  <2>1. PICK k \in Int : k = -n /\ k >= 1
    BY <1>5
  <2>2. Epoch * k >= Epoch
    BY <2>1, PositiveMultiple, EpochAssumption
  <2>3. Epoch * k = -(Epoch * n)
    BY <2>1, EpochAssumption, Z3
  <2>4. PICK e \in Int : e = Epoch * n
    BY EpochAssumption, Z3
  <2>5. QED
    BY <1>2, <1>3, <2>2, <2>3, <2>4, BoundTypes
<1>6. QED
  BY <1>4, <1>5

(* The packet the listener takes is one of the talker's. *)
LEMMA ReceivedFromTalker ==
    ASSUME TypeOK, ContentsInv, Receive
    PROVE  FromTalker(Head(rx)) /\ Head(rx) \in Packets
<1>1. Head(rx) = rx[1] /\ rx[1] \in Packets /\ 1 \in 1 .. Len(rx)
  BY ReceiveProperties
<1>2. PICK p \in Packets : p = rx[1]
  BY <1>1
<1>3. FromTalker(p)
  BY <1>1, <1>2 DEF ContentsInv, AllFrom
<1>4. QED
  BY <1>1, <1>2, <1>3 DEF FromTalker

(* The fragment that was just kept is the last of the buffer. *)
LEMMA AcceptedFragment ==
    ASSUME TypeOK, TalkerInv, ContentsInv, Accept
    PROVE  LET s == [tspec |-> get_presentation_time(Head(rx).pcm.due % Epoch, now),
                     pcm |-> Head(rx).pcm]
           IN  /\ FromTalker(Head(rx)) /\ Head(rx) \in Packets
               /\ s \in Sample /\ samples' = Append(samples, s)
               /\ ~Discarded(Head(rx))
<1>1. Receive /\ ~Discarded(Head(rx))
  BY DEF Accept, Kept
<1>2. FromTalker(Head(rx)) /\ Head(rx) \in Packets
  BY <1>1, ReceivedFromTalker
<1>3. Head(rx).ts = Head(rx).pcm.due % Epoch
  BY <1>2 DEF FromTalker
<1>4. get_presentation_time(Head(rx).ts, now) \in Nat
  BY <1>2, PacketTypes, PresentationIsTime DEF TypeOK
<1>5. [tspec |-> get_presentation_time(Head(rx).ts, now), pcm |-> Head(rx).pcm] \in Sample
  BY <1>2, <1>4, PacketTypes DEF Sample
<1>6. QED
  BY <1>1, <1>2, <1>3, <1>5 DEF Accept, schedule_sample

(* The recovered time is the talker's, up to whole epochs. *)
THEOREM RecoveredUpToEpochs == StreamSpec => RecoveredModuloEpoch
<1>1. TypeOK /\ TalkerInv /\ ContentsInv /\ [StreamNext]_svars =>
          [Accept => LET s == samples'[Len(samples')] IN
               (s.tspec - s.pcm.due) % Epoch = 0]_svars
  <2> SUFFICES ASSUME TypeOK, TalkerInv, ContentsInv, Accept
               PROVE  (samples'[Len(samples')].tspec
                          - samples'[Len(samples')].pcm.due) % Epoch = 0
    OBVIOUS
  <2> DEFINE s == [tspec |-> get_presentation_time(Head(rx).pcm.due % Epoch, now),
                   pcm |-> Head(rx).pcm]
  <2>1. FromTalker(Head(rx)) /\ s \in Sample /\ samples' = Append(samples, s)
    BY AcceptedFragment
  <2>2. samples'[Len(samples')] = s
    BY <2>1 DEF TypeOK
  <2>3. Head(rx).pcm.due \in Nat /\ now \in Nat
    BY <2>1 DEF FromTalker, TypeOK
  <2>4. PICK n \in Int : s.tspec - s.pcm.due = Epoch * n
    BY <2>3, EpochsApart
  <2>5. PICK d \in Int : d = s.tspec - s.pcm.due
    BY <2>1, <2>3 DEF Sample
  <2>6. d % Epoch = 0
    BY <2>4, <2>5, MultipleModulo, EpochAssumption
  <2>7. QED
    BY <2>2, <2>5, <2>6
<1>2. QED
  BY <1>1, TalkerCorrect, ContentsCorrect, StreamImplementsListener, TypeCorrect, PTL
     DEF StreamSpec, RecoveredModuloEpoch

(* What changes the buffer and what was played. *)
LEMMA BufferChanges ==
    Listener => \/ Accept \/ PlayRunning \/ PlayFirst \/ TimerReadFails
                \/ UNCHANGED <<samples, played, is_running>>
<1> USE DEF Setup, Starting, SetupFails, WavOpenFails, UninitialisedResult,
            SessionTimerFails, StartSession, Poll, PollFails, new_packet, RecvFails,
            DropPacket, DiscardLate, AcceptFails, Kept, Receive, Play, WavTellAborts,
            PlayNothing, Playing, Check, Finish, FinishCrashes, Ending
<1>1. Setup \/ Poll \/ PollFails \/ Check \/ Finish \/ FinishCrashes =>
          UNCHANGED <<samples, played, is_running>>
  OBVIOUS
<1>2. new_packet => Accept \/ UNCHANGED <<samples, played, is_running>>
  OBVIOUS
<1>3. Play => \/ PlayRunning \/ PlayFirst \/ TimerReadFails
              \/ UNCHANGED <<samples, played, is_running>>
  OBVIOUS
<1>4. QED
  BY <1>1, <1>2, <1>3 DEF Listener

LEMMA StreamBufferChanges ==
    ASSUME [StreamNext]_svars, ~ListenerStep
    PROVE  UNCHANGED <<samples, played, is_running>>
BY DEF StreamNext, TalkerStep, Deliver, Arrive, Lose, StreamTick, Tick, StreamEsc,
       PressEsc, StreamGone, Gone, svars, vars, process

(* The fragment a burst will start with is not recovered too early: the    *)
(* check for late packets was made when it came.                           *)
DueInv ==
    ~is_running /\ samples # <<>> =>
        Head(samples).pcm.due \in Nat /\ Head(samples).pcm.due <= Head(samples).tspec

LEMMA DueStep ==
    ASSUME MaxTransit < Epoch, TypeOK, TalkerInv, ContentsInv, DueInv, [StreamNext]_svars
    PROVE  DueInv'
<1>1. CASE ListenerStep /\ Accept
  <2> DEFINE s == [tspec |-> get_presentation_time(Head(rx).pcm.due % Epoch, now),
                   pcm |-> Head(rx).pcm]
  <2>1. /\ FromTalker(Head(rx)) /\ s \in Sample /\ samples' = Append(samples, s)
        /\ ~Discarded(Head(rx)) /\ is_running' = is_running
    BY <1>1, AcceptedFragment DEF Accept, Kept, Receive
  <2>2. Head(samples') = IF samples = <<>> THEN s ELSE Head(samples)
    BY <2>1 DEF TypeOK
  <2>3. CASE samples = <<>>
    <3>1. /\ Head(rx).pcm.due \in Nat /\ Head(rx).pcm.due <= now + MaxTransit
          /\ ~IsLate(Head(rx).pcm.due % Epoch, now) /\ now \in Nat
      BY <2>1, <2>3 DEF FromTalker, Discarded, TypeOK
    <3>2. s.pcm.due <= s.tspec
      BY <3>1, NotLateNotEarly
    <3>3. QED
      BY <2>2, <2>3, <3>1, <3>2 DEF DueInv
  <2>4. CASE samples # <<>>
    BY <2>1, <2>2, <2>4 DEF DueInv
  <2>5. QED
    BY <2>3, <2>4
<1>2. CASE ListenerStep /\ (PlayRunning \/ PlayFirst)
  BY <1>2 DEF PlayRunning, PlayFirst, play_fragment, DueInv
<1>3. CASE ListenerStep /\ TimerReadFails
  BY <1>3 DEF TimerReadFails, DueInv
<1>4. CASE UNCHANGED <<samples, is_running>>
  BY <1>4 DEF DueInv
<1>5. QED
  BY <1>1, <1>2, <1>3, <1>4, BufferChanges, StreamBufferChanges DEF ListenerStep

(* No burst starts before its first fragment is due, although the listener *)
(* puts the high part of its own clock above the timestamp: for any epoch  *)
(* longer than the transit time.                                           *)
THEOREM BurstsStartWhenDue == MaxTransit < Epoch => (StreamSpec => BurstStartsWhenDue)
<1> SUFFICES ASSUME MaxTransit < Epoch PROVE StreamSpec => BurstStartsWhenDue
  OBVIOUS
<1>1. StreamInit => DueInv
  BY DEF StreamInit, Init, DueInv
<1>2. TypeOK /\ TalkerInv /\ ContentsInv /\ DueInv /\ [StreamNext]_svars => DueInv'
  BY DueStep
<1>3. TypeOK /\ TalkerInv /\ BufferInv /\ DueInv /\ [StreamNext]_svars =>
          [PlayFirst /\ played' # played => Head(samples).pcm.due <= now]_svars
  <2> SUFFICES ASSUME TypeOK, BufferInv, DueInv, PlayFirst, played' # played
               PROVE  Head(samples).pcm.due <= now
    OBVIOUS
  <2>1. samples # <<>> /\ ~is_running /\ pc = "play" /\ Fired(timer)
    BY DEF PlayFirst, Playing, TimerReported, aaf_timeout, play_fragment
  <2>2. timer = Head(samples).tspec
    BY <2>1 DEF BufferInv, TimerTracksHead, InSession, Ended
  <2>3. Head(samples).tspec <= now /\ Head(samples).tspec \in Nat /\ now \in Nat
    BY <2>1, <2>2 DEF Fired, TypeOK
  <2>4. QED
    BY <2>1, <2>3 DEF DueInv
<1>4. QED
  BY <1>1, <1>2, <1>3, TalkerCorrect, ContentsCorrect, StreamImplementsListener,
     TypeCorrect, BufferCorrect, PTL DEF StreamSpec, BurstStartsWhenDue

(* In the epoch a packet is due in, it looks late when it is. *)
LEMMA LateInItsEpoch ==
    ASSUME NEW due \in Nat, NEW clock \in Nat, due \div Epoch = clock \div Epoch
    PROVE  IsLate(due % Epoch, clock) <=> due < clock
<1>1. PICK e \in Nat \ {0} : e = Epoch
  BY EpochAssumption
<1>2. due = e * (due \div e) + (due % e)
  BY Z3
<1>3. get_presentation_time(due % Epoch, clock) = due
  BY <1>1, <1>2, Zenon DEF get_presentation_time
<1>4. QED
  BY <1>3 DEF IsLate

(* The clock and the due times stay in the epoch the session starts in. *)
OneEpoch == (MaxTime + MaxTransit) \div Epoch = StartTime \div Epoch

(* Away from the end of an epoch the listener discards exactly the packets *)
(* that are late, of those that find the buffer empty, as avb_aaf.c 485    *)
(* says.                                                                   *)
THEOREM LateIsLate == OneEpoch => (StreamSpec => LateMeansLate)
<1> SUFFICES ASSUME OneEpoch PROVE StreamSpec => LateMeansLate
  OBVIOUS
<1>1. ASSUME NEW t \in Nat, StartTime <= t, t <= MaxTime + MaxTransit
      PROVE  t \div Epoch = StartTime \div Epoch
  <2>1. PICK e \in Nat \ {0}, first \in Int, last \in Int :
            e = Epoch /\ first = StartTime /\ last = MaxTime + MaxTransit
    BY BoundTypes
  <2>2. first \div e <= t \div e /\ t \div e <= last \div e
    BY <1>1, <2>1, QuotientMonotone
  <2>3. last \div e = first \div e
    BY <2>1 DEF OneEpoch
  <2>4. first \div e \in Int /\ t \div e \in Int
    BY Z3
  <2>5. QED
    BY <2>1, <2>2, <2>3, <2>4
<1>2. ASSUME TypeOK, TalkerInv, ContentsInv, DiscardLate \/ Accept, samples = <<>>
      PROVE  DiscardLate <=> Head(rx).pcm.due < now
  <2> DEFINE due == Head(rx).pcm.due
  <2>1. Receive
    BY <1>2 DEF DiscardLate, Accept, Kept
  <2>2. FromTalker(Head(rx)) /\ Head(rx) \in Packets
    BY <1>2, <2>1, ReceivedFromTalker
  <2>3. /\ due \in Nat /\ StartTime <= due /\ due <= MaxTime + MaxTransit
        /\ now \in Nat /\ StartTime <= now /\ now <= MaxTime + MaxTransit
    <3>1. due \in Nat /\ StartTime <= due /\ due <= now + MaxTransit
      BY <2>2 DEF FromTalker
    <3>2. now \in StartTime .. MaxTime
      BY <1>2 DEF TalkerInv
    <3>3. QED
      BY <3>1, <3>2, BoundTypes
  <2>4. due \div Epoch = now \div Epoch
    BY <1>1, <2>3, Zenon
  <2>5. Discarded(Head(rx)) <=> due < now
    BY <1>2, <2>2, <2>3, <2>4, LateInItsEpoch DEF Discarded, FromTalker
  <2>6. DiscardLate <=> Discarded(Head(rx))
    BY <1>2 DEF DiscardLate, Accept, Kept
  <2>7. QED
    BY <2>5, <2>6
<1>3. TypeOK /\ TalkerInv /\ ContentsInv /\ [StreamNext]_svars =>
          [(DiscardLate \/ Accept) /\ samples = <<>> =>
               (DiscardLate <=> Head(rx).pcm.due < now)]_svars
  BY <1>2
<1>4. QED
  BY <1>3, TalkerCorrect, ContentsCorrect, StreamImplementsListener, TypeCorrect, PTL
     DEF StreamSpec, LateMeansLate

-----------------------------------------------------------------------------
(* The order of fragments.                                                 *)

(* In q the numbers of the payloads rise; those of q are below those of r. *)
Rising(q) == \A i, j \in 1 .. Len(q) : i < j => q[i].pcm.k < q[j].pcm.k
Before(q, r) ==
    \A i \in 1 .. Len(q), j \in 1 .. Len(r) : q[i].pcm.k < r[j].pcm.k

LEMMA BeforeAppendLeft ==
    ASSUME NEW S, NEW q \in Seq(S), NEW x \in S, NEW r, Before(q, r), Before(<<x>>, r)
    PROVE  Before(Append(q, x), r)
<1>1. Len(Append(q, x)) = Len(q) + 1 /\ Len(q) \in Nat
  BY AppendProperties, LenProperties
<1>2. SUFFICES ASSUME NEW i \in 1 .. Len(q) + 1, NEW j \in 1 .. Len(r)
               PROVE  Append(q, x)[i].pcm.k < r[j].pcm.k
  BY <1>1 DEF Before
<1>3. CASE i \in 1 .. Len(q)
  BY <1>3, AppendProperties DEF Before
<1>4. CASE i = Len(q) + 1
  BY <1>4, AppendProperties DEF Before
<1>5. QED
  BY <1>1, <1>3, <1>4

LEMMA BeforeAppendRight ==
    ASSUME NEW S, NEW q, NEW r \in Seq(S), NEW x \in S, Before(q, r), Before(q, <<x>>)
    PROVE  Before(q, Append(r, x))
<1>1. Len(Append(r, x)) = Len(r) + 1 /\ Len(r) \in Nat
  BY AppendProperties, LenProperties
<1>2. SUFFICES ASSUME NEW i \in 1 .. Len(q), NEW j \in 1 .. Len(r) + 1
               PROVE  q[i].pcm.k < Append(r, x)[j].pcm.k
  BY <1>1 DEF Before
<1>3. CASE j \in 1 .. Len(r)
  BY <1>3, AppendProperties DEF Before
<1>4. CASE j = Len(r) + 1
  BY <1>4, AppendProperties DEF Before
<1>5. QED
  BY <1>1, <1>3, <1>4

LEMMA RisingAppend ==
    ASSUME NEW S, NEW q \in Seq(S), NEW x \in S, Rising(q), Before(q, <<x>>)
    PROVE  Rising(Append(q, x))
<1>1. Len(Append(q, x)) = Len(q) + 1 /\ Len(q) \in Nat
  BY AppendProperties, LenProperties
<1>2. SUFFICES ASSUME NEW i \in 1 .. Len(q) + 1, NEW j \in 1 .. Len(q) + 1, i < j
               PROVE  Append(q, x)[i].pcm.k < Append(q, x)[j].pcm.k
  BY <1>1 DEF Rising
<1>3. i \in 1 .. Len(q)
  BY <1>1, <1>2
<1>4. CASE j \in 1 .. Len(q)
  BY <1>2, <1>3, <1>4, AppendProperties DEF Rising
<1>5. CASE j = Len(q) + 1
  BY <1>3, <1>5, AppendProperties DEF Before
<1>6. QED
  BY <1>1, <1>4, <1>5

(* What is left of a queue, and what was taken from it. *)
LEMMA RisingTail ==
    ASSUME NEW S, NEW q \in Seq(S), q # <<>>, Rising(q)
    PROVE  Rising(Tail(q)) /\ Before(<<Head(q)>>, Tail(q))
<1>1. /\ Len(q) \in Nat \ {0} /\ Len(Tail(q)) = Len(q) - 1 /\ Head(q) = q[1]
      /\ \A i \in 1 .. Len(q) - 1 : Tail(q)[i] = q[i + 1]
  BY HeadTailProperties, LenProperties
<1>2. \A i \in 1 .. Len(q) - 1 : i + 1 \in 1 .. Len(q) /\ 1 < i + 1
  BY <1>1
<1>3. 1 \in 1 .. Len(q)
  BY <1>1
<1>4. QED
  BY <1>1, <1>2, <1>3 DEF Rising, Before

LEMMA BeforeTail ==
    ASSUME NEW S, NEW q \in Seq(S), q # <<>>, NEW r
    PROVE  /\ Before(q, r) => Before(<<Head(q)>>, r) /\ Before(Tail(q), r)
           /\ Before(r, q) => Before(r, <<Head(q)>>) /\ Before(r, Tail(q))
<1>1. /\ Len(q) \in Nat \ {0} /\ Len(Tail(q)) = Len(q) - 1 /\ Head(q) = q[1]
      /\ \A i \in 1 .. Len(q) - 1 : Tail(q)[i] = q[i + 1]
  BY HeadTailProperties, LenProperties
<1>2. \A i \in 1 .. Len(q) - 1 : i + 1 \in 1 .. Len(q)
  BY <1>1
<1>3. 1 \in 1 .. Len(q)
  BY <1>1
<1>4. QED
  BY <1>1, <1>2, <1>3 DEF Before

(* Playing moves a fragment along; keeping one adds it at the end. *)
LEMMA ConcatMove ==
    ASSUME NEW S, NEW p \in Seq(S), NEW q \in Seq(S), q # <<>>
    PROVE  Append(p, Head(q)) \o Tail(q) = p \o q
<1>1. Head(q) \in S /\ Tail(q) \in Seq(S) /\ q = <<Head(q)>> \o Tail(q)
  BY HeadTailProperties, SMT
<1>2. Append(p, Head(q)) = p \o <<Head(q)>>
  BY <1>1, AppendIsConcat
<1>3. <<Head(q)>> \in Seq(S)
  BY <1>1
<1>4. QED
  BY <1>1, <1>2, <1>3, ConcatAssociative

LEMMA ConcatAppend ==
    ASSUME NEW S, NEW p \in Seq(S), NEW q \in Seq(S), NEW x \in S
    PROVE  p \o Append(q, x) = Append(p \o q, x)
<1>1. Append(q, x) = q \o <<x>> /\ <<x>> \in Seq(S)
  BY AppendIsConcat
<1>2. p \o q \in Seq(S) /\ Append(p \o q, x) = (p \o q) \o <<x>>
  BY AppendIsConcat, ConcatProperties
<1>3. QED
  BY <1>1, <1>2, ConcatAssociative

(* From the sound card to the talker the numbers rise. *)
OrderInv ==
    /\ Rising(accepted) /\ Rising(rx) /\ Rising(wire)
    /\ Before(accepted, rx) /\ Before(accepted, wire) /\ Before(rx, wire)
    /\ \A i \in 1 .. Len(accepted) : accepted[i].pcm.k \in 1 .. sent
    /\ tpc = "send" => Before(accepted, <<pdu>>) /\ Before(rx, <<pdu>>) /\ Before(wire, <<pdu>>)

(* What was kept grows by what is kept, and by nothing else. *)
LEMMA AcceptedStep ==
    ASSUME TypeOK, TalkerInv, ContentsInv, [StreamNext]_svars
    PROVE  \/ accepted' = accepted
           \/ /\ ListenerStep /\ Accept /\ Receive
              /\ accepted \in Seq(Sample)
              /\ \E x \in Sample : x.pcm = Head(rx).pcm /\ accepted' = Append(accepted, x)
<1>1. samples \in Seq(Sample) /\ played \in Seq(Sample) /\ accepted \in Seq(Sample)
  BY ConcatProperties DEF TypeOK, accepted
<1>2. CASE ListenerStep /\ Accept
  <2> DEFINE s == [tspec |-> get_presentation_time(Head(rx).pcm.due % Epoch, now),
                   pcm |-> Head(rx).pcm]
  <2>1. /\ s \in Sample /\ samples' = Append(samples, s) /\ played' = played
        /\ Receive /\ s.pcm = Head(rx).pcm
    BY <1>2, AcceptedFragment DEF Accept, Kept, Receive
  <2>2. played \o Append(samples, s) = Append(played \o samples, s)
    BY <1>1, <2>1, ConcatAppend
  <2>3. accepted' = Append(accepted, s)
    BY <2>1, <2>2 DEF accepted
  <2>4. QED
    BY <1>1, <1>2, <2>1, <2>3
<1>3. CASE ListenerStep /\ (PlayRunning \/ PlayFirst)
  <2>1. CASE samples = <<>>
    BY <1>3, <2>1 DEF PlayRunning, PlayFirst, play_fragment, accepted
  <2>2. CASE samples # <<>>
    <3>1. played' = Append(played, Head(samples)) /\ samples' = Tail(samples)
      BY <1>3, <2>2 DEF PlayRunning, PlayFirst, play_fragment
    <3>2. QED
      BY <1>1, <2>2, <3>1, ConcatMove DEF accepted
  <2>3. QED
    BY <2>1, <2>2
<1>4. CASE ListenerStep /\ TimerReadFails
  BY <1>4 DEF TimerReadFails, accepted
<1>5. CASE UNCHANGED <<samples, played>>
  BY <1>5 DEF accepted
<1>6. QED
  BY <1>2, <1>3, <1>4, <1>5, BufferChanges, StreamBufferChanges DEF ListenerStep

LEMMA BeforeSamePayload ==
    ASSUME NEW q, NEW x, NEW y, x.pcm = y.pcm
    PROVE  /\ Before(q, <<y>>) => Before(q, <<x>>)
           /\ Before(<<y>>, q) => Before(<<x>>, q)
BY DEF Before

LEMMA OrderAccept ==
    ASSUME TypeOK, TalkerInv, ContentsInv, OrderInv, ListenerStep, Accept, Receive,
           accepted \in Seq(Sample), NEW x \in Sample, x.pcm = Head(rx).pcm,
           accepted' = Append(accepted, x)
    PROVE  OrderInv'
<1>1. /\ rx \in Seq(Packets) /\ rx # <<>> /\ rx' = Tail(rx)
      /\ UNCHANGED <<wire, pdu, sent, tpc>>
  BY DEF ListenerStep, tvars, Receive, TypeOK
<1>2. FromTalker(Head(rx)) /\ Head(rx) \in Packets
  BY ReceivedFromTalker
<1>3. Before(accepted, <<x>>) /\ Before(<<x>>, Tail(rx)) /\ Before(<<x>>, wire)
  <2>1. Before(accepted, <<Head(rx)>>) /\ Before(<<Head(rx)>>, wire)
    BY <1>1, BeforeTail DEF OrderInv
  <2>2. Before(<<Head(rx)>>, Tail(rx))
    BY <1>1, RisingTail DEF OrderInv
  <2>3. QED
    BY <2>1, <2>2, BeforeSamePayload
<1>4. Rising(accepted') /\ Before(accepted', rx') /\ Before(accepted', wire')
  <2>1. Before(accepted, Tail(rx))
    BY <1>1, BeforeTail DEF OrderInv
  <2>2. Rising(Append(accepted, x))
    BY <1>3, RisingAppend DEF OrderInv
  <2>3. Before(Append(accepted, x), Tail(rx)) /\ Before(Append(accepted, x), wire)
    BY <1>3, <2>1, BeforeAppendLeft DEF OrderInv
  <2>4. QED
    BY <1>1, <2>2, <2>3
<1>5. Rising(rx') /\ Before(rx', wire')
  BY <1>1, RisingTail, BeforeTail DEF OrderInv
<1>6. ASSUME tpc = "send" PROVE Before(accepted', <<pdu>>) /\ Before(rx', <<pdu>>)
  <2>1. Before(<<x>>, <<pdu>>) /\ Before(Tail(rx), <<pdu>>)
    BY <1>1, <1>6, BeforeTail, BeforeSamePayload DEF OrderInv
  <2>2. QED
    BY <1>1, <1>6, <2>1, BeforeAppendLeft DEF OrderInv
<1>7. ASSUME NEW i \in 1 .. Len(accepted') PROVE accepted'[i].pcm.k \in 1 .. sent
  <2>1. x.pcm.k \in 1 .. sent
    BY <1>2 DEF FromTalker
  <2>2. QED
    BY <1>7, <2>1, AppendProperties, LenProperties DEF OrderInv
<1>8. QED
  BY <1>1, <1>4, <1>5, <1>6, <1>7 DEF OrderInv

LEMMA OrderTalker ==
    ASSUME TypeOK, TalkerInv, ContentsInv, OrderInv, TalkerStep
    PROVE  OrderInv'
<1>1. UNCHANGED <<samples, played, rx>> /\ accepted' = accepted
  BY DEF TalkerStep, vars, accepted
<1>2. CASE T!Stamp
  <2>1. /\ pdu'.pcm.k = sent + 1 /\ sent' = sent + 1 /\ sent \in Nat /\ wire' = wire
    BY <1>2, StampMakesPacket DEF T!Stamp, T!Pdu, TalkerInv
  <2>2. ASSUME NEW i \in 1 .. Len(rx) PROVE rx[i].pcm.k < sent + 1
    <3>1. rx[i] \in Packets
      BY ElementOfSeq DEF TypeOK
    <3>2. rx[i].pcm.k \in 1 .. sent
      BY <2>2, <3>1 DEF ContentsInv, AllFrom, FromTalker
    <3>3. QED
      BY <2>1, <3>2
  <2>3. ASSUME NEW i \in 1 .. Len(wire) PROVE wire[i].pcm.k < sent + 1
    <3>1. wire[i] \in Packets
      BY ElementOfSeq DEF TalkerInv
    <3>2. wire[i].pcm.k \in 1 .. sent
      BY <2>3, <3>1 DEF ContentsInv, AllFrom, FromTalker
    <3>3. QED
      BY <2>1, <3>2
  <2>4. \A i \in 1 .. Len(accepted) :
            accepted[i].pcm.k < sent + 1 /\ accepted[i].pcm.k \in 1 .. sent'
    BY <2>1 DEF OrderInv
  <2>5. Before(accepted, <<pdu'>>) /\ Before(rx, <<pdu'>>) /\ Before(wire, <<pdu'>>)
    BY <2>1, <2>2, <2>3, <2>4 DEF Before
  <2>6. QED
    BY <1>1, <2>1, <2>4, <2>5 DEF OrderInv
<1>3. CASE T!Send
  <2>1. /\ wire' = Append(wire, pdu) /\ wire \in Seq(Packets) /\ pdu \in Packets
        /\ tpc = "send" /\ tpc' # "send" /\ sent' = sent
    BY <1>3 DEF T!Send, TalkerInv
  <2>2. Rising(Append(wire, pdu))
    BY <2>1, RisingAppend DEF OrderInv
  <2>3. Before(accepted, Append(wire, pdu)) /\ Before(rx, Append(wire, pdu))
    BY <2>1, BeforeAppendRight DEF OrderInv
  <2>4. QED
    BY <1>1, <2>1, <2>2, <2>3 DEF OrderInv
<1>4. CASE ~T!Stamp /\ ~T!Send
  BY <1>1, <1>4 DEF TalkerStep, T!Talker, T!TalkerSetup, T!TalkerSetupFails,
                    T!avb_alsa_read, T!SendFails, T!TalkerKey, OrderInv
<1>5. QED
  BY <1>2, <1>3, <1>4

LEMMA OrderDeliver ==
    ASSUME TypeOK, TalkerInv, OrderInv, Deliver
    PROVE  OrderInv'
<1> DEFINE x == Head(wire)
<1>1. /\ wire \in Seq(Packets) /\ wire # <<>> /\ rx \in Seq(Packets) /\ x \in Packets
      /\ wire' = Tail(wire) /\ rx' = Append(rx, x) /\ UNCHANGED <<tpc, pdu, sent>>
      /\ accepted' = accepted
  BY HeadTailProperties DEF Deliver, Arrive, process, TalkerInv, TypeOK, accepted
<1>2. Before(accepted, <<x>>) /\ Before(rx, <<x>>)
  BY <1>1, BeforeTail DEF OrderInv
<1>3. Before(<<x>>, Tail(wire)) /\ Rising(Tail(wire))
  BY <1>1, RisingTail DEF OrderInv
<1>4. Before(accepted, Tail(wire)) /\ Before(rx, Tail(wire))
  BY <1>1, BeforeTail DEF OrderInv
<1>5. Rising(Append(rx, x))
  BY <1>1, <1>2, RisingAppend DEF OrderInv
<1>6. Before(accepted, Append(rx, x))
  BY <1>1, <1>2, BeforeAppendRight DEF OrderInv
<1>7. Before(Append(rx, x), Tail(wire))
  BY <1>1, <1>3, <1>4, BeforeAppendLeft
<1>8. ASSUME tpc = "send" PROVE Before(Append(rx, x), <<pdu>>) /\ Before(Tail(wire), <<pdu>>)
  <2>1. Before(<<x>>, <<pdu>>) /\ Before(Tail(wire), <<pdu>>)
    BY <1>1, <1>8, BeforeTail DEF OrderInv
  <2>2. QED
    BY <1>1, <1>8, <2>1, BeforeAppendLeft DEF OrderInv
<1>9. QED
  BY <1>1, <1>3, <1>4, <1>5, <1>6, <1>7, <1>8 DEF OrderInv

LEMMA OrderStep ==
    ASSUME TypeOK, TalkerInv, ContentsInv, OrderInv, [StreamNext]_svars
    PROVE  OrderInv'
<1>1. CASE ListenerStep /\ accepted' # accepted
  <2>1. PICK x \in Sample : x.pcm = Head(rx).pcm /\ accepted' = Append(accepted, x)
    BY <1>1, AcceptedStep
  <2>2. Accept /\ Receive /\ accepted \in Seq(Sample)
    BY <1>1, AcceptedStep
  <2>3. QED
    BY <1>1, <2>1, <2>2, OrderAccept
<1>2. CASE ListenerStep /\ accepted' = accepted /\ Receive
  <2>1. /\ rx \in Seq(Packets) /\ rx # <<>> /\ rx' = Tail(rx)
        /\ UNCHANGED <<wire, pdu, sent, tpc>>
    BY <1>2 DEF ListenerStep, tvars, Receive, TypeOK
  <2>2. Rising(Tail(rx))
    BY <2>1, RisingTail DEF OrderInv
  <2>3. /\ Before(accepted, Tail(rx)) /\ Before(Tail(rx), wire)
        /\ tpc = "send" => Before(Tail(rx), <<pdu>>)
    BY <2>1, BeforeTail DEF OrderInv
  <2>4. QED
    BY <1>2, <2>1, <2>2, <2>3 DEF OrderInv
<1>3. CASE ListenerStep /\ accepted' = accepted /\ ~Receive
  BY <1>3, ListenerReceives DEF ListenerStep, tvars, OrderInv
<1>4. CASE Lose
  <2>1. /\ wire \in Seq(Packets) /\ wire # <<>> /\ wire' = Tail(wire)
        /\ UNCHANGED <<rx, pdu, sent, tpc>> /\ accepted' = accepted
    BY <1>4 DEF Lose, vars, TalkerInv, accepted
  <2>2. Rising(Tail(wire))
    BY <2>1, RisingTail DEF OrderInv
  <2>3. /\ Before(accepted, Tail(wire)) /\ Before(rx, Tail(wire))
        /\ tpc = "send" => Before(Tail(wire), <<pdu>>)
    BY <2>1, BeforeTail DEF OrderInv
  <2>4. QED
    BY <2>1, <2>2, <2>3 DEF OrderInv
<1>5. CASE StreamTick \/ StreamEsc \/ StreamGone \/ UNCHANGED svars
  BY <1>5 DEF StreamTick, Tick, StreamEsc, PressEsc, StreamGone, Gone, process, svars,
              tvars, vars, accepted, OrderInv
<1>6. QED
  BY <1>1, <1>2, <1>3, <1>4, <1>5, OrderTalker, OrderDeliver DEF StreamNext

(* From the talker's hand to the sound card no packet overtakes another. *)
THEOREM OrderCorrect == StreamSpec => []OrderInv
<1>1. StreamInit => OrderInv
  BY DEF StreamInit, Init, T!TalkerInit, OrderInv, accepted, Rising, Before
<1>2. QED
  BY <1>1, OrderStep, TalkerCorrect, ContentsCorrect, StreamImplementsListener,
     TypeCorrect, PTL DEF StreamSpec

(* Fragments are played in the order they were captured, none twice. *)
THEOREM FragmentsPlayedInOrder == StreamSpec => []PlayedInOrder
<1>1. TypeOK /\ OrderInv => PlayedInOrder
  <2>1. SUFFICES ASSUME TypeOK, OrderInv, NEW i \in 2 .. Len(accepted)
                 PROVE  accepted[i - 1].pcm.k < accepted[i].pcm.k
    BY DEF PlayedInOrder
  <2>2. i - 1 \in 1 .. Len(accepted) /\ i \in 1 .. Len(accepted) /\ i - 1 < i
    <3>1. accepted \in Seq(Sample)
      BY <2>1, ConcatProperties DEF TypeOK, accepted
    <3>2. QED
      BY <2>1, <3>1, LenProperties
  <2>3. QED
    BY <2>1, <2>2 DEF OrderInv, Rising
<1>2. QED
  BY <1>1, OrderCorrect, StreamImplementsListener, TalkerCorrect, TypeCorrect, PTL

-----------------------------------------------------------------------------
(* The drop counter.                                                       *)

(* A queue with one packet of this number. *)
Number(n) == <<[pcm |-> [k |-> n]]>>

(* The newest packet of those kept. *)
Newest == accepted[Len(accepted)].pcm.k

(* n is the last packet whose sequence number was taken; the next number   *)
(* is expected, and what is under way is newer.  It is the newest one kept *)
(* unless a late one was discarded after it.                               *)
Taken(n) ==
    /\ expected_seq = n % SeqMod
    /\ Before(Number(n), rx) /\ Before(Number(n), wire)
    /\ tpc = "send" => Before(Number(n), <<pdu>>)
    /\ accepted # <<>> => Newest <= n /\ (discards = 0 => n = Newest)

Counted ==
    /\ accepted = <<>> => dropped = 0
    /\ accepted # <<>> =>
          /\ dropped <= missed
          /\ discards = 0 => \E q \in Int : missed - dropped = SeqMod * q

CountInv ==
    /\ discards \in Nat
    /\ InSession => Counted /\ \E n \in 0 .. sent : Taken(n)

(* What is added for a gap is what is missing between two numbers, less    *)
(* whole sequence ranges.                                                  *)
LEMMA GapCounted ==
    ASSUME NEW m \in Nat \ {0}, NEW a \in Int, NEW b \in Int, b <= a
    PROVE  /\ ((a % m) - (b % m)) % m \in Nat
           /\ ((a % m) - (b % m)) % m <= a - b
           /\ \E q \in Int : (a - b) - (((a % m) - (b % m)) % m) = m * q
<1>1. PICK qa \in Int : \E r \in 0 .. m - 1 : a = m * qa + r /\ a % m = r
  BY DivisionWithRemainder
<1>2. PICK ra \in 0 .. m - 1 : a = m * qa + ra /\ a % m = ra
  BY <1>1
<1>3. PICK qb \in Int : \E r \in 0 .. m - 1 : b = m * qb + r /\ b % m = r
  BY DivisionWithRemainder
<1>4. PICK rb \in 0 .. m - 1 : b = m * qb + rb /\ b % m = rb
  BY <1>3
<1>5. PICK d \in Int : d = ra - rb
  OBVIOUS
<1>6. PICK t \in Int : \E r \in 0 .. m - 1 : d = m * t + r /\ d % m = r
  BY DivisionWithRemainder
<1>7. PICK g \in 0 .. m - 1 : d = m * t + g /\ d % m = g
  BY <1>6
<1>8. PICK n \in Int : n = qa - qb + t
  OBVIOUS
<1>9. m * n = (m * qa - m * qb) + m * t
  BY <1>8, Z3
<1>10. (a - b) - g = m * n
  BY <1>2, <1>4, <1>5, <1>7, <1>9, Z3
<1>11. n >= 0
  <2>1. SUFFICES ASSUME n < 0 PROVE FALSE
    OBVIOUS
  <2>2. PICK k \in Int : k = -n /\ k >= 1
    BY <2>1
  <2>3. m * k >= m
    BY <2>2, PositiveMultiple
  <2>4. m * k = -(m * n)
    BY <2>2, Z3
  <2>5. PICK e \in Int : e = m * n
    BY Z3
  <2>6. QED
    BY <1>10, <2>3, <2>4, <2>5
<1>12. m * n >= 0
  BY <1>11, Z3
<1>13. PICK e \in Int : e = m * n
  BY Z3
<1>14. g <= a - b
  BY <1>10, <1>12, <1>13
<1>15. QED
  BY <1>2, <1>4, <1>5, <1>7, <1>10, <1>14

(* Only the number in a queue of one matters. *)
LEMMA NumberOf ==
    ASSUME NEW p, NEW q
    PROVE  Before(<<p>>, q) <=> Before(Number(p.pcm.k), q)
BY DEF Before, Number

LEMMA NothingKept ==
    ASSUME TypeOK, FirstNodeInv, InSession
    PROVE  accepted = <<>> <=> stats = <<>>
<1>1. samples \in Seq(Sample) /\ played \in Seq(Sample)
  BY DEF TypeOK
<1>2. accepted = <<>> <=> played = <<>> /\ samples = <<>>
  BY <1>1, ConcatProperties, EmptySeq DEF accepted
<1>3. QED
  BY <1>2 DEF FirstNodeInv

(* A session that has ended does not begin again. *)
LEMMA SessionStays ==
    ASSUME [StreamNext]_svars, InSession'
    PROVE  InSession
<1> USE DEF InSession, Ended
<1>1. CASE ListenerStep
  <2>1. Finish \/ FinishCrashes => FALSE
    BY DEF Finish, FinishCrashes
  <2>2. Setup \/ Poll \/ PollFails \/ new_packet \/ Play \/ Check => InSession
    BY DEF Setup, Starting, SetupFails, WavOpenFails, UninitialisedResult,
           SessionTimerFails, StartSession, Poll, PollFails, new_packet, RecvFails,
           DropPacket, DiscardLate, Accept, AcceptFails, Kept, Receive, Play, PlayRunning,
           PlayFirst, TimerReadFails, WavTellAborts, PlayNothing, Playing, Check
  <2>3. QED
    BY <1>1, <2>1, <2>2 DEF ListenerStep, Listener
<1>2. CASE TalkerStep \/ Lose \/ StreamGone \/ UNCHANGED svars
  BY <1>2 DEF TalkerStep, Lose, StreamGone, Gone, svars, vars
<1>3. CASE Deliver \/ StreamTick \/ StreamEsc
  BY <1>3 DEF Deliver, Arrive, StreamTick, Tick, StreamEsc, PressEsc, process
<1>4. QED
  BY <1>1, <1>2, <1>3 DEF StreamNext

(* What the listener does with a packet while the session goes on. *)
LEMMA PacketTaken ==
    ASSUME Listener, InSession'
    PROVE  DropPacket \/ DiscardLate \/ Accept \/ UNCHANGED <<rx, expected_seq, dropped>>
<1> USE DEF Setup, Starting, SetupFails, WavOpenFails, UninitialisedResult,
            SessionTimerFails, StartSession, Poll, PollFails, new_packet, RecvFails,
            AcceptFails, Kept, Receive, Play, PlayRunning,
            PlayFirst, TimerReadFails, WavTellAborts, PlayNothing, Playing, Check, Finish,
            FinishCrashes, Ending, InSession, Ended, seqs
<1>1. Setup \/ Poll \/ PollFails \/ Check \/ Finish \/ FinishCrashes =>
          UNCHANGED <<rx, expected_seq, dropped>>
  OBVIOUS
<1>2. new_packet => DropPacket \/ DiscardLate \/ Accept
  OBVIOUS
<1>3. Play => UNCHANGED <<rx, expected_seq, dropped>>
  OBVIOUS
<1>4. QED
  BY <1>1, <1>2, <1>3 DEF Listener

(* Nothing is taken: what is under way must only stay newer. *)
LEMMA NothingTaken ==
    ASSUME CountInv, UNCHANGED <<expected_seq, dropped, discards>>, accepted' = accepted,
           InSession' => InSession, sent \in Nat, sent' \in Nat, sent <= sent',
           \A n \in 0 .. sent : Taken(n) =>
               /\ Before(Number(n), rx') /\ Before(Number(n), wire')
               /\ tpc' = "send" => Before(Number(n), <<pdu'>>)
    PROVE  CountInv'
<1>1. SUFFICES ASSUME InSession' PROVE Counted' /\ \E n \in 0 .. sent' : Taken(n)'
  BY DEF CountInv
<1>2. PICK n \in 0 .. sent : Taken(n)
  BY <1>1 DEF CountInv
<1>3. Taken(n)' /\ n \in 0 .. sent'
  BY <1>2 DEF Taken, Newest
<1>4. Counted'
  BY <1>1 DEF CountInv, Counted, missed
<1>5. QED
  BY <1>3, <1>4

LEMMA CountTalker ==
    ASSUME TypeOK, TalkerInv, CountInv, TalkerStep
    PROVE  CountInv'
<1>1. /\ UNCHANGED <<expected_seq, dropped, discards, rx, pc>> /\ accepted' = accepted
      /\ sent \in Nat
  BY DEF TalkerStep, vars, accepted, TalkerInv
<1>2. InSession' => InSession
  BY <1>1 DEF InSession, Ended
<1>3. CASE T!Stamp
  <2>1. pdu'.pcm.k = sent + 1 /\ sent' = sent + 1 /\ wire' = wire
    BY <1>3, StampMakesPacket DEF T!Stamp, T!Pdu
  <2>2. ASSUME NEW n \in 0 .. sent PROVE Before(Number(n), <<pdu'>>)
    BY <1>1, <2>1 DEF Before, Number
  <2>3. QED
    BY <1>1, <1>2, <2>1, <2>2, NothingTaken DEF Taken
<1>4. CASE T!Send
  <2>1. /\ wire' = Append(wire, pdu) /\ wire \in Seq(Packets) /\ pdu \in Packets
        /\ tpc = "send" /\ tpc' # "send" /\ sent' = sent
    BY <1>4 DEF T!Send, TalkerInv
  <2>2. ASSUME NEW n \in 0 .. sent, Taken(n) PROVE Before(Number(n), wire')
    BY <2>1, <2>2, BeforeAppendRight DEF Taken
  <2>3. QED
    BY <1>1, <1>2, <2>1, <2>2, NothingTaken DEF Taken
<1>5. CASE ~T!Stamp /\ ~T!Send
  <2>1. UNCHANGED <<sent, wire, pdu>> /\ (tpc' = "send" => tpc = "send")
    BY <1>5 DEF TalkerStep, T!Talker, T!TalkerSetup, T!TalkerSetupFails,
                T!avb_alsa_read, T!SendFails, T!TalkerKey
  <2>2. QED
    BY <1>1, <1>2, <2>1, NothingTaken DEF Taken
<1>6. QED
  BY <1>3, <1>4, <1>5

LEMMA CountNetwork ==
    ASSUME TypeOK, TalkerInv, CountInv, Deliver \/ Lose
    PROVE  CountInv'
<1>1. /\ wire \in Seq(Packets) /\ wire # <<>> /\ wire' = Tail(wire) /\ rx \in Seq(Packets)
      /\ Head(wire) \in Packets /\ (rx' = rx \/ rx' = Append(rx, Head(wire)))
      /\ UNCHANGED <<tpc, pdu, sent, expected_seq, dropped, discards, pc>>
      /\ accepted' = accepted /\ sent \in Nat
  <2>1. /\ wire \in Seq(Packets) /\ rx \in Seq(Packets) /\ sent \in Nat
        /\ wire # <<>> /\ wire' = Tail(wire)
    BY DEF TalkerInv, TypeOK, Deliver, Lose
  <2>2. Head(wire) \in Packets
    BY <2>1, HeadTailProperties
  <2>3. CASE Deliver
    BY <2>1, <2>2, <2>3 DEF Deliver, Arrive, process, seqs, accepted
  <2>4. CASE Lose
    BY <2>1, <2>2, <2>4 DEF Lose, vars, accepted
  <2>5. QED
    BY <2>3, <2>4
<1>2. InSession' => InSession
  BY <1>1 DEF InSession, Ended
<1>3. ASSUME NEW n \in 0 .. sent, Taken(n)
      PROVE  Before(Number(n), rx') /\ Before(Number(n), wire')
  <2>1. Before(Number(n), <<Head(wire)>>) /\ Before(Number(n), Tail(wire))
    BY <1>1, <1>3, BeforeTail DEF Taken
  <2>2. Before(Number(n), Append(rx, Head(wire)))
    BY <1>1, <1>3, <2>1, BeforeAppendRight DEF Taken
  <2>3. QED
    BY <1>1, <1>3, <2>1, <2>2 DEF Taken
<1>4. \A n \in 0 .. sent : Taken(n) =>
          /\ Before(Number(n), rx') /\ Before(Number(n), wire')
          /\ tpc' = "send" => Before(Number(n), <<pdu'>>)
  BY <1>1, <1>3 DEF Taken
<1>5. sent <= sent' /\ sent' \in Nat
  BY <1>1
<1>6. QED
  BY <1>1, <1>2, <1>4, <1>5, NothingTaken

(* What a packet that is taken leaves to be expected. *)
LEMMA NextTaken ==
    ASSUME TypeOK, TalkerInv, ContentsInv, OrderInv, CountInv, ListenerStep, Receive,
           InSession, expected_seq' = is_valid_packet(Head(rx), expected_seq)
    PROVE  LET k == Head(rx).pcm.k IN
           /\ k \in 0 .. sent' /\ k \in Nat \ {0}
           /\ Head(rx).kind = "aaf" /\ Head(rx).seq = (k - 1) % SeqMod
           /\ expected_seq' = k % SeqMod
           /\ Before(Number(k), rx') /\ Before(Number(k), wire')
           /\ tpc' = "send" => Before(Number(k), <<pdu'>>)
           /\ \A n \in 0 .. sent : Taken(n) => n <= k - 1
<1> DEFINE k == Head(rx).pcm.k
<1>1. /\ rx \in Seq(Packets) /\ rx # <<>> /\ rx' = Tail(rx)
      /\ UNCHANGED <<wire, pdu, sent, tpc>> /\ sent \in Nat
  BY DEF ListenerStep, tvars, Receive, TypeOK, TalkerInv
<1>2. FromTalker(Head(rx))
  BY ReceivedFromTalker
<1>3. k \in 1 .. sent /\ Head(rx).kind = "aaf" /\ Head(rx).seq = (k - 1) % SeqMod
  BY <1>2 DEF FromTalker
<1>4. expected_seq' = k % SeqMod
  <2>1. PICK a \in Int : a = k - 1 /\ a + 1 = k
    BY <1>1, <1>3
  <2>2. ((a % SeqMod) + 1) % SeqMod = (a + 1) % SeqMod
    BY NextModulo, BoundTypes
  <2>3. QED
    BY <1>3, <2>1, <2>2 DEF is_valid_packet, Succ
<1>5. /\ Before(<<Head(rx)>>, Tail(rx)) /\ Before(<<Head(rx)>>, wire)
      /\ tpc = "send" => Before(<<Head(rx)>>, <<pdu>>)
  BY <1>1, RisingTail, BeforeTail DEF OrderInv
<1>6. /\ Before(Number(k), Tail(rx)) /\ Before(Number(k), wire)
      /\ tpc = "send" => Before(Number(k), <<pdu>>)
  BY <1>5, NumberOf
<1>7. ASSUME NEW n \in 0 .. sent, Taken(n) PROVE n <= k - 1
  <2>1. Before(Number(n), <<Head(rx)>>)
    BY <1>1, <1>7, BeforeTail DEF Taken
  <2>2. n < k
    BY <2>1 DEF Before, Number
  <2>3. QED
    BY <1>1, <1>3, <2>2
<1>8. QED
  BY <1>1, <1>3, <1>4, <1>6, <1>7

(* A late packet is taken and not kept. *)
LEMMA CountDiscard ==
    ASSUME TypeOK, TalkerInv, ContentsInv, OrderInv, FirstNodeInv, CountInv,
           ListenerStep, DiscardLate, InSession, accepted' = accepted
    PROVE  CountInv'
<1>1. /\ Receive /\ expected_seq' = is_valid_packet(Head(rx), expected_seq)
      /\ dropped' = dropped
      /\ discards' = IF stats # <<>> THEN discards + 1 ELSE discards
  BY DEF ListenerStep, DiscardLate
<1>2. discards \in Nat /\ discards' \in Nat /\ Counted
      /\ (accepted # <<>> => discards' # 0)
  BY <1>1, NothingKept DEF CountInv
<1>3. PICK k \in Nat \ {0} :
          /\ k \in 0 .. sent' /\ expected_seq' = k % SeqMod
          /\ Before(Number(k), rx') /\ Before(Number(k), wire')
          /\ tpc' = "send" => Before(Number(k), <<pdu'>>)
          /\ \A n \in 0 .. sent : Taken(n) => n <= k - 1
  BY <1>1, NextTaken
<1>4. PICK n \in 0 .. sent : Taken(n)
  BY DEF CountInv
<1>5. accepted # <<>> => Newest \in Nat /\ Newest <= k
  <2>1. SUFFICES ASSUME accepted # <<>> PROVE Newest \in Nat /\ Newest <= k
    OBVIOUS
  <2>2. Len(accepted) \in 1 .. Len(accepted)
    BY <2>1, ConcatProperties, LenProperties, EmptySeq DEF TypeOK, accepted
  <2>3. Newest \in 1 .. sent
    BY <2>2 DEF OrderInv, Newest
  <2>4. Newest <= n /\ n <= k - 1
    BY <1>3, <1>4, <2>1 DEF Taken
  <2>5. QED
    BY <2>3, <2>4 DEF TalkerInv
<1>6. Taken(k)'
  BY <1>2, <1>3, <1>5 DEF Taken, Newest
<1>7. Counted'
  BY <1>1, <1>2 DEF Counted, missed
<1>8. QED
  BY <1>2, <1>3, <1>6, <1>7 DEF CountInv

(* A packet is kept, and the gap in front of it is counted. *)
LEMMA CountAccept ==
    ASSUME TypeOK, TalkerInv, ContentsInv, OrderInv, FirstNodeInv, CountInv,
           ListenerStep, Accept, InSession, accepted \in Seq(Sample),
           NEW x \in Sample, x.pcm = Head(rx).pcm, accepted' = Append(accepted, x)
    PROVE  CountInv'
<1> DEFINE len == Len(accepted)
<1>1. /\ Receive /\ expected_seq' = is_valid_packet(Head(rx), expected_seq)
      /\ dropped' = avb_stats_add_dropped(Head(rx)) /\ ~DiscardLate /\ discards' = discards
  BY DEF ListenerStep, DiscardLate, Accept, Kept
<1>2. PICK k \in Nat \ {0} :
          /\ k = Head(rx).pcm.k
          /\ k \in 0 .. sent' /\ expected_seq' = k % SeqMod
          /\ Head(rx).seq = (k - 1) % SeqMod
          /\ Before(Number(k), rx') /\ Before(Number(k), wire')
          /\ tpc' = "send" => Before(Number(k), <<pdu'>>)
          /\ \A n \in 0 .. sent : Taken(n) => n <= k - 1
  BY <1>1, NextTaken
<1>3. PICK n \in 0 .. sent : Taken(n)
  BY DEF CountInv
<1>4. /\ len \in Nat /\ Len(accepted') = len + 1 /\ accepted' # <<>>
      /\ accepted'[len + 1] = x /\ \A i \in 1 .. len : accepted'[i] = accepted[i]
      /\ accepted # <<>> => len \in Nat \ {0}
  BY AppendProperties, LenProperties, EmptySeq
<1>5. Newest' = k /\ k \in Nat
  BY <1>2, <1>4 DEF Newest
<1>6. Taken(k)'
  BY <1>2, <1>5 DEF Taken
<1>7. CASE accepted = <<>>
  <2>1. stats = <<>> /\ dropped = 0 /\ len = 0
    BY <1>7, NothingKept DEF CountInv, Counted
  <2>2. dropped' = 0
    BY <1>1, <2>1 DEF avb_stats_add_dropped
  <2>3. accepted'[Len(accepted')].pcm.k = k /\ accepted'[1].pcm.k = k /\ Len(accepted') = 1
    BY <1>2, <1>4, <2>1
  <2>4. missed' = 0
    BY <1>4, <1>5, <2>3 DEF missed
  <2>5. 0 \in Int /\ 0 - 0 = SeqMod * 0
    BY BoundTypes
  <2>6. QED
    BY <1>1, <1>2, <1>4, <1>6, <2>2, <2>4, <2>5 DEF CountInv, Counted
<1>8. CASE accepted # <<>>
  <2>1. PICK gap \in Nat : /\ gap = (((k - 1) % SeqMod) - (n % SeqMod)) % SeqMod
                           /\ gap <= (k - 1) - n
                           /\ \E q \in Int : ((k - 1) - n) - gap = SeqMod * q
    <3>1. PICK a \in Int, b \in Int : a = k - 1 /\ b = n
      BY <1>2
    <3>2. b <= a
      BY <1>2, <1>3, <3>1
    <3>3. /\ ((a % SeqMod) - (b % SeqMod)) % SeqMod \in Nat
          /\ ((a % SeqMod) - (b % SeqMod)) % SeqMod <= a - b
          /\ \E q \in Int : (a - b) - (((a % SeqMod) - (b % SeqMod)) % SeqMod) = SeqMod * q
      BY <3>2, GapCounted, BoundTypes
    <3>4. QED
      BY <3>1, <3>3
  <2>2. dropped' = dropped + gap
    <3>1. stats # <<>>
      BY <1>8, NothingKept
    <3>2. dropped' = dropped + ((Head(rx).seq - expected_seq) % SeqMod)
      BY <1>1, <3>1, Zenon DEF avb_stats_add_dropped
    <3>3. Head(rx).seq = (k - 1) % SeqMod /\ expected_seq = n % SeqMod
      BY <1>2, <1>3, Zenon DEF Taken
    <3>4. gap = (((k - 1) % SeqMod) - (n % SeqMod)) % SeqMod
      BY <2>1, Zenon
    <3>5. QED
      BY <3>2, <3>3, <3>4, Zenon
  <2>3. PICK first \in Nat, last \in Nat :
            first = accepted[1].pcm.k /\ last = accepted[len].pcm.k
    <3>1. 1 \in 1 .. len /\ len \in 1 .. len
      BY <1>4, <1>8
    <3>2. QED
      BY <3>1 DEF OrderInv, TalkerInv
  <2>4. missed = last - first + 1 - len /\ missed' = k - first + 1 - (len + 1)
    <3>1. missed = accepted[len].pcm.k - accepted[1].pcm.k + 1 - len
      BY <1>8, Zenon DEF missed, Newest
    <3>2. missed' = Newest' - accepted'[1].pcm.k + 1 - Len(accepted')
      BY <1>4, Zenon DEF missed, Newest
    <3>3. accepted'[1] = accepted[1]
      <4>1. 1 \in 1 .. len
        BY <1>4, <1>8
      <4>2. QED
        BY <1>4, <4>1, Zenon
    <3>4. QED
      BY <1>4, <1>5, <2>3, <3>1, <3>2, <3>3, Zenon
  <2>5. last <= n /\ (discards = 0 => n = last) /\ n \in Nat
    BY <1>3, <1>8, <2>3 DEF Taken, Newest, TalkerInv
  <2>6. dropped \in Nat /\ dropped <= missed
    BY <1>8 DEF CountInv, Counted, TypeOK
  <2>7. /\ gap \in Nat /\ gap <= (k - 1) - n /\ k \in Nat /\ len \in Nat
        /\ missed \in Int /\ missed' = missed + (k - 1) - last
    <3>1. gap \in Nat /\ gap <= (k - 1) - n /\ k \in Nat /\ len \in Nat
      BY <1>2, <1>4, <2>1
    <3>2. missed \in Int /\ missed' = missed + (k - 1) - last
      <4>1. PICK l \in Nat : l = len
        BY <3>1
      <4>2. missed = last - first + 1 - l /\ missed' = k - first + 1 - (l + 1)
        BY <2>4, <4>1
      <4>3. QED
        BY <4>2
    <3>3. QED
      BY <3>1, <3>2
  <2>8. dropped' <= missed'
    <3>1. last <= n /\ n \in Nat /\ dropped <= missed /\ gap <= (k - 1) - n
      BY <2>5, <2>6, <2>7
    <3>2. missed \in Int /\ missed' = missed + (k - 1) - last /\ dropped \in Nat /\ gap \in Nat
          /\ last \in Nat
      BY <2>3, <2>6, <2>7
    <3>3. (k - 1) - n <= (k - 1) - last /\ k \in Nat
      BY <2>3, <2>5, <2>7
    <3>4. gap <= (k - 1) - last
      BY <2>3, <2>7, <3>1, <3>2, <3>3
    <3>5. PICK m \in Int, d \in Nat, g \in Nat, s \in Int :
              m = missed /\ d = dropped /\ g = gap /\ s = (k - 1) - last
      BY <3>2, <3>3
    <3>6. d <= m /\ g <= s
      BY <3>1, <3>4, <3>5
    <3>7. dropped' = d + g /\ missed' = m + s
      <4>1. missed + (k - 1) - last = missed + ((k - 1) - last)
        BY <3>2, <3>3
      <4>2. QED
        BY <2>2, <3>2, <3>5, <4>1, Zenon
    <3>8. d + g <= m + s
      BY <3>6
    <3>9. QED
      BY <3>7, <3>8, Zenon
  <2>9. ASSUME discards = 0 PROVE \E q \in Int : missed' - dropped' = SeqMod * q
    <3>1. PICK q \in Int : missed - dropped = SeqMod * q
      BY <1>8, <2>9 DEF CountInv, Counted
    <3>2. PICK r \in Int : ((k - 1) - n) - gap = SeqMod * r
      BY <2>1
    <3>3. missed' - dropped' = (missed - dropped) + (((k - 1) - n) - gap)
      <4>1. n = last /\ n \in Nat
        BY <2>5, <2>9
      <4>2. missed \in Int /\ missed' = missed + (k - 1) - n /\ dropped \in Nat /\ gap \in Nat
        BY <2>6, <2>7, <4>1
      <4>3. QED
        BY <2>2, <4>1, <4>2
    <3>4. SeqMod * (q + r) = SeqMod * q + SeqMod * r
      BY BoundTypes, Z3
    <3>5. QED
      BY <3>1, <3>2, <3>3, <3>4
  <2>10. QED
    BY <1>1, <1>2, <1>4, <1>6, <2>8, <2>9 DEF CountInv, Counted
<1>9. QED
  BY <1>7, <1>8

LEMMA CountStep ==
    ASSUME TypeOK, TalkerInv, ContentsInv, OrderInv, FirstNodeInv, CountInv,
           [StreamNext]_svars
    PROVE  CountInv'
<1>1. sent \in Nat
  BY DEF TalkerInv
<1>2. CASE ListenerStep
  <2>1. UNCHANGED <<wire, pdu, sent, tpc>> /\ discards' \in Nat
    BY <1>2 DEF ListenerStep, tvars, CountInv
  <2>2. SUFFICES ASSUME InSession' PROVE CountInv'
    BY <2>1 DEF CountInv
  <2>3. InSession
    BY <2>2, SessionStays
  <2>4. CASE Accept
    <3>1. accepted' # accepted
      <4>1. PICK s \in Sample : samples' = Append(samples, s) /\ played' = played
        BY <2>4, AcceptedFragment DEF Accept, Kept, Receive
      <4>2. /\ samples \in Seq(Sample) /\ samples' \in Seq(Sample) /\ played \in Seq(Sample)
            /\ Len(samples') = Len(samples) + 1
        BY <4>1, AppendProperties DEF TypeOK
      <4>3. /\ Len(played \o samples') = Len(played) + Len(samples')
            /\ Len(played \o samples) = Len(played) + Len(samples)
        BY <4>2, ConcatProperties
      <4>4. QED
        BY <4>1, <4>2, <4>3, LenProperties DEF accepted
    <3>2. QED
      BY <1>2, <2>3, <2>4, <3>1, AcceptedStep, CountAccept
  <2>5. CASE DiscardLate
    <3>1. accepted' = accepted
      BY <2>5 DEF DiscardLate, Receive, accepted
    <3>2. QED
      BY <1>2, <2>3, <2>5, <3>1, CountDiscard
  <2>6. CASE DropPacket
    BY <2>6, ReceivedFromTalker DEF DropPacket, FromTalker
  <2>7. CASE UNCHANGED <<rx, expected_seq, dropped>> /\ ~Accept /\ ~DiscardLate
    <3>1. accepted' = accepted
      BY <2>7, AcceptedStep
    <3>2. discards' = discards
      BY <1>2, <2>7 DEF ListenerStep
    <3>3. QED
      BY <1>1, <2>1, <2>3, <2>7, <3>1, <3>2, NothingTaken DEF Taken
  <2>8. QED
    BY <1>2, <2>2, <2>4, <2>5, <2>6, <2>7, PacketTaken DEF ListenerStep
<1>3. CASE StreamTick \/ StreamEsc \/ StreamGone \/ UNCHANGED svars
  <2>1. UNCHANGED <<rx, wire, pdu, sent, tpc, expected_seq, dropped, discards>>
        /\ accepted' = accepted
    BY <1>3 DEF StreamTick, Tick, StreamEsc, PressEsc, StreamGone, Gone, process, seqs, svars,
                tvars, vars, accepted
  <2>2. QED
    BY <1>1, <2>1, SessionStays, NothingTaken DEF Taken
<1>4. QED
  BY <1>2, <1>3, CountTalker, CountNetwork DEF StreamNext

(* What was taken, what was kept and what was counted fit together. *)
THEOREM CountCorrect == StreamSpec => []CountInv
<1>1. StreamInit => CountInv
  <2> SUFFICES ASSUME StreamInit PROVE CountInv
    OBVIOUS
  <2>1. /\ expected_seq = 0 /\ dropped = 0 /\ sent = 0 /\ tpc = "setup" /\ discards = 0
        /\ rx = <<>> /\ wire = <<>> /\ accepted = <<>>
    BY DEF StreamInit, Init, T!TalkerInit, accepted
  <2>2. 0 % SeqMod = 0
    BY BoundTypes, MultipleModulo
  <2>3. Taken(0)
    BY <2>1, <2>2 DEF Taken, Before
  <2>4. QED
    BY <2>1, <2>3 DEF CountInv, Counted
<1>2. QED
  BY <1>1, CountStep, OrderCorrect, TalkerCorrect, ContentsCorrect, StreamImplementsListener,
     TypeCorrect, FirstNodeCorrect, PTL DEF StreamSpec

(* "Dropped packets" never counts a packet that was not missed. *)
THEOREM CounterIsHonest == StreamSpec => []DropsNotOvercounted
<1>1. CountInv => DropsNotOvercounted
  BY DEF CountInv, Counted, DropsNotOvercounted, missed
<1>2. QED
  BY <1>1, CountCorrect, PTL

(* Without late discards it counts all that were missed, as far as a       *)
(* sequence number can tell.                                               *)
THEOREM CounterIsComplete == StreamSpec => []DropsCounted
<1>1. TypeOK /\ OrderInv /\ TalkerInv /\ CountInv => DropsCounted
  <2> SUFFICES ASSUME TypeOK, OrderInv, TalkerInv, CountInv, InSession, discards = 0
               PROVE  (missed - dropped) % SeqMod = 0
    BY DEF DropsCounted
  <2>1. PICK q \in Int : missed - dropped = SeqMod * q
    <3>1. CASE accepted = <<>>
      <4>1. 0 \in Int /\ missed - dropped = SeqMod * 0
        BY <3>1, BoundTypes DEF CountInv, Counted, missed
      <4>2. QED
        BY <4>1
    <3>2. CASE accepted # <<>>
      BY <3>2 DEF CountInv, Counted
    <3>3. QED
      BY <3>1, <3>2
  <2>2. PICK d \in Int : d = missed - dropped /\ d = SeqMod * q
    <3>1. SeqMod * q \in Int
      BY BoundTypes, Z3
    <3>2. QED
      BY <2>1, <3>1
  <2>3. d % SeqMod = 0
    BY <2>2, MultipleModulo, BoundTypes
  <2>4. QED
    BY <2>2, <2>3
<1>2. QED
  BY <1>1, CountCorrect, OrderCorrect, TalkerCorrect, StreamImplementsListener,
     TypeCorrect, PTL

=============================================================================
