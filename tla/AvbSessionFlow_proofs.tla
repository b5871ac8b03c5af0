----------------------- MODULE AvbSessionFlow_proofs ------------------------
(***************************************************************************)
(* Theorems about AvbSession, for all command lines and sound cards: what  *)
(* is heard is what was captured, in order; capture times, figures and the *)
(* recording's name are those of the packets, up to the epochs their due   *)
(* times are misplaced by; and when a packet is one period of a card.      *)
(***************************************************************************)
EXTENDS AvbSession_proofs

-----------------------------------------------------------------------------
(* What the talker sent.  The proofs speak of its log: the origin of every *)
(* packet, the n-th being that of packet n.  No variable holds it; each    *)
(* state has one that explains wire, statistics, buffer and what was heard.*)

Origin == [k : Nat, sent : Nat, ok : BOOLEAN, first : Nat, behind : Int]

(* Ticks of one period of the talker's card. *)
TalkerPeriod == Duration(tset.frames_per_pdu, tset)

(* What the microphone delivers next after packet n. *)
NextFirst(h, n) == IF n = Len(h) THEN mic ELSE h[n + 1].first

(* Packets are numbered and sent in order; a complete read is followed     *)
(* without a gap.                                                          *)
IsLog(h) ==
    /\ h \in Seq(Origin) /\ Len(h) = sent
    /\ \A n \in 1 .. Len(h) :
          /\ h[n].k = n /\ h[n].first >= StartTime
          /\ StartTime <= h[n].sent /\ h[n].sent <= now
          /\ h[n].first + h[n].behind = h[n].sent - TalkerPeriod
          /\ h[n].ok => NextFirst(h, n) = h[n].first + TalkerPeriod
    /\ \A m, n \in 1 .. Len(h) : m <= n => h[m].sent <= h[n].sent

(* The frames of a period that began with o.first. *)
Captured(frames, o, set) ==
    \A i \in 1 .. Len(frames) :
        i <= set.frames_per_pdu => frames[i] = o.first + Duration(i - 1, set)

Packets(h, set) ==
    {p \in [fields : {init_pdu(set)}, len : {set.pdu_size}, ts : Nat,
            payload : Seq(Nat), origin : {h[n] : n \in 1 .. Len(h)}] :
        /\ p.ts = calculate_avtp_time(p.origin.sent, set.max_transit_time)
        /\ Len(p.payload) = Capacity(set)
        /\ p.origin.ok => Captured(p.payload, p.origin, set)}

(* The wire holds the packets sent last, in order. *)
WireInv(h) ==
    /\ wire \in Seq(Packets(h, tset)) /\ Len(wire) <= Len(h)
    /\ \A i \in 1 .. Len(wire) : wire[i].origin = h[Len(h) - Len(wire) + i]

Nodes(h, set) ==
    {node \in [arrival : Nat, presentation : Int, origin : {h[n] : n \in 1 .. Len(h)}] :
        /\ node.origin.sent <= node.arrival
        /\ node.presentation = get_presentation_time(
              calculate_avtp_time(node.origin.sent, set.max_transit_time), node.arrival)}

(* The statistics are of packets that have left the wire, newest first. *)
StatsInv(h) ==
    /\ stats \in Seq(Nodes(h, tset))
    /\ \A i \in 1 .. Len(stats) :
          /\ stats[i].arrival <= now
          /\ stats[i].origin.k <= Len(h) - Len(wire)
    /\ \A i, j \in 1 .. Len(stats) : i < j => stats[j].origin.k < stats[i].origin.k

(* A fragment in the buffer is a payload, one played a period of it. *)
Samples(h, set) ==
    {s \in [due : Int, k : 1 .. Len(h), frames : Seq(Nat)] :
        Len(s.frames) = Capacity(set) /\ (h[s.k].ok => Captured(s.frames, h[s.k], set))}

Plays(h, set, played_frames) ==
    {p \in [k : 1 .. Len(h), frames : Seq(Nat)] :
        /\ Len(p.frames) = played_frames
        /\ h[p.k].ok /\ played_frames <= Capacity(set) => Captured(p.frames, h[p.k], set)}

SoundInv(h) ==
    /\ samples \in Seq(Samples(h, tset))
    /\ played \in Seq(Plays(h, tset, lset.frames_per_pdu))

Explains(h) == IsLog(h) /\ WireInv(h) /\ StatsInv(h) /\ SoundInv(h)

(* The clock and the talker's buffers. *)
TalkerInv ==
    /\ now \in StartTime .. MaxTime
    /\ tpc = "start" => sent = 0
    /\ tpc = "run" =>
          /\ mic \in Nat /\ mic >= StartTime
          /\ payload \in Seq(Nat) /\ Len(payload) = Capacity(tset)

(* Until a side has started nothing of it has been seen. *)
QuietInv ==
    /\ lpc = "start" => samples = <<>> /\ played = <<>>
    /\ tpc = "start" => wire = <<>> /\ stats = <<>> /\ samples = <<>> /\ played = <<>>

Explained == \E h : Explains(h)

FlowInv == TalkerInv /\ QuietInv /\ Explained

-----------------------------------------------------------------------------
(* Settings and durations.                                                 *)

LEMMA DurationNat ==
    ASSUME NEW n \in Nat, NEW set, set.sample_rate \in Nat \ {0}
    PROVE  Duration(n, set) \in Nat
<1>1. PICK a \in Nat, r \in Nat \ {0} : a = n * Second /\ r = set.sample_rate
  <2>1. n * Second \in Nat
    BY SecondAssumption, Z3
  <2>2. QED
    BY <2>1
<1>2. a \div r \in Nat
  BY Z3
<1>3. QED
  BY <1>1, <1>2 DEF Duration

LEMMA NoDuration ==
    ASSUME NEW set, set.sample_rate \in Nat \ {0}
    PROVE  Duration(0, set) = 0
<1>1. PICK r \in Nat \ {0} : r = set.sample_rate
  OBVIOUS
<1>2. 0 * Second = 0
  BY SecondAssumption, Z3
<1>3. 0 \div r = 0
  BY Z3
<1>4. QED
  BY <1>1, <1>2, <1>3 DEF Duration


(* What is known of settings a card has answered. *)
Known(set) ==
    /\ set.sample_rate \in Nat \ {0} /\ set.frames_per_pdu \in Nat \ {0}
    /\ set.frames_per_pdu = set.hw_latency /\ set.max_transit_time \in Nat
    /\ FrameBytes(set) \in Nat \ {0} /\ Capacity(set) \in Nat

LEMMA MadeIsKnown ==
    ASSUME NEW line, NEW card, NEW set, Made(set, line, card),
           line.channels \in Nat \ {0}, line.hw_latency \in Nat, line.transit_time \in Nat,
           card.rates \subseteq Nat \ {0}, card.periods \subseteq Nat \ {0}
    PROVE  /\ Known(set) /\ set.max_transit_time = line.transit_time
           /\ Capacity(set) = line.hw_latency
<1>1. /\ set.channels = line.channels /\ set.data_len = FrameBytes(set) * line.hw_latency
      /\ set.frames_per_pdu = set.hw_latency /\ set.hw_latency \in card.periods
      /\ set.bit_depth \in {16, 24, 32} /\ set.sample_rate \in card.rates
  BY MadeFields
<1>2. set.max_transit_time = line.transit_time
  BY DEF Made, avb_alsa_setup, settings
<1>3. FrameBytes(set) \in Nat \ {0}
  BY <1>1, FrameBytesPositive
<1>4. Capacity(set) = line.hw_latency
  <2>1. PICK b \in Nat \ {0}, n \in Nat : b = FrameBytes(set) /\ n = line.hw_latency
    BY <1>3
  <2>2. (b * n) \div b = n
    BY Z3
  <2>3. QED
    BY <1>1, <2>1, <2>2 DEF Capacity
<1>5. QED
  BY <1>1, <1>2, <1>3, <1>4 DEF Known

LEMMA TalkerKnown ==
    ASSUME SetInv, Made(tset, args.talker, cards.talker)
    PROVE  /\ Known(tset) /\ tset.max_transit_time = args.talker.transit_time
           /\ Capacity(tset) = args.talker.hw_latency
<1>1. /\ args.talker.channels \in Nat \ {0} /\ args.talker.hw_latency \in Nat
      /\ args.talker.transit_time \in Nat
      /\ cards.talker.rates \subseteq Nat \ {0} /\ cards.talker.periods \subseteq Nat \ {0}
  BY SetupsAssumption DEF SetInv
<1>2. QED
  BY <1>1, MadeIsKnown

LEMMA ListenerKnown ==
    ASSUME SetInv, Made(lset, args.listener, cards.listener)
    PROVE  /\ Known(lset) /\ lset.max_transit_time = args.listener.transit_time
           /\ Capacity(lset) = args.listener.hw_latency
<1>1. /\ args.listener.channels \in Nat \ {0} /\ args.listener.hw_latency \in Nat
      /\ args.listener.transit_time \in Nat
      /\ cards.listener.rates \subseteq Nat \ {0} /\ cards.listener.periods \subseteq Nat \ {0}
  BY SetupsAssumption DEF SetInv
<1>2. QED
  BY <1>1, MadeIsKnown

(* Payloads that pass the comparison have as many frames on both sides. *)
LEMMA EqualCapacity ==
    ASSUME SetInv, ValidFormat(init_pdu(tset), lset)
    PROVE  Capacity(tset) = Capacity(lset)
BY DEF ValidFormat, init_pdu, Capacity, FrameBytes

-----------------------------------------------------------------------------
(* The talker sends.                                                       *)

LEMMA SendChanges ==
    ASSUME NEW ok, SendPacket(ok)
    PROVE  /\ tpc = "run" /\ sent' = sent + 1 /\ wire' = Append(wire, Packet(ok))
           /\ UNCHANGED <<tset, tpc, now, lpc, lset, samples, stats, played>>
BY DEF SendPacket, Talking, lvars

LEMMA LogGrows ==
    ASSUME SetInv, TalkerInv, NEW h, IsLog(h), NEW ok \in BOOLEAN, SendPacket(ok),
           NEW o, o = Packet(ok).origin,
           mic' \in Nat, mic' >= StartTime, ok => mic' = ReadEnd
    PROVE  o \in Origin /\ o.sent = now /\ o.ok = ok /\ o.first = mic
           /\ IsLog(Append(h, o))'
<1> DEFINE g == Append(h, o)
<1>1. /\ tpc = "run" /\ sent' = sent + 1 /\ now' = now /\ tset' = tset
  BY SendChanges
<1>2. /\ Known(tset) /\ TalkerPeriod \in Nat
  <2>1. Known(tset)
    BY <1>1, TalkerKnown DEF SetInv
  <2>2. QED
    BY <2>1, DurationNat DEF Known, TalkerPeriod
<1>3. /\ now \in Nat /\ now >= StartTime /\ mic \in Nat /\ mic >= StartTime /\ ReadEnd = mic + TalkerPeriod
  BY <1>1, ClockAssumption DEF TalkerInv, ReadEnd, TalkerPeriod
<1>4. h \in Seq(Origin) /\ Len(h) = sent /\ Len(h) \in Nat
  BY DEF IsLog
<1>5. o = [k |-> sent + 1, sent |-> now, ok |-> ok, first |-> mic, behind |-> now - ReadEnd]
  BY DEF Packet
<1>6. /\ o \in Origin /\ o.k = Len(h) + 1 /\ o.sent = now /\ o.ok = ok /\ o.first = mic
      /\ o.first + o.behind = o.sent - TalkerPeriod
  BY <1>2, <1>3, <1>4, <1>5 DEF Origin
<1>7. /\ g \in Seq(Origin) /\ Len(g) = Len(h) + 1
      /\ \A i \in 1 .. Len(h) : g[i] = h[i]
      /\ g[Len(h) + 1] = o
  BY <1>4, <1>6, AppendProperties
<1> HIDE DEF g
<1>8. ASSUME NEW n \in 1 .. Len(g)
      PROVE  /\ g[n].k = n /\ g[n].first >= StartTime
             /\ StartTime <= g[n].sent /\ g[n].sent <= now
             /\ g[n].first + g[n].behind = g[n].sent - TalkerPeriod
  <2>1. CASE n = Len(h) + 1
    BY <1>3, <1>6, <1>7, <2>1
  <2>2. CASE n \in 1 .. Len(h)
    BY <1>7, <2>2 DEF IsLog
  <2>3. QED
    BY <1>4, <1>7, <2>1, <2>2
<1>9. ASSUME NEW n \in 1 .. Len(g), g[n].ok
      PROVE  NextFirst(g, n)' = g[n].first + TalkerPeriod
  <2>1. CASE n = Len(h) + 1
    BY <1>3, <1>4, <1>6, <1>7, <1>9, <2>1 DEF NextFirst
  <2>2. CASE n = Len(h)
    <3>1. h[n].ok /\ NextFirst(h, n) = mic /\ n \in 1 .. Len(h)
      BY <1>4, <1>7, <1>9, <2>2 DEF NextFirst
    <3>2. mic = h[n].first + TalkerPeriod
      BY <3>1 DEF IsLog
    <3>3. NextFirst(g, n)' = g[n + 1].first
      BY <1>4, <1>7, <2>2 DEF NextFirst
    <3>4. QED
      BY <1>4, <1>6, <1>7, <2>2, <3>1, <3>2, <3>3
  <2>3. CASE n \in 1 .. Len(h) - 1
    <3>1. n \in 1 .. Len(h) /\ n + 1 \in 1 .. Len(h) /\ n # Len(h) /\ n # Len(g)
      BY <1>4, <1>7, <2>3
    <3>2. h[n].ok /\ NextFirst(h, n) = h[n + 1].first
      BY <1>7, <1>9, <3>1 DEF NextFirst
    <3>3. h[n + 1].first = h[n].first + TalkerPeriod
      BY <3>1, <3>2 DEF IsLog
    <3>4. QED
      BY <1>7, <3>1, <3>3 DEF NextFirst
  <2>4. QED
    BY <1>4, <1>7, <2>1, <2>2, <2>3
<1>10. ASSUME NEW m \in 1 .. Len(g), NEW n \in 1 .. Len(g), m <= n
       PROVE  g[m].sent <= g[n].sent
  <2>1. CASE n = Len(h) + 1
    BY <1>6, <1>7, <1>8, <2>1
  <2>2. CASE n \in 1 .. Len(h)
    <3>1. m \in 1 .. Len(h)
      BY <1>4, <1>10, <2>2
    <3>2. QED
      BY <1>7, <1>10, <2>2, <3>1 DEF IsLog
  <2>3. QED
    BY <1>4, <1>7, <2>1, <2>2
<1>11. TalkerPeriod' = TalkerPeriod
  BY <1>1 DEF TalkerPeriod
<1>12. IsLog(g)'
  BY <1>1, <1>4, <1>7, <1>8, <1>9, <1>10, <1>11 DEF IsLog
<1>13. QED
  BY <1>6, <1>12 DEF g

(* What one log explains a longer one explains. *)
LEMMA LongerLog ==
    ASSUME NEW h \in Seq(Origin), NEW o \in Origin, NEW set, NEW n
    PROVE  /\ Packets(h, set) \subseteq Packets(Append(h, o), set)
           /\ Nodes(h, set) \subseteq Nodes(Append(h, o), set)
           /\ Samples(h, set) \subseteq Samples(Append(h, o), set)
           /\ Plays(h, set, n) \subseteq Plays(Append(h, o), set, n)
<1> DEFINE g == Append(h, o)
<1>1. /\ g \in Seq(Origin) /\ Len(g) = Len(h) + 1 /\ Len(h) \in Nat
      /\ \A i \in 1 .. Len(h) : g[i] = h[i]
  BY AppendProperties
<1> HIDE DEF g
<1>2. /\ 1 .. Len(h) \subseteq 1 .. Len(g)
      /\ {h[i] : i \in 1 .. Len(h)} \subseteq {g[i] : i \in 1 .. Len(g)}
  BY <1>1
<1>3. Packets(h, set) \subseteq Packets(g, set)
  BY <1>2 DEF Packets
<1>4. Nodes(h, set) \subseteq Nodes(g, set)
  BY <1>2 DEF Nodes
<1>5. Samples(h, set) \subseteq Samples(g, set)
  BY <1>1, <1>2 DEF Samples
<1>6. Plays(h, set, n) \subseteq Plays(g, set, n)
  BY <1>1, <1>2 DEF Plays
<1>7. QED
  BY <1>3, <1>4, <1>5, <1>6 DEF g

LEMMA SendExplained ==
    ASSUME SetInv, TalkerInv, NEW h, Explains(h), NEW ok \in BOOLEAN, SendPacket(ok),
           mic' \in Nat, mic' >= StartTime, ok => mic' = ReadEnd,
           payload' \in Seq(Nat), Len(payload') = Capacity(tset),
           ok => Captured(payload', [first |-> mic], tset)
    PROVE  \E g : Explains(g)'
<1>1. PICK o : o = Packet(ok).origin
  OBVIOUS
<1> DEFINE g == Append(h, o)
           p == Packet(ok)
<1>2. o \in Origin /\ o.sent = now /\ o.ok = ok /\ o.first = mic /\ IsLog(g)'
  BY <1>1, LogGrows DEF Explains
<1>3. /\ h \in Seq(Origin) /\ Len(h) \in Nat /\ g \in Seq(Origin)
      /\ Len(g) = Len(h) + 1 /\ g[Len(g)] = o /\ \A i \in 1 .. Len(h) : g[i] = h[i]
  <2>1. h \in Seq(Origin)
    BY DEF Explains, IsLog
  <2>2. QED
    BY <1>2, <2>1, AppendProperties
<1>4. /\ Packets(h, tset) \subseteq Packets(g, tset)
      /\ Nodes(h, tset) \subseteq Nodes(g, tset)
      /\ Samples(h, tset) \subseteq Samples(g, tset)
      /\ Plays(h, tset, lset.frames_per_pdu) \subseteq Plays(g, tset, lset.frames_per_pdu)
  BY <1>2, <1>3, LongerLog
<1>5. /\ tpc = "run" /\ wire' = Append(wire, p) /\ tset' = tset /\ now' = now
      /\ UNCHANGED <<lset, samples, stats, played>>
  BY SendChanges
<1> HIDE DEF g
<1>6. p \in Packets(g, tset)
  <2>1. calculate_avtp_time(now, tset.max_transit_time) \in Nat
    <3>1. tset.max_transit_time \in Nat /\ now \in Nat
      BY <1>5, TalkerKnown, ClockAssumption DEF SetInv, Known, TalkerInv
    <3>2. PICK t \in Nat : t = now + tset.max_transit_time
      BY <3>1
    <3>3. t % Epoch \in Nat
      BY EpochAssumption, Z3
    <3>4. QED
      BY <3>2, <3>3 DEF calculate_avtp_time
  <2>2. o \in {g[n] : n \in 1 .. Len(g)}
    BY <1>3
  <2>3. p = [fields |-> init_pdu(tset), len |-> tset.pdu_size,
             ts |-> calculate_avtp_time(now, tset.max_transit_time),
             payload |-> payload', origin |-> o]
    BY <1>1 DEF Packet
  <2>4. o.ok => Captured(payload', o, tset)
    BY <1>2 DEF Captured
  <2>5. QED
    BY <1>2, <2>1, <2>2, <2>3, <2>4 DEF Packets
<1> HIDE DEF p
<1>7. WireInv(g)'
  <2>1. wire \in Seq(Packets(g, tset))
    BY <1>4, SeqMonotonic DEF Explains, WireInv
  <2>2. /\ wire' \in Seq(Packets(g, tset)) /\ Len(wire') = Len(wire) + 1
        /\ \A i \in 1 .. Len(wire) : wire'[i] = wire[i]
        /\ wire'[Len(wire) + 1] = p /\ Len(wire) \in Nat
    BY <1>5, <1>6, <2>1, AppendProperties
  <2>3. Len(wire) <= Len(h) /\ \A i \in 1 .. Len(wire) : wire[i].origin = h[Len(h) - Len(wire) + i]
    BY DEF Explains, WireInv
  <2>4. p.origin = o
    BY <1>1 DEF p
  <2>5. ASSUME NEW i \in 1 .. Len(wire')
        PROVE  wire'[i].origin = g[Len(g) - Len(wire') + i]
    <3>1. CASE i = Len(wire) + 1
      BY <1>3, <2>2, <2>3, <2>4, <3>1
    <3>2. CASE i \in 1 .. Len(wire)
      <4>1. Len(h) - Len(wire) + i \in 1 .. Len(h)
        BY <1>3, <2>2, <2>3, <3>2
      <4>2. g[Len(h) - Len(wire) + i] = h[Len(h) - Len(wire) + i]
        BY <1>3, <4>1
      <4>3. Len(g) - Len(wire') + i = Len(h) - Len(wire) + i
        BY <1>3, <2>2
      <4>4. QED
        BY <2>2, <2>3, <3>2, <4>2, <4>3
    <3>3. QED
      BY <2>2, <3>1, <3>2
  <2>6. QED
    BY <1>3, <1>5, <2>2, <2>3, <2>5 DEF WireInv
<1>8. StatsInv(g)'
  <2>1. stats \in Seq(Nodes(g, tset))
    BY <1>4, SeqMonotonic DEF Explains, StatsInv
  <2>2. Len(g) - Len(wire') = Len(h) - Len(wire)
    <3>1. Len(wire) \in Nat /\ Len(wire') = Len(wire) + 1
      BY <1>5, <1>6, AppendProperties DEF Explains, WireInv
    <3>2. QED
      BY <1>3, <3>1
  <2>3. QED
    BY <1>5, <2>1, <2>2 DEF Explains, StatsInv
<1>9. SoundInv(g)'
  BY <1>4, <1>5, SeqMonotonic DEF Explains, SoundInv
<1>10. QED
  BY <1>2, <1>7, <1>8, <1>9 DEF Explains

LEMMA FilledIs ==
    ASSUME SetInv, TalkerInv, tpc = "run", NEW k \in 0 .. tset.frames_per_pdu
    PROVE  /\ Filled(k) \in Seq(Nat) /\ Len(Filled(k)) = Capacity(tset)
           /\ k = tset.frames_per_pdu => Captured(Filled(k), [first |-> mic], tset)
<1>1. /\ payload \in Seq(Nat) /\ Len(payload) = Capacity(tset) /\ Capacity(tset) \in Nat
      /\ mic \in Nat /\ tset.frames_per_pdu \in Nat /\ tset.sample_rate \in Nat \ {0}
  BY TalkerKnown DEF TalkerInv, SetInv, Known
<1>2. \A i \in 1 .. Len(payload) : Duration(i - 1, tset) \in Nat
  <2> SUFFICES ASSUME NEW i \in 1 .. Len(payload) PROVE Duration(i - 1, tset) \in Nat
    OBVIOUS
  <2>1. i - 1 \in Nat
    BY <1>1
  <2>2. QED
    BY <1>1, <2>1, DurationNat
<1>3. DOMAIN payload = 1 .. Len(payload) /\ \A i \in 1 .. Len(payload) : payload[i] \in Nat
  BY <1>1
<1>4. Filled(k) = [i \in 1 .. Len(payload) |->
         IF i <= k THEN mic + Duration(i - 1, tset) ELSE payload[i]]
  BY <1>3 DEF Filled
<1>5. Filled(k) \in Seq(Nat) /\ Len(Filled(k)) = Len(payload)
  <2>1. \A i \in 1 .. Len(payload) :
           (IF i <= k THEN mic + Duration(i - 1, tset) ELSE payload[i]) \in Nat
    BY <1>1, <1>2, <1>3
  <2>2. Filled(k) \in [1 .. Len(payload) -> Nat]
    BY <1>4, <2>1
  <2>3. QED
    BY <1>1, <1>4, <2>2
<1>6. k = tset.frames_per_pdu => Captured(Filled(k), [first |-> mic], tset)
  BY <1>1, <1>4, <1>5 DEF Captured
<1>7. QED
  BY <1>1, <1>5, <1>6

(* One iteration of the talker, however its read went. *)
LEMMA TalkerSends ==
    ASSUME SetInv, TalkerInv, NEW h, Explains(h), ReadAndSend \/ ReadTooMuch \/ ReadFails,
           sent' # sent
    PROVE  TalkerInv' /\ \E g : Explains(g)'
<1>1. tpc = "run"
  BY DEF ReadAndSend, ReadTooMuch, ReadFails
<1>2. /\ mic \in Nat /\ mic >= StartTime /\ now \in Nat /\ now >= StartTime
      /\ payload \in Seq(Nat) /\ Len(payload) = Capacity(tset)
      /\ tset.frames_per_pdu \in Nat \ {0} /\ tset.sample_rate \in Nat \ {0}
  BY <1>1, TalkerKnown, ClockAssumption DEF TalkerInv, SetInv, Known
<1>3. sent \in Nat
  BY DEF Explains, IsLog
<1>4. SUFFICES ASSUME NEW ok \in BOOLEAN, SendPacket(ok), mic' \in Nat, mic' >= StartTime,
                      ok => mic' = ReadEnd,
                      payload' \in Seq(Nat), Len(payload') = Capacity(tset),
                      ok => Captured(payload', [first |-> mic], tset)
               PROVE  TalkerInv' /\ \E g : Explains(g)'
  <2>1. CASE ReadFails
    <3>1. SendPacket(FALSE)
      BY <2>1 DEF ReadFails
    <3>2. /\ mic' \in Nat /\ mic' >= StartTime
          /\ payload' \in Seq(Nat) /\ Len(payload') = Capacity(tset)
      <4>1. CASE payload' = payload /\ mic' \in {mic, now}
        BY <1>2, <4>1
      <4>2. CASE \E k \in 1 .. tset.frames_per_pdu - 1 :
                    payload' = Filled(k) /\ mic' = mic + Duration(k, tset)
        <5>1. PICK k \in 1 .. tset.frames_per_pdu - 1 :
                      payload' = Filled(k) /\ mic' = mic + Duration(k, tset)
          BY <4>2
        <5>2. k \in Nat /\ k \in 0 .. tset.frames_per_pdu
          BY <1>2
        <5>3. Duration(k, tset) \in Nat
          BY <1>2, <5>2, DurationNat
        <5>4. Filled(k) \in Seq(Nat) /\ Len(Filled(k)) = Capacity(tset)
          BY <1>1, <5>2, FilledIs
        <5>5. QED
          BY <1>2, <5>1, <5>3, <5>4, ClockAssumption
      <4>3. QED
        BY <2>1, <4>1, <4>2 DEF ReadFails
    <3>3. QED
      BY <1>4, <3>1, <3>2
  <2>2. CASE ReadAndSend \/ ReadTooMuch
    <3>1. SendPacket(TRUE) /\ payload' = Filled(tset.frames_per_pdu) /\ mic' = ReadEnd
      BY <1>3, <2>2 DEF ReadAndSend, ReadTooMuch
    <3>2. ReadEnd \in Nat /\ ReadEnd >= StartTime
      <4>1. Duration(tset.frames_per_pdu, tset) \in Nat
        BY <1>2, DurationNat
      <4>2. QED
        BY <1>2, <4>1, ClockAssumption DEF ReadEnd
    <3>3. /\ payload' \in Seq(Nat) /\ Len(payload') = Capacity(tset)
          /\ Captured(payload', [first |-> mic], tset)
      <4>1. tset.frames_per_pdu \in 0 .. tset.frames_per_pdu
        BY <1>2
      <4>2. QED
        BY <1>1, <3>1, <4>1, FilledIs
    <3>4. QED
      BY <1>4, <3>1, <3>2, <3>3
  <2>3. QED
    BY <2>1, <2>2
<1>5. \E g : Explains(g)'
  BY <1>4, SendExplained
<1>6. TalkerInv'
  <2>1. tpc' = "run" /\ tset' = tset /\ now' = now
    BY <1>4, SendChanges
  <2>2. Capacity(tset)' = Capacity(tset)
    BY <2>1
  <2>3. now' \in StartTime .. MaxTime
    BY <2>1 DEF TalkerInv
  <2>4. QED
    BY <1>4, <2>1, <2>2, <2>3 DEF TalkerInv
<1>7. QED
  BY <1>5, <1>6

-----------------------------------------------------------------------------
(* The listener receives.                                                  *)

LEMMA Received ==
    ASSUME TalkerInv, NEW h, Explains(h), wire # <<>>, wire' = Tail(wire),
           UNCHANGED <<tset, now, mic, sent>>
    PROVE  /\ IsLog(h)' /\ WireInv(h)'
           /\ Head(wire) \in Packets(h, tset)
           /\ Len(wire) \in Nat \ {0} /\ Len(wire') = Len(wire) - 1
           /\ Len(h) \in Nat /\ Len(wire) <= Len(h)
           /\ Head(wire).origin = h[Len(h) - Len(wire) + 1]
<1>1. /\ wire \in Seq(Packets(h, tset)) /\ Len(wire) <= Len(h)
      /\ \A i \in 1 .. Len(wire) : wire[i].origin = h[Len(h) - Len(wire) + i]
  BY DEF Explains, WireInv
<1>2. /\ wire' \in Seq(Packets(h, tset)) /\ Len(wire') = Len(wire) - 1
      /\ \A i \in 1 .. Len(wire') : wire'[i] = wire[i + 1]
      /\ Head(wire) \in Packets(h, tset) /\ Head(wire) = wire[1]
      /\ Len(wire) \in Nat \ {0}
  BY <1>1, HeadTailProperties
<1>3. h \in Seq(Origin) /\ Len(h) \in Nat
  BY DEF Explains, IsLog
<1>4. ASSUME NEW i \in 1 .. Len(wire')
      PROVE  wire'[i].origin = h[Len(h) - Len(wire') + i]
  <2>1. i + 1 \in 1 .. Len(wire)
    BY <1>2
  <2>2. wire'[i].origin = h[Len(h) - Len(wire) + (i + 1)]
    BY <1>1, <1>2, <2>1
  <2>3. Len(h) - Len(wire) + (i + 1) = Len(h) - Len(wire') + i
    BY <1>2, <1>3
  <2>4. QED
    BY <2>2, <2>3
<1>5. WireInv(h)'
  BY <1>1, <1>2, <1>3, <1>4 DEF WireInv
<1>6. IsLog(h)'
  <2>1. TalkerPeriod' = TalkerPeriod /\ \A n : NextFirst(h, n)' = NextFirst(h, n)
    BY DEF TalkerPeriod, NextFirst
  <2>2. QED
    BY <2>1 DEF Explains, IsLog
<1>7. QED
  BY <1>1, <1>2, <1>3, <1>5, <1>6

(* A packet leaves the wire and nothing is noted of it. *)
LEMMA StatsKept ==
    ASSUME NEW h, Explains(h), UNCHANGED <<tset, stats>>, now' >= now, now \in Int, now' \in Int,
           Len(wire') <= Len(wire), Len(wire) \in Nat, Len(wire') \in Nat
    PROVE  StatsInv(h)'
<1>1. h \in Seq(Origin) /\ Len(h) \in Nat
  BY DEF Explains, IsLog
<1>2. stats \in Seq(Nodes(h, tset)) /\ Len(stats) \in Nat
  BY DEF Explains, StatsInv
<1>3. ASSUME NEW i \in 1 .. Len(stats)
      PROVE  stats[i].arrival <= now' /\ stats[i].origin.k <= Len(h) - Len(wire')
  <2>1. stats[i].arrival <= now /\ stats[i].origin.k <= Len(h) - Len(wire)
    BY DEF Explains, StatsInv
  <2>2. stats[i] \in Nodes(h, tset)
    BY <1>2
  <2>3. stats[i].arrival \in Nat /\ stats[i].origin \in Origin
    BY <1>1, <2>2 DEF Nodes
  <2>4. stats[i].origin.k \in Nat
    BY <2>3 DEF Origin
  <2>5. QED
    BY <1>1, <2>1, <2>3, <2>4
<1>4. QED
  BY <1>2, <1>3 DEF Explains, StatsInv

LEMMA Kept ==
    ASSUME SetInv, KeptInv, TalkerInv, NEW h, Explains(h), KeepPacket
    PROVE  Explains(h)'
<1> DEFINE p == Head(wire)
           n == [arrival |-> now, presentation |-> get_presentation_time(p.ts, now),
                 origin |-> p.origin]
           s == [due |-> get_presentation_time(p.ts, now), k |-> p.origin.k,
                 frames |-> SubSeq(p.payload, 1, Capacity(lset))]
<1>1. /\ lpc = "run" /\ wire # <<>> /\ wire' = Tail(wire)
      /\ UNCHANGED <<tset, now, mic, sent, lset, played>>
      /\ ValidFormat(p.fields, lset)
      /\ stats' = <<n>> \o stats /\ samples' = Append(samples, s)
  BY DEF KeepPacket, Receiving, Listening, tvars
<1>2. /\ IsLog(h)' /\ WireInv(h)' /\ p \in Packets(h, tset)
      /\ Len(wire) \in Nat \ {0} /\ Len(wire') = Len(wire) - 1
      /\ Len(h) \in Nat /\ Len(wire) <= Len(h)
      /\ p.origin = h[Len(h) - Len(wire) + 1]
  BY <1>1, Received
<1>3. PICK k \in 1 .. Len(h) : k = Len(h) - Len(wire) + 1
  BY <1>2
<1>4. /\ h \in Seq(Origin) /\ h[k] \in Origin /\ h[k].k = k /\ h[k].sent <= now
  BY <1>3 DEF Explains, IsLog
<1>5. /\ p.fields = init_pdu(tset) /\ p.ts \in Nat /\ p.payload \in Seq(Nat)
      /\ p.ts = calculate_avtp_time(h[k].sent, tset.max_transit_time)
      /\ Len(p.payload) = Capacity(tset)
      /\ h[k].ok => Captured(p.payload, h[k], tset)
      /\ p.origin = h[k]
  BY <1>2, <1>3 DEF Packets
<1>6. get_presentation_time(p.ts, now) \in Int /\ now \in Nat
  <2>1. now \in Nat
    BY ClockAssumption DEF TalkerInv
  <2>2. PICK q \in Int : q = now \div Epoch
    BY <2>1, EpochAssumption, Z3
  <2>3. Epoch * q \in Int
    BY EpochAssumption, Z3
  <2>4. QED
    BY <1>5, <2>1, <2>2, <2>3 DEF get_presentation_time
<1>7. n \in Nodes(h, tset) /\ n.arrival = now /\ n.origin.k = k
  BY <1>3, <1>4, <1>5, <1>6 DEF Nodes
<1> HIDE DEF n
<1>8. StatsInv(h)'
  <2>1. stats \in Seq(Nodes(h, tset)) /\ Len(stats) \in Nat
    BY DEF Explains, StatsInv
  <2>2. /\ stats' \in Seq(Nodes(h, tset)) /\ Len(stats') = Len(stats) + 1
        /\ stats'[1] = n /\ \A i \in 1 .. Len(stats') : i # 1 => stats'[i] = stats[i - 1]
    <3>1. <<n>> \in Seq(Nodes(h, tset)) /\ Len(<<n>>) = 1 /\ <<n>>[1] = n
      BY <1>7
    <3>2. QED
      BY <1>1, <2>1, <3>1, ConcatProperties
  <2>3. ASSUME NEW i \in 1 .. Len(stats)
        PROVE  /\ stats[i].arrival <= now /\ stats[i].origin.k \in Nat
               /\ stats[i].origin.k <= Len(h) - Len(wire)
    <3>1. stats[i] \in Nodes(h, tset)
      BY <2>1
    <3>2. stats[i].origin \in Origin
      BY <1>4, <3>1 DEF Nodes
    <3>3. QED
      BY <3>2 DEF Explains, StatsInv, Origin
  <2>4. ASSUME NEW i \in 1 .. Len(stats')
        PROVE  /\ stats'[i].arrival <= now
               /\ stats'[i].origin.k <= Len(h) - Len(wire')
    <3>1. CASE i = 1
      BY <1>2, <1>3, <1>6, <1>7, <2>2, <3>1
    <3>2. CASE i # 1
      <4>1. i - 1 \in 1 .. Len(stats) /\ stats'[i] = stats[i - 1]
        BY <2>1, <2>2, <3>2
      <4>2. QED
        BY <1>2, <2>3, <4>1
    <3>3. QED
      BY <3>1, <3>2
  <2>5. ASSUME NEW i \in 1 .. Len(stats'), NEW j \in 1 .. Len(stats'), i < j
        PROVE  stats'[j].origin.k < stats'[i].origin.k
    <3>1. j - 1 \in 1 .. Len(stats) /\ stats'[j] = stats[j - 1]
      BY <2>1, <2>2, <2>5
    <3>2. CASE i = 1
      BY <1>2, <1>3, <1>7, <2>2, <2>3, <3>1, <3>2
    <3>3. CASE i # 1
      <4>1. i - 1 \in 1 .. Len(stats) /\ stats'[i] = stats[i - 1] /\ i - 1 < j - 1
        BY <2>1, <2>2, <2>5, <3>3
      <4>2. QED
        BY <3>1, <4>1 DEF Explains, StatsInv
    <3>4. QED
      BY <3>2, <3>3
  <2>6. QED
    BY <1>1, <2>2, <2>4, <2>5 DEF StatsInv
<1>9. s \in Samples(h, tset)
  <2>1. Capacity(lset) = Capacity(tset)
    BY <1>1, <1>5, EqualCapacity
  <2>2. s.frames = p.payload
    BY <1>5, <2>1, SubSeqFull
  <2>3. s.k = k /\ s.due \in Int
    BY <1>4, <1>5, <1>6
  <2>4. s = [due |-> s.due, k |-> k, frames |-> p.payload]
    BY <2>2, <2>3
  <2>5. QED
    BY <1>5, <2>3, <2>4 DEF Samples
<1> HIDE DEF s
<1>10. SoundInv(h)'
  <2>1. samples \in Seq(Samples(h, tset)) /\ played \in Seq(Plays(h, tset, lset.frames_per_pdu))
    BY DEF Explains, SoundInv
  <2>2. samples' \in Seq(Samples(h, tset))
    BY <1>1, <1>9, <2>1, AppendProperties
  <2>3. QED
    BY <1>1, <2>1, <2>2 DEF SoundInv
<1>11. QED
  BY <1>2, <1>8, <1>10 DEF Explains

-----------------------------------------------------------------------------
(* The listener plays, and what does not concern packets.                  *)

LEMMA Heard ==
    ASSUME SetInv, KeptInv, TalkerInv, NEW h, Explains(h), PlayFragment
    PROVE  Explains(h)'
<1> DEFINE s == Head(samples)
           f == Period(s.frames)
           p == [k |-> s.k, frames |-> f]
           F == lset.frames_per_pdu
<1>1. /\ lpc = "run" /\ samples # <<>> /\ samples' = Tail(samples) /\ played' = Append(played, p)
      /\ UNCHANGED <<tset, now, mic, sent, wire, stats, lset>>
  BY DEF PlayFragment, Listening, tvars
<1>2. F \in Nat
  BY <1>1, ListenerKnown DEF SetInv, Known
<1>3. samples \in Seq(Samples(h, tset)) /\ played \in Seq(Plays(h, tset, F))
  BY DEF Explains, SoundInv
<1>4. s \in Samples(h, tset) /\ samples' \in Seq(Samples(h, tset))
  BY <1>1, <1>3, HeadTailProperties
<1>5. /\ s.k \in 1 .. Len(h) /\ s.frames \in Seq(Nat) /\ Len(s.frames) = Capacity(tset)
      /\ h[s.k].ok => Captured(s.frames, h[s.k], tset)
  BY <1>4 DEF Samples
<1>6. /\ f = [i \in 1 .. F |-> IF i <= Len(s.frames) THEN s.frames[i] ELSE 0]
      /\ f \in Seq(Nat) /\ Len(f) = F
  <2>1. f = [i \in 1 .. F |-> IF i <= Len(s.frames) THEN s.frames[i] ELSE 0]
    BY DEF Period
  <2>2. \A i \in 1 .. F : (IF i <= Len(s.frames) THEN s.frames[i] ELSE 0) \in Nat
    BY <1>2, <1>5
  <2> HIDE DEF f
  <2>3. f \in [1 .. F -> Nat]
    BY <2>1, <2>2
  <2>4. QED
    BY <1>2, <2>1, <2>3
<1> HIDE DEF f
<1>7. ASSUME h[s.k].ok, F <= Capacity(tset)
      PROVE  Captured(f, h[s.k], tset)
  BY <1>2, <1>5, <1>6, <1>7 DEF Captured
<1>8. p \in Plays(h, tset, F)
  BY <1>5, <1>6, <1>7 DEF Plays
<1> HIDE DEF p, s
<1>9. played' \in Seq(Plays(h, tset, F))
  BY <1>1, <1>3, <1>8, AppendProperties
<1>10. SoundInv(h)'
  BY <1>1, <1>4, <1>9 DEF SoundInv
<1>11. IsLog(h)' /\ WireInv(h)' /\ StatsInv(h)'
  BY <1>1 DEF Explains, IsLog, WireInv, StatsInv, NextFirst, TalkerPeriod
<1>12. QED
  BY <1>10, <1>11 DEF Explains

(* Before the first packet the empty log explains everything. *)
NothingSent ==
    sent = 0 /\ wire = <<>> /\ stats = <<>> /\ samples = <<>> /\ played = <<>>

LEMMA NothingToExplain == NothingSent => Explained
<1> SUFFICES ASSUME sent = 0, wire = <<>>, stats = <<>>, samples = <<>>, played = <<>>
             PROVE  Explains(<<>>)
  BY DEF NothingSent, Explained
<1>1. Len(<<>>) = 0 /\ 1 .. 0 = {} /\ \A S : <<>> \in Seq(S)
  BY EmptySeq
<1>2. IsLog(<<>>)
  BY <1>1 DEF IsLog
<1>3. WireInv(<<>>) /\ StatsInv(<<>>) /\ SoundInv(<<>>)
  BY <1>1 DEF WireInv, StatsInv, SoundInv
<1>4. QED
  BY <1>2, <1>3 DEF Explains

(* Time may pass, and the listener may get its settings. *)
LEMMA StillExplained ==
    ASSUME NEW h, Explains(h), now \in Int, now' \in Int, now' >= now,
           UNCHANGED <<tset, mic, sent, wire, stats, samples, played>>,
           lset' = lset \/ played = <<>>
    PROVE  Explains(h)'
<1>1. h \in Seq(Origin) /\ \A n \in 1 .. Len(h) : h[n].sent \in Nat /\ h[n].sent <= now
  <2>1. \A n \in 1 .. Len(h) : h[n] \in Origin /\ h[n].sent <= now
    BY DEF Explains, IsLog
  <2>2. QED
    BY <2>1 DEF Origin, Explains, IsLog
<1>2. IsLog(h)'
  <2>1. TalkerPeriod' = TalkerPeriod /\ \A n : NextFirst(h, n)' = NextFirst(h, n)
    BY DEF TalkerPeriod, NextFirst
  <2>2. \A n \in 1 .. Len(h) : h[n].sent <= now'
    BY <1>1
  <2>3. QED
    BY <2>1, <2>2 DEF Explains, IsLog
<1>3. WireInv(h)'
  BY DEF Explains, WireInv
<1>4. StatsInv(h)'
  <2>1. \A i \in 1 .. Len(stats) : stats[i].arrival \in Nat /\ stats[i].arrival <= now
    <3>1. \A i \in 1 .. Len(stats) : stats[i] \in Nodes(h, tset) /\ stats[i].arrival <= now
      BY DEF Explains, StatsInv
    <3>2. QED
      BY <3>1 DEF Nodes
  <2>2. \A i \in 1 .. Len(stats) : stats[i].arrival <= now'
    BY <2>1
  <2>3. QED
    BY <2>2 DEF Explains, StatsInv
<1>5. SoundInv(h)'
  <2>1. played' \in Seq(Plays(h, tset, lset'.frames_per_pdu))
    BY EmptySeq DEF Explains, SoundInv
  <2>2. QED
    BY <2>1 DEF Explains, SoundInv
<1>6. QED
  BY <1>2, <1>3, <1>4, <1>5 DEF Explains

LEMMA FlowInit == SessionInit => FlowInv
<1> SUFFICES ASSUME SessionInit PROVE FlowInv
  OBVIOUS
<1>1. /\ now = StartTime /\ tpc = "start" /\ lpc = "start" /\ sent = 0 /\ wire = <<>>
      /\ samples = <<>> /\ stats = <<>> /\ played = <<>>
  BY DEF SessionInit
<1>2. Explained
  BY <1>1, NothingToExplain DEF NothingSent
<1>3. TalkerInv /\ QuietInv
  BY <1>1, ClockAssumption DEF TalkerInv, QuietInv
<1>4. QED
  BY <1>2, <1>3 DEF FlowInv

LEMMA FlowStep == SetInv /\ KeptInv /\ FlowInv /\ [SessionNext]_svars => FlowInv'
<1> SUFFICES ASSUME SetInv, KeptInv, FlowInv, [SessionNext]_svars PROVE FlowInv'
  OBVIOUS
<1>1. PICK h : Explains(h)
  BY DEF FlowInv, Explained
<1>2. TalkerInv /\ QuietInv /\ now \in Nat
  BY ClockAssumption DEF FlowInv, TalkerInv
<1>3. sent \in Nat
  BY <1>1 DEF Explains, IsLog
<1>4. CASE TalkerStarts
  <2>1. /\ tpc = "start" /\ tpc' = "run" /\ mic' = now
        /\ payload' = [i \in 1 .. Capacity(tset') |-> 0]
        /\ UNCHANGED <<now, sent, wire, stats, samples, played, lpc, args, cards>>
    BY <1>4 DEF TalkerStarts, Talking, lvars, host
  <2>2. /\ sent' = 0 /\ wire' = <<>> /\ stats' = <<>> /\ samples' = <<>> /\ played' = <<>>
    BY <1>2, <2>1 DEF TalkerInv, QuietInv
  <2>3. Explained'
    <3>1. NothingSent' => Explained'
      BY NothingToExplain, PTL
    <3>2. QED
      BY <2>2, <3>1 DEF NothingSent
  <2>4. Capacity(tset') \in Nat
    <3>1. Made(tset', args.talker, cards.talker)
      BY <1>4, Answered DEF TalkerStarts, SetInv
    <3>2. /\ args.talker.channels \in Nat \ {0} /\ args.talker.hw_latency \in Nat
          /\ args.talker.transit_time \in Nat
          /\ cards.talker.rates \subseteq Nat \ {0} /\ cards.talker.periods \subseteq Nat \ {0}
      BY SetupsAssumption DEF SetInv
    <3>3. QED
      BY <3>1, <3>2, MadeIsKnown DEF Known
  <2>5. payload' \in Seq(Nat) /\ Len(payload') = Capacity(tset')
    <3>1. payload' \in [1 .. Capacity(tset') -> Nat]
      BY <2>1
    <3>2. QED
      BY <2>4, <3>1
  <2>6. TalkerInv'
    <3>1. now \in StartTime .. MaxTime /\ now' \in StartTime .. MaxTime
      BY <1>2, <2>1 DEF TalkerInv
    <3>2. mic' \in Nat /\ mic' >= StartTime
      BY <1>2, <2>1, <3>1, ClockAssumption
    <3>3. Len(payload') = Capacity(tset)'
      BY <2>5
    <3>4. QED
      BY <2>1, <2>5, <3>1, <3>2, <3>3 DEF TalkerInv
  <2>7. QuietInv'
    BY <2>1, <2>2 DEF QuietInv
  <2>8. QED
    BY <2>3, <2>6, <2>7 DEF FlowInv
<1>5. CASE sent' # sent /\ (ReadAndSend \/ ReadTooMuch \/ ReadFails)
  <2>1. TalkerInv' /\ Explained'
    BY <1>1, <1>2, <1>5, TalkerSends DEF Explained
  <2>2. tpc' = "run" /\ UNCHANGED <<lpc, samples, played>>
    <3>1. \E ok \in BOOLEAN : SendPacket(ok)
      BY <1>5 DEF ReadAndSend, ReadTooMuch, ReadFails
    <3>2. QED
      BY <3>1, SendChanges
  <2>3. QuietInv'
    BY <1>2, <2>2 DEF QuietInv
  <2>4. QED
    BY <2>1, <2>3 DEF FlowInv
<1>6. CASE KeepPacket
  <2>1. Explains(h)'
    BY <1>1, <1>2, <1>6, Kept
  <2>2. /\ UNCHANGED <<now, tpc, sent, mic, payload, tset, lpc>> /\ lpc = "run" /\ tpc # "start"
    BY <1>2, <1>6 DEF KeepPacket, Receiving, Listening, tvars, QuietInv
  <2>3. TalkerInv' /\ QuietInv'
    BY <1>2, <2>2 DEF TalkerInv, QuietInv
  <2>4. QED
    BY <2>1, <2>3 DEF FlowInv, Explained
<1>7. CASE ShortPacket \/ DropPacket
  <2>1. /\ wire # <<>> /\ wire' = Tail(wire) /\ lpc = "run" /\ lpc' \in {"run", "end"}
        /\ UNCHANGED <<now, tpc, sent, mic, payload, tset, lset, samples, played, stats>>
    BY <1>7 DEF ShortPacket, DropPacket, Receiving, Listening, tvars
  <2>2. IsLog(h)' /\ WireInv(h)' /\ Len(wire) \in Nat \ {0} /\ Len(wire') = Len(wire) - 1
    BY <1>1, <1>2, <2>1, Received
  <2>3. StatsInv(h)'
    BY <1>1, <1>2, <2>1, <2>2, StatsKept
  <2>4. SoundInv(h)'
    BY <1>1, <2>1 DEF Explains, SoundInv
  <2>5. TalkerInv' /\ QuietInv'
    BY <1>2, <2>1 DEF TalkerInv, QuietInv
  <2>6. QED
    BY <2>2, <2>3, <2>4, <2>5 DEF FlowInv, Explained, Explains
<1>8. CASE PlayFragment
  <2>1. Explains(h)'
    BY <1>1, <1>2, <1>8, Heard
  <2>2. /\ UNCHANGED <<now, tpc, sent, mic, payload, tset>> /\ lpc' # "start" /\ tpc # "start"
    BY <1>2, <1>8 DEF PlayFragment, Listening, tvars, QuietInv
  <2>3. TalkerInv' /\ QuietInv'
    BY <1>2, <2>2 DEF TalkerInv, QuietInv
  <2>4. QED
    BY <2>1, <2>3 DEF FlowInv, Explained
<1>9. CASE \/ TalkerExits \/ TalkerEnds \/ (sent' = sent /\ ReadTooMuch) \/ ListenerStarts
           \/ ListenerExits \/ RecorderStep \/ EndSession \/ ListenerDies \/ Tick
           \/ UNCHANGED svars
  <2>1. ~ \E ok \in BOOLEAN : SendPacket(ok) /\ sent' = sent
    BY <1>3 DEF SendPacket
  <2>2. /\ UNCHANGED <<tset, mic, sent, wire, stats, samples, played, payload>>
        /\ tpc' \in {tpc, "ended"}
    BY <1>9, <2>1 DEF TalkerExits, TalkerEnds, ReadTooMuch, ListenerStarts, ListenerExits,
       RecorderStep, EndSession, ListenerDies, Tick, Talking, Listening, tvars, lvars, svars
  <2>3. /\ now' = now \/ (now < MaxTime /\ now' = now + 1)
    BY <1>9, <2>1 DEF TalkerExits, TalkerEnds, ReadTooMuch, ListenerStarts, ListenerExits,
       RecorderStep, EndSession, ListenerDies, Tick, Talking, Listening, svars
  <2>4. now' \in StartTime .. MaxTime /\ now' >= now /\ now' \in Nat
    BY <1>2, <2>3, ClockAssumption DEF TalkerInv
  <2>5. lset' = lset \/ played = <<>>
    BY <1>2, <1>9, <2>1 DEF TalkerExits, TalkerEnds, ReadTooMuch, ListenerStarts, ListenerExits,
       RecorderStep, EndSession, ListenerDies, Tick, Talking, Listening, lvars, svars, QuietInv
  <2>6. lpc' = "start" => lpc = "start"
    BY <1>9, <2>1 DEF TalkerExits, TalkerEnds, ReadTooMuch, ListenerStarts, ListenerExits,
       RecorderStep, EndSession, ListenerDies, Tick, Talking, Listening, lvars, svars
  <2>7. tpc' = "start" => tpc = "start"
    BY <2>2
  <2>8. Explains(h)'
    BY <1>1, <1>2, <2>2, <2>4, <2>5, StillExplained
  <2>9. TalkerInv'
    BY <1>2, <2>2, <2>4 DEF TalkerInv
  <2>10. QuietInv'
    BY <1>2, <2>2, <2>6, <2>7 DEF QuietInv
  <2>11. QED
    BY <2>8, <2>9, <2>10 DEF FlowInv, Explained
<1>10. QED
  <2>1. \A ok \in BOOLEAN : SendPacket(ok) => sent' # sent
    BY <1>3, SendChanges
  <2>2. ReadAndSend \/ ReadFails => sent' # sent
    BY <2>1 DEF ReadAndSend, ReadFails
  <2>3. QED
    BY <1>4, <1>5, <1>6, <1>7, <1>8, <1>9, <2>2 DEF SessionNext, Talker, Listener

(* Every state is explained by a log of what the talker sent: packets,     *)
(* statistics, buffered and played fragments all speak of it.              *)
THEOREM FlowCorrect == SessionSpec => []FlowInv
<1>1. QED
  BY FlowInit, FlowStep, SettingsCorrect, KeptInit, KeptStep, PTL DEF SessionSpec

-----------------------------------------------------------------------------
(* What is heard.                                                          *)

LEMMA LogEntry ==
    ASSUME NEW h, Explains(h), NEW n \in 1 .. Len(h)
    PROVE  /\ h[n].k = n /\ h[n].sent \in Nat /\ h[n].first \in Nat /\ h[n].behind \in Int
           /\ h[n].first + h[n].behind = h[n].sent - TalkerPeriod
           /\ h[n].first >= StartTime /\ StartTime <= h[n].sent /\ h[n].sent <= now
<1>1. h[n] \in Origin
  BY DEF Explains, IsLog
<1>2. QED
  BY <1>1 DEF Explains, IsLog, Origin

(* A node of statistics is of the log, and both sides have settings.       *)
LEMMA NodeOfLog ==
    ASSUME NEW h, Explains(h), NEW i \in DOMAIN stats
    PROVE  /\ i \in 1 .. Len(stats) /\ stats # <<>> /\ stats[i] \in Nodes(h, tset)
           /\ stats[i].origin.k \in 1 .. Len(h) /\ stats[i].origin = h[stats[i].origin.k]
<1>1. /\ stats \in Seq(Nodes(h, tset)) /\ h \in Seq(Origin)
      /\ \A n \in 1 .. Len(h) : h[n].k = n
  BY DEF Explains, StatsInv, IsLog
<1>2. i \in 1 .. Len(stats) /\ stats # <<>> /\ stats[i] \in Nodes(h, tset)
  BY <1>1
<1>3. stats[i].origin \in {h[n] : n \in 1 .. Len(h)}
  BY <1>2 DEF Nodes
<1>4. PICK n \in 1 .. Len(h) : stats[i].origin = h[n]
  BY <1>3
<1>5. QED
  BY <1>1, <1>2, <1>4

LEMMA BothKnown ==
    ASSUME SetInv, KeptInv, stats # <<>>
    PROVE  /\ Known(tset) /\ Known(lset) /\ Capacity(tset) = Capacity(lset)
           /\ Capacity(tset) = args.talker.hw_latency
           /\ Capacity(lset) = args.listener.hw_latency
BY TalkerKnown, ListenerKnown, EqualCapacity DEF KeptInv

(* A fragment whose read was complete is the one that was read. *)
LEMMA PlayedFragment ==
    ASSUME SetInv, KeptInv, AsAsked, NEW h, Explains(h),
           NEW m \in 1 .. Len(played), Complete(played[m].k)
    PROVE  LET f == played[m].frames
               o == h[played[m].k]
           IN  /\ played[m].k \in 1 .. Len(h) /\ o.ok
               /\ f \in Seq(Nat) /\ Len(f) = tset.frames_per_pdu
               /\ \A i \in 1 .. tset.frames_per_pdu : f[i] = o.first + Duration(i - 1, tset)
               /\ f[1] = o.first
<1> DEFINE F == tset.frames_per_pdu
           f == played[m].frames
           k == played[m].k
<1>1. PICK j \in DOMAIN stats : stats[j].origin.k = k /\ stats[j].origin.ok
  BY DEF Complete
<1>2. k \in 1 .. Len(h) /\ h[k].ok /\ stats # <<>>
  BY <1>1, NodeOfLog
<1>3. /\ F = Capacity(tset) /\ F = lset.frames_per_pdu /\ F \in Nat \ {0}
      /\ tset.sample_rate \in Nat \ {0}
  BY <1>2, BothKnown DEF Known, AsAsked
<1>4. played[m] \in Plays(h, tset, F)
  <2>1. played \in Seq(Plays(h, tset, F))
    BY <1>3 DEF Explains, SoundInv
  <2>2. QED
    BY <2>1
<1>5. /\ f \in Seq(Nat) /\ Len(f) = F /\ Captured(f, h[k], tset)
  BY <1>2, <1>3, <1>4 DEF Plays
<1>6. \A i \in 1 .. F : f[i] = h[k].first + Duration(i - 1, tset)
  <2>1. \A i \in 1 .. F : i <= F => f[i] = h[k].first + Duration(i - 1, tset)
    BY <1>5, Zenon DEF Captured
  <2>2. \A i \in 1 .. F : i <= F
    BY <1>3
  <2>3. QED
    BY <2>1, <2>2, Zenon
<1>7. f[1] = h[k].first
  <2>1. 1 \in 1 .. F /\ 1 - 1 = 0
    BY <1>3
  <2>2. Duration(0, tset) = 0
    BY <1>3, NoDuration
  <2>3. h[k].first \in Nat
    BY <1>2, LogEntry
  <2>4. f[1] = h[k].first + Duration(1 - 1, tset)
    BY <1>6, <2>1
  <2>5. QED
    BY <2>1, <2>2, <2>3, <2>4
<1>8. QED
  BY <1>2, <1>5, <1>6, <1>7

LEMMA HeardIsCaptured == SetInv /\ KeptInv /\ FlowInv => PlayedAsCaptured
<1> SUFFICES ASSUME SetInv, KeptInv, FlowInv, AsAsked,
                    NEW n \in DOMAIN played, Complete(played[n].k)
             PROVE  LET f == played[n].frames IN
                    /\ \A i \in DOMAIN f : f[i] = f[1] + Duration(i - 1, tset)
                    /\ f[1] >= StartTime
                    /\ n > 1 /\ played[n - 1].k = played[n].k - 1 /\ Complete(played[n - 1].k) =>
                          f[1] = played[n - 1].frames[1] + Duration(Len(f), tset)
  BY DEF PlayedAsCaptured
<1> DEFINE F == tset.frames_per_pdu
           f == played[n].frames
           k == played[n].k
<1>1. PICK h : Explains(h)
  BY DEF FlowInv, Explained
<1>2. stats # <<>>
  BY <1>1, NodeOfLog DEF Complete
<1>3. /\ F = Capacity(tset) /\ F = lset.frames_per_pdu /\ F \in Nat \ {0}
      /\ tset.sample_rate \in Nat \ {0}
  BY <1>2, BothKnown DEF Known, AsAsked
<1>4. /\ played \in Seq(Plays(h, tset, F)) /\ n \in 1 .. Len(played)
      /\ \A m \in 1 .. Len(h) : h[m].k = m /\ h[m].first \in Nat
  <2>1. \A m \in 1 .. Len(h) : h[m].k = m /\ h[m].first \in Nat
    BY <1>1, LogEntry
  <2>2. played \in Seq(Plays(h, tset, F))
    BY <1>1, <1>3 DEF Explains, SoundInv
  <2>3. QED
    BY <2>1, <2>2
<1>5. ASSUME NEW m \in 1 .. Len(played), Complete(played[m].k)
      PROVE  /\ played[m].k \in 1 .. Len(h) /\ h[played[m].k].ok
             /\ played[m].frames \in Seq(Nat) /\ Len(played[m].frames) = F
             /\ \A i \in 1 .. F : played[m].frames[i] = h[played[m].k].first + Duration(i - 1, tset)
             /\ played[m].frames[1] = h[played[m].k].first
  BY <1>1, <1>5, PlayedFragment
<1>6. /\ k \in 1 .. Len(h) /\ h[k].ok /\ f \in Seq(Nat) /\ Len(f) = F /\ f[1] = h[k].first
      /\ \A i \in 1 .. F : f[i] = f[1] + Duration(i - 1, tset)
  <2>1. /\ k \in 1 .. Len(h) /\ h[k].ok /\ f \in Seq(Nat) /\ Len(f) = F
        /\ \A i \in 1 .. F : f[i] = h[k].first + Duration(i - 1, tset)
        /\ f[1] = h[k].first
    BY <1>4, <1>5, Zenon
  <2>2. QED
    BY <2>1, Zenon
<1>7. \A i \in DOMAIN f : f[i] = f[1] + Duration(i - 1, tset)
  BY <1>6
<1>8. f[1] >= StartTime
  BY <1>1, <1>6, LogEntry
<1>9. ASSUME n > 1, played[n - 1].k = k - 1, Complete(played[n - 1].k)
      PROVE  f[1] = played[n - 1].frames[1] + Duration(Len(f), tset)
  <2>1. n - 1 \in 1 .. Len(played)
    BY <1>4, <1>9
  <2>2. /\ k - 1 \in 1 .. Len(h) /\ h[k - 1].ok /\ played[n - 1].frames[1] = h[k - 1].first
    BY <1>5, <1>9, <2>1
  <2>3. NextFirst(h, k - 1) = h[k - 1].first + TalkerPeriod
    BY <1>1, <2>2 DEF Explains, IsLog
  <2>4. NextFirst(h, k - 1) = h[k].first
    BY <1>6, <2>2 DEF NextFirst
  <2>5. QED
    BY <1>6, <2>2, <2>3, <2>4 DEF TalkerPeriod
<1>10. QED
  BY <1>7, <1>8, <1>9

(* A fragment whose read was complete is played as it was captured, after  *)
(* its predecessor without a gap, whatever came between, when both cards   *)
(* gave what their command line asked for.                                 *)
THEOREM HeardAsCaptured == SessionSpec => []PlayedAsCaptured
<1>1. QED
  BY SettingsCorrect, KeptInit, KeptStep, FlowCorrect, HeardIsCaptured, PTL DEF SessionSpec

-----------------------------------------------------------------------------
(* Times.                                                                  *)

LEMMA NodeFacts ==
    ASSUME SetInv, KeptInv, NEW h, Explains(h), NEW i \in DOMAIN stats
    PROVE  LET o == stats[i].origin IN
           /\ stats[i].arrival \in Nat /\ stats[i].arrival <= now
           /\ o.sent \in Nat /\ StartTime <= o.sent /\ o.sent <= stats[i].arrival
           /\ o.first \in Nat /\ o.behind \in Int /\ o.k \in Int
           /\ TalkerPeriod \in Nat /\ o.first + o.behind = o.sent - TalkerPeriod
           /\ EpochsOff(stats[i]) \in Int /\ Epoch * EpochsOff(stats[i]) \in Int
           /\ stats[i].presentation =
                 o.sent + tset.max_transit_time + Epoch * EpochsOff(stats[i])
<1> DEFINE node == stats[i]
           o == node.origin
<1>1. /\ i \in 1 .. Len(stats) /\ stats # <<>> /\ node \in Nodes(h, tset)
      /\ o.k \in 1 .. Len(h) /\ o = h[o.k]
  BY NodeOfLog
<1>2. Known(tset) /\ TalkerPeriod \in Nat
  <2>1. Known(tset)
    BY <1>1, BothKnown
  <2>2. QED
    BY <2>1, DurationNat DEF Known, TalkerPeriod
<1>3. PICK n \in 1 .. Len(h) : n = o.k /\ o = h[n]
  BY <1>1
<1>4. /\ o.sent \in Nat /\ StartTime <= o.sent
      /\ o.first \in Nat /\ o.behind \in Int /\ o.k \in Int
      /\ o.first + o.behind = o.sent - TalkerPeriod
  <2>1. /\ h[n].sent \in Nat /\ StartTime <= h[n].sent
        /\ h[n].first \in Nat /\ h[n].behind \in Int
        /\ h[n].first + h[n].behind = h[n].sent - TalkerPeriod
    BY <1>3, LogEntry
  <2>2. o.k \in Int
    BY <1>3
  <2>3. QED
    BY <1>3, <2>1, <2>2
<1>5. /\ node.arrival \in Nat /\ o.sent <= node.arrival
      /\ node.presentation = get_presentation_time(
            calculate_avtp_time(o.sent, tset.max_transit_time), node.arrival)
  BY <1>1 DEF Nodes
<1>6. node.arrival <= now
  BY <1>1 DEF Explains, StatsInv
<1>7. PICK d \in Nat, a \in Nat : d = o.sent + tset.max_transit_time /\ a = node.arrival
  BY <1>2, <1>4, <1>5 DEF Known
<1>8. PICK e \in Nat \ {0} : e = Epoch
  BY EpochAssumption
<1>9. PICK p \in Int, q \in Int : p = d \div e /\ q = a \div e
  BY <1>8, Z3
<1>10. PICK x \in Int : x = q - p
  OBVIOUS
<1>11. PICK r \in Int : r = d % e /\ d = e * p + r
  BY <1>8, <1>9, Z3
<1>12. node.presentation = e * q + r
  <2>1. calculate_avtp_time(o.sent, tset.max_transit_time) = r
    BY <1>7, <1>8, <1>11 DEF calculate_avtp_time
  <2>2. get_presentation_time(r, node.arrival) = e * q + r
    BY <1>7, <1>8, <1>9 DEF get_presentation_time
  <2>3. QED
    BY <1>5, <2>1, <2>2
<1>13. PICK eq \in Int, ep \in Int, ex \in Int : eq = e * q /\ ep = e * p /\ ex = e * x /\ ex = eq - ep
  <2>1. e * x = e * q - e * p
    BY <1>8, <1>10, Z3
  <2>2. e * x \in Int /\ e * q \in Int /\ e * p \in Int
    BY <1>8, Z3
  <2>3. QED
    BY <2>1, <2>2
<1>14. node.presentation = d + ex
  <2>1. node.presentation = eq + r /\ d = ep + r
    BY <1>11, <1>12, <1>13, Zenon
  <2>2. ex = eq - ep
    BY <1>13
  <2>3. d + ex = eq + r
    BY <2>1, <2>2, Z3
  <2>4. QED
    BY <2>1, <2>3, Zenon
<1>15. d + ex = o.sent + tset.max_transit_time + Epoch * x /\ Epoch * x \in Int
  BY <1>7, <1>8, <1>13
<1>16. EpochsOff(node) = x
  BY <1>7, <1>8, <1>9, <1>10 DEF EpochsOff
<1>17. QED
  BY <1>2, <1>4, <1>5, <1>6, <1>10, <1>14, <1>15, <1>16

LEMMA TimesAre == SetInv /\ KeptInv /\ FlowInv => TimesModuloEpochs
<1> SUFFICES ASSUME SetInv, KeptInv, FlowInv, tset.max_transit_time = lset.max_transit_time,
                    NEW i \in DOMAIN stats
             PROVE  LET o == stats[i].origin
                        off == Epoch * EpochsOff(stats[i])
                    IN  /\ travel(stats[i], lset) = (stats[i].arrival - o.sent - off) % Word
                        /\ tset.sample_rate = lset.sample_rate
                           /\ tset.hw_latency = lset.hw_latency
                              => get_cap_time(stats[i], lset) = (o.first + o.behind + off) % Word
  BY DEF TimesModuloEpochs
<1> DEFINE node == stats[i]
           o == node.origin
           off == Epoch * EpochsOff(node)
<1>1. PICK h : Explains(h)
  BY DEF FlowInv, Explained
<1>2. /\ node.arrival \in Nat /\ o.sent \in Nat /\ o.first \in Nat /\ o.behind \in Int
      /\ TalkerPeriod \in Nat /\ o.first + o.behind = o.sent - TalkerPeriod /\ off \in Int
      /\ node.presentation = o.sent + tset.max_transit_time + off
  BY <1>1, NodeFacts
<1>3. Known(tset) /\ Known(lset)
  BY <1>1, NodeOfLog, BothKnown
<1> HIDE DEF off
<1>4. travel(node, lset) = (node.arrival - o.sent - off) % Word
  <2>1. node.arrival - (node.presentation - lset.max_transit_time) = node.arrival - o.sent - off
    BY <1>2, <1>3 DEF Known
  <2>2. QED
    BY <2>1 DEF travel
<1>5. ASSUME tset.sample_rate = lset.sample_rate, tset.hw_latency = lset.hw_latency
      PROVE  get_cap_time(node, lset) = (o.first + o.behind + off) % Word
  <2>1. avb_aaf_hwlatency_to_ns(lset) = TalkerPeriod
    BY <1>3, <1>5 DEF avb_aaf_hwlatency_to_ns, TalkerPeriod, Duration, Known
  <2>2. node.presentation - lset.max_transit_time - avb_aaf_hwlatency_to_ns(lset)
            = o.first + o.behind + off
    BY <1>2, <1>3, <2>1 DEF Known
  <2>3. QED
    BY <2>2 DEF get_cap_time
<1>6. QED
  BY <1>4, <1>5 DEF off

(* The travel and capture times computed for a packet are those it had, up *)
(* to the epochs by which the listener misplaces its due time, for any     *)
(* epoch, clock and settings.                                              *)
THEOREM TimesUpToEpochs == SessionSpec => []TimesModuloEpochs
<1>1. QED
  BY SettingsCorrect, KeptInit, KeptStep, FlowCorrect, TimesAre, PTL DEF SessionSpec

(* No session sees an epoch of the timestamps end: neither the clock nor a *)
(* due time leaves the one it starts in (4.3 s of the program's).          *)
OneEpoch ==
    \A s \in Setups :
        (MaxTime + s.args.talker.transit_time) \div Epoch = StartTime \div Epoch

LEMMA NoneOff ==
    ASSUME OneEpoch, SetInv, KeptInv, TalkerInv, NEW h, Explains(h), NEW i \in DOMAIN stats
    PROVE  EpochsOff(stats[i]) = 0
<1>1. PICK s \in Setups : args = s.args /\ cards = s.cards
  BY DEF SetInv
<1>2. stats # <<>> /\ tset.max_transit_time = args.talker.transit_time
      /\ tset.max_transit_time \in Nat
  <2>1. stats # <<>>
    BY NodeOfLog
  <2>2. Made(tset, args.talker, cards.talker)
    BY <2>1 DEF KeptInv
  <2>3. QED
    BY <2>1, <2>2, TalkerKnown DEF Known
<1>3. PICK arrival \in Int, due \in Int, last \in Int, first \in Int :
          /\ arrival = stats[i].arrival
          /\ due = stats[i].origin.sent + tset.max_transit_time
          /\ last = MaxTime + tset.max_transit_time /\ first = StartTime
          /\ first <= arrival /\ arrival <= last /\ first <= due /\ due <= last
  <2>1. /\ stats[i].arrival \in Nat /\ stats[i].arrival <= now
        /\ stats[i].origin.sent \in Nat /\ StartTime <= stats[i].origin.sent
        /\ stats[i].origin.sent <= stats[i].arrival
    BY NodeFacts
  <2>2. now \in StartTime .. MaxTime /\ StartTime \in Nat /\ MaxTime \in Nat
    BY ClockAssumption DEF TalkerInv
  <2>3. QED
    BY <1>2, <2>1, <2>2
<1>4. last \div Epoch = first \div Epoch
  BY <1>1, <1>2, <1>3 DEF OneEpoch
<1>5. PICK e \in Nat \ {0} : e = Epoch
  BY EpochAssumption
<1>6. /\ first \div e <= arrival \div e /\ arrival \div e <= last \div e
      /\ first \div e <= due \div e /\ due \div e <= last \div e
  BY <1>3, QuotientMonotone
<1>7. arrival \div e \in Int /\ due \div e \in Int /\ first \div e \in Int
  BY Z3
<1>8. arrival \div e - due \div e = 0
  BY <1>4, <1>5, <1>6, <1>7
<1>9. QED
  BY <1>3, <1>5, <1>8 DEF EpochsOff

(* In a session that sees no epoch end every due time is recovered as the  *)
(* talker set it.                                                          *)
THEOREM NoneMisplaced == OneEpoch => (SessionSpec => []AllInPlace)
<1> SUFFICES ASSUME OneEpoch PROVE SessionSpec => []AllInPlace
  OBVIOUS
<1>1. SetInv /\ KeptInv /\ FlowInv => AllInPlace
  BY NoneOff DEF FlowInv, Explained, AllInPlace
<1>2. QED
  BY <1>1, SettingsCorrect, KeptInit, KeptStep, FlowCorrect, PTL DEF SessionSpec

-----------------------------------------------------------------------------
(* Figures.                                                                *)

(* They are printed once, at the end, from the statistics as they then are.*)
FiguresInv ==
    figures # None =>
        lpc = "ended" /\ Len(stats) >= 2 /\ figures \in process_stats(stats, lset)

(* When the listener has ended nothing happens any more. *)
LEMMA EndedIsOver == lpc = "ended" => ~SessionNext
BY DEF SessionNext, Listener, ListenerExits, ListenerStarts, RecorderStep, Receiving,
   ShortPacket, DropPacket, KeepPacket, PlayFragment, EndSession, ListenerDies

LEMMA FiguresInit == SessionInit => FiguresInv
BY DEF SessionInit, FiguresInv

LEMMA FiguresStep == FiguresInv /\ [SessionNext]_svars => FiguresInv'
<1> SUFFICES ASSUME FiguresInv, [SessionNext]_svars PROVE FiguresInv'
  OBVIOUS
<1>1. CASE EndSession
  BY <1>1 DEF EndSession, FiguresInv
<1>2. CASE lpc # "ended" /\ ~EndSession /\ ~UNCHANGED svars
  <2>1. figures = None
    BY <1>2 DEF FiguresInv
  <2>2. ASSUME Talker \/ Tick PROVE figures' = figures
    BY <2>2 DEF Talker, TalkerExits, TalkerStarts, ReadAndSend, ReadTooMuch, ReadFails,
       TalkerEnds, SendPacket, Talking, Tick, lvars
  <2>3. ASSUME Listener PROVE figures' = figures
    BY <1>2, <2>3 DEF Listener, ListenerExits, ListenerStarts, RecorderStep, Receiving,
       ShortPacket, DropPacket, KeepPacket, PlayFragment, ListenerDies
  <2>4. QED
    BY <1>2, <2>1, <2>2, <2>3 DEF SessionNext, FiguresInv
<1>3. CASE lpc = "ended" /\ ~EndSession /\ ~UNCHANGED svars
  BY <1>3, EndedIsOver
<1>4. CASE UNCHANGED svars
  BY <1>4 DEF svars, lvars, FiguresInv
<1>5. QED
  BY <1>1, <1>2, <1>3, <1>4

(* The figures of a sequence of values that fit their width.               *)
LEMMA StatOf ==
    ASSUME NEW n \in Nat \ {0}, NEW data, data = [i \in 1 .. n |-> data[i]],
           NEW S \in SUBSET (0 .. Word - 1), S = {data[i] : i \in 1 .. n},
           NEW figure \in process_stat(data)
    PROVE  figure.min = Min(S) /\ figure.max = Max(S) /\ figure.count = n
<1>1. data \in [1 .. n -> S] /\ DOMAIN data = 1 .. n
  OBVIOUS
<1>2. data \in Seq(S) /\ Len(data) = n
  BY <1>1
<1>3. ToSet(data) = S
  BY <1>1 DEF ToSet
<1>4. /\ figure.min = Min(S \cup {Word - 1}) /\ figure.max = Max(S \cup {0})
      /\ figure.count = n
  BY <1>2, <1>3 DEF process_stat
<1>5. IsFiniteSet(S) /\ S # {}
  <2>1. IsFiniteSet(1 .. n)
    BY FS_Interval
  <2>2. data \in Surjection(1 .. n, S)
    BY <1>1 DEF Surjection
  <2>3. IsFiniteSet(S)
    BY <2>1, <2>2, FS_Surjection
  <2>4. 1 \in 1 .. n
    OBVIOUS
  <2>5. QED
    BY <2>3, <2>4
<1>6. S \in SUBSET Int /\ (\A x \in S : x <= Word - 1) /\ (\A x \in S : x >= 0)
  BY WordAssumption
<1>7. Word - 1 \in Int /\ 0 \in Int
  BY WordAssumption
<1>8. Min(S \cup {Word - 1}) = Min(S)
  BY <1>5, <1>6, <1>7, MinWithBound, Zenon
<1>9. Max(S \cup {0}) = Max(S)
  BY <1>5, <1>6, <1>7, MaxWithBound, Zenon
<1>10. QED
  BY <1>4, <1>8, <1>9

(* With every due time in place a travel time is the packet's delay, and   *)
(* the time between two captures is that between the stamps.               *)
LEMMA TravelIsDelay ==
    ASSUME AllInPlace, MaxTime < Word, SetInv, KeptInv, FlowInv,
           tset.max_transit_time = lset.max_transit_time, NEW i \in DOMAIN stats
    PROVE  /\ travel(stats[i], lset) = stats[i].arrival - stats[i].origin.sent
           /\ travel(stats[i], lset) \in 0 .. Word - 1
<1> DEFINE o == stats[i].origin
<1>1. PICK h : Explains(h)
  BY DEF FlowInv, Explained
<1>2. PICK d \in 0 .. Word - 1 : d = stats[i].arrival - o.sent /\ d - 0 = d
  <2>1. now \in StartTime .. MaxTime /\ StartTime \in Nat /\ MaxTime \in Nat
    BY ClockAssumption DEF FlowInv, TalkerInv
  <2>2. /\ stats[i].arrival \in Nat /\ stats[i].arrival <= now
        /\ o.sent \in Nat /\ o.sent <= stats[i].arrival
    BY <1>1, NodeFacts
  <2>3. QED
    BY <2>1, <2>2, WordAssumption
<1>3. EpochsOff(stats[i]) = 0
  BY DEF AllInPlace
<1>4. Epoch * EpochsOff(stats[i]) = 0
  BY <1>3, EpochAssumption
<1>5. travel(stats[i], lset) = (stats[i].arrival - o.sent - 0) % Word
  BY <1>4, TimesAre DEF TimesModuloEpochs
<1>6. d % Word = d
  BY WordAssumption, SmallModulo
<1>7. QED
  BY <1>2, <1>5, <1>6

LEMMA CaptureDeltaIsGap ==
    ASSUME AllInPlace, MaxTime < Word, SetInv, KeptInv, FlowInv,
           NEW i \in 1 .. Len(stats) - 1
    PROVE  LET gap == stats[i].origin.sent - stats[i + 1].origin.sent IN
           /\ (get_cap_time(stats[i], lset) - get_cap_time(stats[i + 1], lset)) % Word = gap
           /\ gap \in 0 .. Word - 1
<1> DEFINE newer == stats[i]
           older == stats[i + 1]
<1>1. PICK h : Explains(h)
  BY DEF FlowInv, Explained
<1>2. stats \in Seq(Nodes(h, tset)) /\ i \in DOMAIN stats /\ i + 1 \in DOMAIN stats
  BY <1>1 DEF Explains, StatsInv
<1>3. /\ newer.origin.sent \in Nat /\ older.origin.sent \in Nat
      /\ StartTime <= older.origin.sent /\ newer.origin.sent <= newer.arrival
      /\ newer.arrival \in Nat /\ newer.arrival <= now
  BY <1>1, <1>2, NodeFacts
<1>4. older.origin.sent <= newer.origin.sent
  <2>1. /\ newer.origin.k \in 1 .. Len(h) /\ newer.origin = h[newer.origin.k]
        /\ older.origin.k \in 1 .. Len(h) /\ older.origin = h[older.origin.k]
    BY <1>1, <1>2, NodeOfLog
  <2>2. older.origin.k < newer.origin.k
    BY <1>1, <1>2 DEF Explains, StatsInv
  <2>3. PICK m \in 1 .. Len(h), n \in 1 .. Len(h) :
            m = older.origin.k /\ n = newer.origin.k /\ m <= n
    BY <2>1, <2>2
  <2>4. h[m].sent <= h[n].sent
    BY <1>1, <2>3 DEF Explains, IsLog
  <2>5. QED
    BY <2>1, <2>3, <2>4
<1>5. PICK gap \in 0 .. Word - 1 : gap = newer.origin.sent - older.origin.sent
  <2>1. now \in StartTime .. MaxTime /\ StartTime \in Nat /\ MaxTime \in Nat
    BY ClockAssumption DEF FlowInv, TalkerInv
  <2>2. QED
    BY <1>3, <1>4, <2>1, WordAssumption
<1>6. PICK before \in Int :
          /\ newer.presentation - lset.max_transit_time - avb_aaf_hwlatency_to_ns(lset)
                = newer.origin.sent + before
          /\ older.presentation - lset.max_transit_time - avb_aaf_hwlatency_to_ns(lset)
                = older.origin.sent + before
  <2>1. Known(tset) /\ Known(lset)
    BY <1>1, <1>2, NodeOfLog, BothKnown
  <2>2. avb_aaf_hwlatency_to_ns(lset) \in Nat
    <3>1. avb_aaf_hwlatency_to_ns(lset) = Duration(lset.hw_latency, lset)
      BY DEF avb_aaf_hwlatency_to_ns, Duration
    <3>2. lset.hw_latency \in Nat /\ lset.sample_rate \in Nat \ {0}
      BY <2>1 DEF Known
    <3>3. QED
      BY <3>1, <3>2, DurationNat
  <2>3. Epoch * EpochsOff(newer) = 0 /\ Epoch * EpochsOff(older) = 0
    <3>1. EpochsOff(newer) = 0 /\ EpochsOff(older) = 0
      BY <1>2 DEF AllInPlace
    <3>2. QED
      BY <3>1, EpochAssumption
  <2>4. /\ newer.presentation = newer.origin.sent + tset.max_transit_time + 0
        /\ older.presentation = older.origin.sent + tset.max_transit_time + 0
    BY <1>1, <1>2, <2>3, NodeFacts
  <2>5. /\ tset.max_transit_time \in Int /\ lset.max_transit_time \in Int
        /\ avb_aaf_hwlatency_to_ns(lset) \in Int
        /\ newer.origin.sent \in Int /\ older.origin.sent \in Int
    <3>1. tset.max_transit_time \in Nat /\ lset.max_transit_time \in Nat
      BY <2>1 DEF Known
    <3>2. QED
      BY <1>3, <2>2, <3>1
  <2>6. PICK tt \in Int, lt \in Int, lat \in Int, n \in Int, o \in Int :
            /\ tt = tset.max_transit_time /\ lt = lset.max_transit_time
            /\ lat = avb_aaf_hwlatency_to_ns(lset)
            /\ n = newer.origin.sent /\ o = older.origin.sent
    BY <2>5, Zenon
  <2>7. PICK b \in Int : b = tt - lt - lat
    OBVIOUS
  <2>8. (n + tt + 0) - lt - lat = n + b /\ (o + tt + 0) - lt - lat = o + b
    BY <2>7, Z3
  <2>9. QED
    BY <2>4, <2>6, <2>7, <2>8, Zenon
<1>7. PICK a \in Int, b \in Int :
          a = newer.origin.sent + before /\ b = older.origin.sent + before /\ a - b = gap
  BY <1>3, <1>5, <1>6
<1>8. get_cap_time(newer, lset) = a % Word /\ get_cap_time(older, lset) = b % Word
  BY <1>6, <1>7 DEF get_cap_time
<1>9. ((a % Word) - (b % Word)) % Word = (a - b) % Word
  BY WordAssumption, DifferenceModulo
<1>10. gap % Word = gap
  BY WordAssumption, SmallModulo
<1>11. QED
  BY <1>5, <1>7, <1>8, <1>9, <1>10

LEMMA FiguresAre ==
    ASSUME MaxTime < Word, SetInv, KeptInv, FlowInv, FiguresInv
    PROVE  FiguresAreTrue
<1> SUFFICES ASSUME figures # None, AllInPlace
             PROVE  /\ tset.max_transit_time = lset.max_transit_time =>
                          figures.travel.min = Min(Delays) /\ figures.travel.max = Max(Delays)
                    /\ figures.delta_cap.min = Min(Gaps) /\ figures.delta_cap.max = Max(Gaps)
                    /\ figures.travel.count = figures.delta_cap.count + 1
  BY DEF FiguresAreTrue
<1>1. PICK h : Explains(h)
  BY DEF FlowInv, Explained
<1>2. stats \in Seq(Nodes(h, tset)) /\ Len(stats) \in Nat /\ Len(stats) >= 2
      /\ DOMAIN stats = 1 .. Len(stats)
  BY <1>1 DEF Explains, StatsInv, FiguresInv
<1>3. /\ figures.travel \in process_stat(Travels(stats, lset))
      /\ figures.delta_cap \in process_stat(CaptureDeltas(stats, lset))
  <2>1. figures \in [travel : process_stat(Travels(stats, lset)),
                     delta_cap : process_stat(CaptureDeltas(stats, lset))]
    BY DEF FiguresInv, process_stats
  <2>2. QED
    BY <2>1
<1>4. PICK n \in Nat \ {0}, m \in Nat \ {0} : n = Len(stats) /\ m = n - 1 /\ n = m + 1
  <2>1. PICK n \in Nat : n = Len(stats) /\ n >= 2
    BY <1>2
  <2>2. n \in Nat \ {0} /\ n - 1 \in Nat \ {0} /\ n = (n - 1) + 1
    BY <2>1
  <2>3. QED
    BY <2>1, <2>2
<1>5. ASSUME tset.max_transit_time = lset.max_transit_time
      PROVE  figures.travel.min = Min(Delays) /\ figures.travel.max = Max(Delays)
  <2> DEFINE data == Travels(stats, lset)
  <2>1. data = [i \in 1 .. n |-> data[i]]
    BY <1>4 DEF Travels
  <2>2. \A i \in 1 .. n : /\ data[i] = stats[i].arrival - stats[i].origin.sent
                          /\ data[i] \in 0 .. Word - 1
    BY <1>2, <1>4, <1>5, TravelIsDelay DEF Travels
  <2>3. Delays = {data[i] : i \in 1 .. n}
    BY <1>2, <1>4, <2>2 DEF Delays
  <2>4. Delays \in SUBSET (0 .. Word - 1)
    BY <2>2, <2>3
  <2> HIDE DEF data
  <2>5. QED
    BY <1>3, <2>1, <2>3, <2>4, StatOf DEF data
<1>6. /\ figures.delta_cap.min = Min(Gaps) /\ figures.delta_cap.max = Max(Gaps)
      /\ figures.delta_cap.count = m
  <2> DEFINE data == CaptureDeltas(stats, lset)
  <2>1. data = [i \in 1 .. m |-> data[i]]
    BY <1>4 DEF CaptureDeltas
  <2>2. \A i \in 1 .. m : /\ data[i] = stats[i].origin.sent - stats[i + 1].origin.sent
                          /\ data[i] \in 0 .. Word - 1
    BY <1>4, CaptureDeltaIsGap DEF CaptureDeltas
  <2>3. Gaps = {data[i] : i \in 1 .. m}
    <3>1. 1 .. Len(stats) - 1 = 1 .. m
      BY <1>4
    <3> HIDE DEF data
    <3>2. QED
      BY <2>2, <3>1, Zenon DEF Gaps
  <2>4. Gaps \in SUBSET (0 .. Word - 1)
    BY <2>2, <2>3
  <2> HIDE DEF data
  <2>5. QED
    BY <1>3, <2>1, <2>3, <2>4, StatOf DEF data
<1>7. figures.travel.count = n
  <2>1. Travels(stats, lset) \in Seq({travel(stats[i], lset) : i \in 1 .. n})
        /\ Len(Travels(stats, lset)) = n
    BY <1>4 DEF Travels
  <2>2. QED
    BY <1>3, <2>1 DEF process_stat
<1>8. QED
  BY <1>4, <1>5, <1>6, <1>7

(* The smallest and largest travel time and capture delta that are printed *)
(* are those of the packets kept, for every session whose due times were   *)
(* recovered right, and however the means and deviations came out.         *)
THEOREM FiguresAreRight ==
    MaxTime < Word => (SessionSpec => []FiguresAreTrue)
<1> SUFFICES ASSUME MaxTime < Word PROVE SessionSpec => []FiguresAreTrue
  OBVIOUS
<1>1. SetInv /\ KeptInv /\ FlowInv /\ FiguresInv => FiguresAreTrue
  BY FiguresAre
<1>2. QED
  BY <1>1, SettingsCorrect, KeptInit, KeptStep, FlowCorrect, FiguresInit, FiguresStep, PTL
  DEF SessionSpec

-----------------------------------------------------------------------------
(* The name of a recording.                                                *)

(* Whatever was kept is played or waits in the buffer, oldest first.       *)
OrderInv ==
    /\ Len(stats) = Len(played) + Len(samples)
    /\ \A n \in 1 .. Len(played) : played[n].k = stats[Len(stats) + 1 - n].origin.k
    /\ \A n \in 1 .. Len(samples) : samples[n].k = stats[Len(samples) + 1 - n].origin.k

LEMMA OrderInit == SessionInit => OrderInv
BY EmptySeq DEF SessionInit, OrderInv

LEMMA BufferMoves ==
    ASSUME [SessionNext]_svars
    PROVE  KeepPacket \/ PlayFragment \/ UNCHANGED <<stats, samples, played>>
<1>1. Talker \/ Tick => UNCHANGED <<stats, samples, played>>
  BY DEF Talker, TalkerExits, TalkerStarts, ReadAndSend, ReadTooMuch, ReadFails, TalkerEnds,
     SendPacket, Talking, Tick, lvars
<1>2. Listener => KeepPacket \/ PlayFragment \/ UNCHANGED <<stats, samples, played>>
  BY DEF Listener, ListenerExits, ListenerStarts, RecorderStep, Receiving, ShortPacket,
     DropPacket, EndSession, ListenerDies
<1>3. QED
  BY <1>1, <1>2 DEF SessionNext, svars, lvars

(* Three sequences of anything. *)
LEMMA ThreeSequences ==
    ASSUME NEW h, Explains(h)
    PROVE  \E S, T, U : /\ stats \in Seq(S) /\ samples \in Seq(T) /\ played \in Seq(U)
                        /\ Len(stats) \in Nat /\ Len(samples) \in Nat /\ Len(played) \in Nat
<1>1. /\ stats \in Seq(Nodes(h, tset)) /\ samples \in Seq(Samples(h, tset))
      /\ played \in Seq(Plays(h, tset, lset.frames_per_pdu))
  BY DEF Explains, StatsInv, SoundInv
<1>2. QED
  BY <1>1

LEMMA OrderStep == FlowInv /\ OrderInv /\ [SessionNext]_svars => OrderInv'
<1> SUFFICES ASSUME FlowInv, OrderInv, [SessionNext]_svars PROVE OrderInv'
  OBVIOUS
<1>1. PICK h : Explains(h)
  BY DEF FlowInv, Explained
<1>2. PICK S, T, U : /\ stats \in Seq(S) /\ samples \in Seq(T) /\ played \in Seq(U)
                     /\ Len(stats) \in Nat /\ Len(samples) \in Nat /\ Len(played) \in Nat
  BY <1>1, ThreeSequences
<1>3. CASE KeepPacket
  <2> DEFINE p == Head(wire)
             due == get_presentation_time(p.ts, now)
             n == [arrival |-> now, presentation |-> due, origin |-> p.origin]
             s == [due |-> due, k |-> p.origin.k,
                   frames |-> SubSeq(p.payload, 1, Capacity(lset))]
  <2>1. /\ stats' = <<n>> \o stats /\ samples' = Append(samples, s)
        /\ played' = played /\ s.k = n.origin.k
    BY <1>3 DEF KeepPacket, Receiving
  <2> HIDE DEF n, s
  <2>2. /\ Len(stats') = Len(stats) + 1 /\ stats'[1] = n
        /\ \A i \in 1 .. Len(stats) : stats'[i + 1] = stats[i]
    <3>1. /\ <<n>> \in Seq(S \cup {n}) /\ stats \in Seq(S \cup {n})
          /\ Len(<<n>>) = 1 /\ <<n>>[1] = n
      BY <1>2
    <3>2. /\ Len(stats') = Len(stats) + 1 /\ stats'[1] = n
          /\ \A i \in 1 .. Len(stats') : i # 1 => stats'[i] = stats[i - 1]
      BY <1>2, <2>1, <3>1, ConcatProperties
    <3>3. \A i \in 1 .. Len(stats) : i + 1 \in 1 .. Len(stats') /\ i + 1 # 1 /\ (i + 1) - 1 = i
      BY <1>2, <3>2
    <3>4. QED
      BY <3>2, <3>3
  <2>3. /\ Len(samples') = Len(samples) + 1 /\ samples'[Len(samples) + 1] = s
        /\ \A i \in 1 .. Len(samples) : samples'[i] = samples[i]
    <3>1. samples \in Seq(T \cup {s})
      BY <1>2
    <3>2. QED
      BY <2>1, <3>1, AppendProperties
  <2>4. ASSUME NEW i \in 1 .. Len(played')
        PROVE  played'[i].k = stats'[Len(stats') + 1 - i].origin.k
    <3>1. i \in 1 .. Len(played) /\ Len(stats) + 1 - i \in 1 .. Len(stats)
      BY <1>2, <2>1 DEF OrderInv
    <3>2. Len(stats') + 1 - i = (Len(stats) + 1 - i) + 1
      BY <1>2, <2>2, <3>1
    <3>3. stats'[Len(stats') + 1 - i] = stats[Len(stats) + 1 - i]
      BY <2>2, <3>1, <3>2
    <3>4. QED
      BY <2>1, <3>1, <3>3 DEF OrderInv
  <2>5. ASSUME NEW i \in 1 .. Len(samples')
        PROVE  samples'[i].k = stats'[Len(samples') + 1 - i].origin.k
    <3>1. CASE i = Len(samples) + 1
      BY <1>2, <2>1, <2>2, <2>3, <3>1
    <3>2. CASE i \in 1 .. Len(samples)
      <4>1. Len(samples) + 1 - i \in 1 .. Len(stats)
        BY <1>2, <3>2 DEF OrderInv
      <4>2. Len(samples') + 1 - i = (Len(samples) + 1 - i) + 1
        BY <1>2, <2>3, <3>2
      <4>3. stats'[Len(samples') + 1 - i] = stats[Len(samples) + 1 - i]
        BY <2>2, <4>1, <4>2
      <4>4. QED
        BY <2>3, <3>2, <4>3 DEF OrderInv
    <3>3. QED
      BY <1>2, <2>3, <3>1, <3>2
  <2>6. Len(stats') = Len(played') + Len(samples')
    <3>1. Len(stats) = Len(played) + Len(samples)
      BY DEF OrderInv
    <3>2. QED
      BY <1>2, <2>1, <2>2, <2>3, <3>1
  <2>7. QED
    BY <2>4, <2>5, <2>6 DEF OrderInv
<1>4. CASE PlayFragment
  <2>1. PICK p : /\ stats' = stats /\ samples # <<>> /\ samples' = Tail(samples)
                 /\ played' = Append(played, p) /\ p.k = Head(samples).k
    BY <1>4 DEF PlayFragment
  <2>2. /\ Len(samples') = Len(samples) - 1 /\ Head(samples) = samples[1]
        /\ 1 \in 1 .. Len(samples)
        /\ \A i \in 1 .. Len(samples') : samples'[i] = samples[i + 1]
    BY <1>2, <2>1, HeadTailProperties
  <2>3. /\ Len(played') = Len(played) + 1 /\ played'[Len(played) + 1] = p
        /\ \A i \in 1 .. Len(played) : played'[i] = played[i]
    <3>1. played \in Seq(U \cup {p})
      BY <1>2
    <3>2. QED
      BY <2>1, <3>1, AppendProperties
  <2>4. ASSUME NEW i \in 1 .. Len(played')
        PROVE  played'[i].k = stats'[Len(stats') + 1 - i].origin.k
    <3>1. CASE i = Len(played) + 1
      <4>1. Len(stats') + 1 - i = Len(samples) + 1 - 1
        BY <1>2, <2>1, <3>1 DEF OrderInv
      <4>2. samples[1].k = stats[Len(samples) + 1 - 1].origin.k
        BY <2>2 DEF OrderInv
      <4>3. QED
        BY <2>1, <2>2, <2>3, <3>1, <4>1, <4>2
    <3>2. CASE i \in 1 .. Len(played)
      BY <2>1, <2>3, <3>2 DEF OrderInv
    <3>3. QED
      BY <1>2, <2>3, <3>1, <3>2
  <2>5. ASSUME NEW i \in 1 .. Len(samples')
        PROVE  samples'[i].k = stats'[Len(samples') + 1 - i].origin.k
    <3>1. i + 1 \in 1 .. Len(samples) /\ Len(samples) + 1 - (i + 1) = Len(samples') + 1 - i
      <4>1. PICK m \in Nat : m = Len(samples) /\ Len(samples') = m - 1
        BY <1>2, <2>2
      <4>2. i \in 1 .. m - 1
        BY <4>1
      <4>3. i + 1 \in 1 .. m /\ m + 1 - (i + 1) = (m - 1) + 1 - i
        BY <4>2
      <4>4. QED
        BY <4>1, <4>3
    <3>2. samples[i + 1].k = stats[Len(samples) + 1 - (i + 1)].origin.k
      BY <3>1 DEF OrderInv
    <3>3. QED
      BY <2>1, <2>2, <3>1, <3>2
  <2>6. Len(stats') = Len(played') + Len(samples')
    <3>1. Len(stats) = Len(played) + Len(samples)
      BY DEF OrderInv
    <3>2. QED
      BY <1>2, <2>1, <2>2, <2>3, <3>1
  <2>7. QED
    BY <2>4, <2>5, <2>6 DEF OrderInv
<1>5. CASE UNCHANGED <<stats, samples, played>>
  BY <1>5 DEF OrderInv
<1>6. QED
  BY <1>3, <1>4, <1>5, BufferMoves

(* Every packet kept is played or still in the buffer, in the order they   *)
(* came, whatever the cards granted and however the session ends.          *)
THEOREM KeptAreHeardInOrder == SessionSpec => []OrderInv
<1>1. QED
  BY OrderInit, OrderStep, FlowCorrect, PTL DEF SessionSpec

(* The name is made at the end, of the oldest packet. *)
NameInv ==
    name # None =>
        lpc = "ended" /\ Len(stats) >= 2 /\ name = <<get_cap_time(Oldest, lset)>>

LEMMA NameInit == SessionInit => NameInv
BY DEF SessionInit, NameInv

LEMMA NameStep == NameInv /\ [SessionNext]_svars => NameInv'
<1> SUFFICES ASSUME NameInv, [SessionNext]_svars PROVE NameInv'
  OBVIOUS
<1>1. CASE EndSession
  BY <1>1 DEF EndSession, Oldest, NameInv
<1>2. CASE lpc # "ended" /\ ~EndSession /\ ~UNCHANGED svars
  <2>1. name = None
    BY <1>2 DEF NameInv
  <2>2. ASSUME Talker \/ Tick PROVE name' = name
    BY <2>2 DEF Talker, TalkerExits, TalkerStarts, ReadAndSend, ReadTooMuch, ReadFails,
       TalkerEnds, SendPacket, Talking, Tick, lvars
  <2>3. ASSUME Listener PROVE name' = name
    BY <1>2, <2>3 DEF Listener, ListenerExits, ListenerStarts, RecorderStep, Receiving,
       ShortPacket, DropPacket, KeepPacket, PlayFragment, ListenerDies
  <2>4. QED
    BY <1>2, <2>1, <2>2, <2>3 DEF SessionNext, NameInv
<1>3. CASE lpc = "ended" /\ ~EndSession /\ ~UNCHANGED svars
  BY <1>3, EndedIsOver
<1>4. CASE UNCHANGED svars
  BY <1>4 DEF svars, lvars, Oldest, NameInv
<1>5. QED
  BY <1>1, <1>2, <1>3, <1>4

LEMMA NameIs ==
    ASSUME SetInv, KeptInv, FlowInv, OrderInv, NameInv
    PROVE  NamedAfterFirstSound
<1> SUFFICES ASSUME name # None, played # <<>>, SameTimes, AsAsked, Complete(played[1].k)
             PROVE  \E i \in DOMAIN stats :
                        /\ stats[i].origin.k = played[1].k
                        /\ name = <<(played[1].frames[1] + stats[i].origin.behind
                                       + Epoch * EpochsOff(stats[i])) % Word>>
  BY DEF NamedAfterFirstSound
<1>1. PICK h : Explains(h)
  BY DEF FlowInv, Explained
<1>2. /\ stats \in Seq(Nodes(h, tset)) /\ played \in Seq(Plays(h, tset, lset.frames_per_pdu))
      /\ Len(stats) >= 2
  BY <1>1 DEF Explains, StatsInv, SoundInv, NameInv
<1>3. PICK i \in DOMAIN stats : i = Len(stats) /\ i = Len(stats) + 1 - 1
  BY <1>2
<1>4. 1 \in 1 .. Len(played) /\ 1 \in DOMAIN played
  BY <1>2
<1>5. stats[i].origin.k = played[1].k
  BY <1>3, <1>4 DEF OrderInv
<1>6. played[1].frames[1] = stats[i].origin.first
  <2>1. stats[i].origin = h[played[1].k]
    BY <1>1, <1>5, NodeOfLog
  <2>2. played[1].frames[1] = h[played[1].k].first
    BY <1>1, <1>4, PlayedFragment
  <2>3. QED
    BY <2>1, <2>2
<1>7. get_cap_time(stats[i], lset) =
          (stats[i].origin.first + stats[i].origin.behind + Epoch * EpochsOff(stats[i])) % Word
  BY TimesAre DEF TimesModuloEpochs, SameTimes
<1>8. name = <<get_cap_time(stats[i], lset)>>
  BY <1>3 DEF NameInv, Oldest
<1>9. QED
  BY <1>5, <1>6, <1>7, <1>8

(* A recording is named after the capture of the sound it begins with, up  *)
(* to the epochs its due time is off, for all cards that gave what was     *)
(* asked for.                                                              *)
THEOREM NamesAreRight == SessionSpec => []NamedAfterFirstSound
<1>1. SetInv /\ KeptInv /\ FlowInv /\ OrderInv /\ NameInv => NamedAfterFirstSound
  BY NameIs
<1>2. QED
  BY <1>1, SettingsCorrect, KeptInit, KeptStep, FlowCorrect, KeptAreHeardInOrder,
     NameInit, NameStep, PTL DEF SessionSpec

-----------------------------------------------------------------------------
(* Periods.                                                                *)

(* The card gave the period that was asked for. *)
PeriodsGranted ==
    /\ tpc = "run" => tset.hw_latency = args.talker.hw_latency
    /\ lpc = "run" => lset.hw_latency = args.listener.hw_latency

LEMMA PayloadOf ==
    ASSUME NEW line, NEW card, NEW set, Made(set, line, card), Known(set), line.hw_latency \in Nat
    PROVE  set.data_len = set.frames_per_pdu * FrameBytes(set)
               <=> set.hw_latency = line.hw_latency
<1>1. set.data_len = FrameBytes(set) * line.hw_latency /\ set.frames_per_pdu = set.hw_latency
  BY MadeFields
<1>2. PICK b \in Nat \ {0}, n \in Nat, m \in Nat :
          b = FrameBytes(set) /\ n = line.hw_latency /\ m = set.hw_latency
  BY DEF Known
<1>3. m * b = b * m
  BY Z3
<1>4. b * n = b * m <=> m = n
  BY Cancel
<1>5. QED
  BY <1>1, <1>2, <1>3, <1>4

(* A packet carries one period of a side's card exactly when that card     *)
(* granted the period asked for: what avb_alsa.c 101 says of every card is *)
(* true of those, whatever the rates, formats and channels.                *)
THEOREM OnePeriodIffGranted == SessionSpec => [](PayloadIsOnePeriod <=> PeriodsGranted)
<1>1. ASSUME SetInv, tpc = "run"
      PROVE  tset.data_len = tset.frames_per_pdu * FrameBytes(tset)
                 <=> tset.hw_latency = args.talker.hw_latency
  <2>1. Made(tset, args.talker, cards.talker) /\ args.talker.hw_latency \in Nat
    BY <1>1, SetupsAssumption DEF SetInv
  <2>2. QED
    BY <1>1, <2>1, TalkerKnown, PayloadOf
<1>2. ASSUME SetInv, lpc = "run"
      PROVE  lset.data_len = lset.frames_per_pdu * FrameBytes(lset)
                 <=> lset.hw_latency = args.listener.hw_latency
  <2>1. Made(lset, args.listener, cards.listener) /\ args.listener.hw_latency \in Nat
    BY <1>2, SetupsAssumption DEF SetInv
  <2>2. QED
    BY <1>2, <2>1, ListenerKnown, PayloadOf
<1>3. SetInv => (PayloadIsOnePeriod <=> PeriodsGranted)
  BY <1>1, <1>2 DEF PayloadIsOnePeriod, PeriodsGranted
<1>4. QED
  BY <1>3, SettingsCorrect, PTL

=============================================================================
