----------------------------- MODULE AvbSession -----------------------------
(***************************************************************************)
(* A whole audio session: two command lines, two sound cards, the packets  *)
(* between them, the recording and the printed figures.  AvbListener and   *)
(* AvbStream have the buffer, its timer, lost packets and the epoch of the *)
(* timestamps in detail; here a frame of sound is the time it was captured *)
(* at (0 is memory nobody wrote), so that what is played, recorded, named  *)
(* and measured can be compared with what was captured.                    *)
(***************************************************************************)
EXTENDS WavFile, AvbStats, AvtpTime

CONSTANTS
    Setups,         \* [args, cards], each [talker, listener]: the command lines,
                    \* and the rates and periods the sound cards support
    StartTime, MaxTime, \* the clock at start; bound: it stops there
    MaxPackets      \* bound: packets of one session

(* A card has no stream of zero channels, no period of no frames, no rate 0. *)
ASSUME SetupsAssumption ==
    \A s \in Setups :
        /\ \A o \in {s.args.talker, s.args.listener} :
              /\ o.channels \in Nat \ {0} /\ o.bit_depth \in Nat
              /\ o.hw_latency \in Nat /\ o.transit_time \in Nat
        /\ \A card \in {s.cards.talker, s.cards.listener} :
              card.rates \subseteq Nat \ {0} /\ card.periods \subseteq Nat \ {0}

ASSUME ClockAssumption == StartTime \in Nat /\ MaxTime \in Nat /\ StartTime <= MaxTime

VARIABLES
    args, cards, now,
    tpc, tset, payload, mic, sent, \* mic: when the next unread frame began
    wire,
    lpc, lset, samples, running, stats, played,
    figures, name   \* printed at the end; time the recording is named after

host  == <<args, cards>>
tvars == <<tpc, tset, payload, mic, sent>>
lvars == <<lpc, lset, samples, running, stats, played, figures, name>>
svars == <<host, now, tvars, wire, lvars, wvars>>

None == <<>>

SessionInit ==
    /\ \E setup \in Setups : args = setup.args /\ cards = setup.cards
    /\ now = StartTime
    /\ tpc = "start" /\ lpc = "start"
    /\ tset = settings(args.talker) /\ lset = settings(args.listener)
    /\ payload = <<>> /\ mic = 0 /\ sent = 0 /\ wire = <<>>
    /\ samples = <<>> /\ running = FALSE /\ stats = <<>> /\ played = <<>>
    /\ figures = None /\ name = None
    /\ WavInit

(* What a card grants: the rate and the period nearest to those asked for. *)
Granted(set, card) ==
    {avb_alsa_setup(set, rate, period) :
        rate \in Near(card.rates, set.sample_rate),
        period \in Near(card.periods, set.hw_latency)}

-----------------------------------------------------------------------------
(* The talker.                                                             *)

Talking == UNCHANGED <<host, now, lvars, wvars>>

(* The command line is refused, or the card cannot be set up: exit(1). *)
TalkerExits ==
    /\ tpc = "start"
    /\ tpc' = "ended"
    /\ Talking /\ UNCHANGED <<tset, payload, mic, sent, wire>>

TalkerStarts ==
    /\ tpc = "start" /\ Accepted(args.talker)
    /\ tset' \in Granted(tset, cards.talker)
    /\ payload' = [i \in 1 .. Capacity(tset') |-> 0]
    /\ mic' = now
    /\ tpc' = "run"
    /\ Talking /\ UNCHANGED <<sent, wire>>

(* The payload after k frames were read into the front of it. *)
Filled(k) == [i \in DOMAIN payload |->
    IF i <= k THEN mic + Duration(i - 1, tset) ELSE payload[i]]

ReadEnd == mic + Duration(tset.frames_per_pdu, tset)

(* Mutant: the packet carries the previous payload. *)
packet_before_read(ok) ==
    [fields |-> init_pdu(tset), len |-> tset.pdu_size,
     ts |-> calculate_avtp_time(now, tset.max_transit_time),
     payload |-> payload,
     origin |-> [k |-> sent + 1, sent |-> now, ok |-> ok, first |-> mic,
                 behind |-> now - ReadEnd]]

(* The packet; origin is history: its number, when it was sent, whether    *)
(* the read was complete, its first frame and how long the talker took.    *)
Packet(ok) ==
    [fields |-> init_pdu(tset), len |-> tset.pdu_size,
     ts |-> calculate_avtp_time(now, tset.max_transit_time),
     payload |-> payload',
     origin |-> [k |-> sent + 1, sent |-> now, ok |-> ok, first |-> mic,
                 behind |-> now - ReadEnd]]

SendPacket(ok) ==
    /\ tpc = "run" /\ sent < MaxPackets
    /\ sent' = sent + 1
    /\ wire' = Append(wire, Packet(ok))
    /\ Talking /\ UNCHANGED <<tset, tpc>>

(* One iteration of the loop: a period is read, stamped and sent. *)
ReadAndSend ==
    /\ tpc = "run" /\ now >= ReadEnd
    /\ tset.frames_per_pdu <= Capacity(tset)
    /\ payload' = Filled(tset.frames_per_pdu)
    /\ mic' = ReadEnd
    /\ SendPacket(TRUE)

(* The period is longer than the payload: the read writes past the end of  *)
(* it, and the process goes on or does not.                                *)
ReadTooMuch ==
    /\ tpc = "run" /\ now >= ReadEnd
    /\ tset.frames_per_pdu > Capacity(tset)
    /\ \/ /\ payload' = Filled(tset.frames_per_pdu)
          /\ mic' = ReadEnd
          /\ SendPacket(TRUE)
       \/ /\ tpc' = "ended"
          /\ Talking /\ UNCHANGED <<tset, payload, mic, sent, wire>>

(* An overrun restarts the capture, an error leaves it, a short read       *)
(* delivers less: the packet is sent all the same, with what the payload   *)
(* held before behind what was read.                                       *)
ReadFails ==
    /\ tpc = "run"
    /\ \/ payload' = payload /\ mic' \in {mic, now}
       \/ \E k \in 1 .. tset.frames_per_pdu - 1 :
             /\ now >= mic + Duration(k, tset)
             /\ payload' = Filled(k) /\ mic' = mic + Duration(k, tset)
    /\ SendPacket(FALSE)

(* ESC, or sendto failed. *)
TalkerEnds ==
    /\ tpc = "run"
    /\ tpc' = "ended"
    /\ Talking /\ UNCHANGED <<tset, payload, mic, sent, wire>>

Talker == \/ TalkerExits \/ TalkerStarts \/ ReadAndSend \/ ReadTooMuch
          \/ ReadFails \/ TalkerEnds

-----------------------------------------------------------------------------
(* The listener.                                                           *)

Listening == UNCHANGED <<host, now, tvars>>
WavReady == wpc \in {"unused", "idle"}

ListenerExits ==
    /\ lpc = "start"
    /\ lpc' = "ended"
    /\ Listening
    /\ UNCHANGED <<wire, lset, samples, running, stats, played, figures, name, wvars>>

ListenerStarts ==
    /\ lpc = "start" /\ Accepted(args.listener)
    /\ lset' \in Granted(lset, cards.listener)
    /\ lpc' = "run"
    /\ wpc' = IF args.listener.file THEN "open" ELSE "unused"
    /\ Listening
    /\ UNCHANGED <<wire, samples, running, stats, played, figures, name>>
    /\ UNCHANGED <<g_err, mem, disk, pend, pos, save_pos>>

(* The calls of libwav between those of the loop. *)
RecorderStep ==
    /\ lpc = "run"
    /\ setup_wav_recorder(lset) \/ wav_update_sizes
    /\ lpc' = IF wpc' = "aborted" THEN "ended" ELSE lpc
    /\ Listening
    /\ UNCHANGED <<wire, lset, samples, running, stats, played, figures, name>>

Receiving ==
    /\ lpc = "run" /\ WavReady
    /\ wire # <<>>
    /\ wire' = Tail(wire)
    /\ Listening
    /\ UNCHANGED <<lset, running, played, figures, name, wvars>>

(* recv returns at most the listener's own packet length: a longer packet  *)
(* is cut, a shorter one ends the session.                                 *)
ShortPacket ==
    /\ Receiving
    /\ Head(wire).len < lset.pdu_size
    /\ lpc' = "end"
    /\ UNCHANGED <<samples, stats>>

Late(p) == IsLate(p.ts, now) /\ samples = <<>>

DropPacket ==
    /\ Receiving
    /\ LET p == Head(wire) IN
          /\ p.len >= lset.pdu_size
          /\ ~ValidFormat(p.fields, lset) \/ Late(p)
    /\ UNCHANGED <<lpc, samples, stats>>

(* new_packet: a node of statistics, and the payload, as long as the       *)
(* listener expects it, into the buffer.                                   *)
KeepPacket ==
    /\ Receiving
    /\ LET p == Head(wire)
           presentation == get_presentation_time(p.ts, now)
       IN  /\ p.len >= lset.pdu_size
           /\ ValidFormat(p.fields, lset) /\ ~Late(p)
           /\ stats' = <<[arrival |-> now, presentation |-> presentation,
                          origin |-> p.origin]>> \o stats
           /\ samples' = Append(samples,
                 [due |-> presentation, k |-> p.origin.k,
                  frames |-> SubSeq(p.payload, 1, Capacity(lset))])
    /\ UNCHANGED lpc

Period(frames) == [i \in 1 .. lset.frames_per_pdu |->
    IF i <= Len(frames) THEN frames[i] ELSE 0]

(* play_fragment: a period of frames from the head of the buffer to the    *)
(* card and the file.  One longer than the payload is read from beyond it, *)
(* and the process goes on or does not.                                    *)
PlayFragment ==
    /\ lpc = "run" /\ WavReady
    /\ samples # <<>> /\ (running \/ Head(samples).due <= now)
    /\ played' = Append(played, [k |-> Head(samples).k,
                                 frames |-> Period(Head(samples).frames)])
    /\ samples' = Tail(samples)
    /\ running' = (Tail(samples) # <<>>)
    /\ IF wpc = "unused" THEN UNCHANGED wvars
       ELSE wav_write(lset.frames_per_pdu * FrameBytes(lset))
    /\ \/ lpc' = IF wpc' = "aborted" THEN "ended" ELSE lpc
       \/ lset.frames_per_pdu > Capacity(lset) /\ lpc' = "ended"
    /\ Listening /\ UNCHANGED <<wire, lset, stats, figures, name>>

(* Mutant: the newest packet for the oldest. *)
Newest == stats[1]
Oldest == stats[Len(stats)]

(* ESC, the session timer or an error: figures, and the file's name. *)
EndSession ==
    /\ lpc \in {"run", "end"} /\ WavReady
    /\ Len(stats) >= 2
    /\ figures' \in process_stats(stats, lset)
    /\ IF wpc = "unused" THEN UNCHANGED <<wvars, name>>
       ELSE wav_close /\ name' = <<get_cap_time(Oldest, lset)>>
    /\ lpc' = "ended"
    /\ Listening /\ UNCHANGED <<wire, lset, samples, running, stats, played>>

(* The process dies: killed, or ended with fewer than two packets. *)
ListenerDies ==
    /\ lpc \in {"run", "end"}
    /\ IF wpc = "unused" THEN UNCHANGED wvars ELSE WavKilled
    /\ lpc' = "ended"
    /\ Listening
    /\ UNCHANGED <<wire, lset, samples, running, stats, played, figures, name>>

Listener == \/ ListenerExits \/ ListenerStarts \/ RecorderStep \/ ShortPacket
            \/ DropPacket \/ KeepPacket \/ PlayFragment \/ EndSession
            \/ ListenerDies

(* Time passes.  The calls of libwav are short beside the clock's tick.     *)
Tick == /\ now < MaxTime /\ now' = now + 1
        /\ wpc \in WavSettled \cup {"idle"}
        /\ UNCHANGED <<host, tvars, wire, lvars, wvars>>

(* Once the listener has ended nobody sees what the talker does. *)
SessionNext == (lpc # "ended" /\ (Talker \/ Tick)) \/ Listener

SessionSpec == SessionInit /\ [][SessionNext]_svars

-----------------------------------------------------------------------------
(* Properties.                                                             *)

(* The rates the option's help lists. *)
Documented == {44100, 48000, 96000, 192000}

(* Both cards gave what their command line asked for. *)
AsAsked ==
    /\ tset.sample_rate = args.talker.sample_rate
    /\ lset.sample_rate = args.listener.sample_rate
    /\ tset.hw_latency = args.talker.hw_latency
    /\ lset.hw_latency = args.listener.hw_latency

(* avbperf.c 204-226: a packet that is kept was laid out as the listener   *)
(* reads it, whatever the two command lines were: the same frames in it,   *)
(* of the same size, at the same rate.                                     *)
KeptIsUnderstood ==
    stats # <<>> /\ tpc # "start" /\ AsAsked
        /\ {tset.sample_rate, lset.sample_rate} \subseteq Documented =>
            /\ tset.sample_rate = lset.sample_rate
            /\ tset.channels = lset.channels /\ tset.bit_depth = lset.bit_depth
            /\ tset.frames_per_pdu = lset.frames_per_pdu

Complete(k) == \E i \in DOMAIN stats : stats[i].origin.k = k /\ stats[i].origin.ok

(* When the cards gave what was asked for, a fragment whose read was       *)
(* complete is played as it was captured, and one whose predecessor was    *)
(* complete too continues it without a gap or an overlap.                  *)
PlayedAsCaptured == AsAsked =>
    \A n \in DOMAIN played : Complete(played[n].k) =>
        LET f == played[n].frames IN
        /\ \A i \in DOMAIN f : f[i] = f[1] + Duration(i - 1, tset)
        /\ f[1] >= StartTime
        /\ n > 1 /\ played[n - 1].k = played[n].k - 1 /\ Complete(played[n - 1].k) =>
              f[1] = played[n - 1].frames[1] + Duration(Len(f), tset)

SameTimes ==
    /\ tset.max_transit_time = lset.max_transit_time
    /\ tset.sample_rate = lset.sample_rate
    /\ tset.hw_latency = lset.hw_latency

(* By how many epochs the recovered due time of a packet is off: none when *)
(* it arrives in the epoch it is due in.                                   *)
EpochsOff(node) ==
    node.arrival \div Epoch - (node.origin.sent + tset.max_transit_time) \div Epoch

AllInPlace == \A i \in DOMAIN stats : EpochsOff(stats[i]) = 0

(* avb_stats.c 103-121, 184-186: the capture time computed for a packet is *)
(* that of its first frame plus what the talker was behind, and its travel *)
(* time is its delay.  Both are off by the epochs the recovered due time   *)
(* is, and by nothing else, also around the end of an epoch.               *)
TimesModuloEpochs ==
    tset.max_transit_time = lset.max_transit_time =>
        \A i \in DOMAIN stats :
            LET o == stats[i].origin
                off == Epoch * EpochsOff(stats[i])
            IN  /\ travel(stats[i], lset) = (stats[i].arrival - o.sent - off) % Word
                /\ tset.sample_rate = lset.sample_rate /\ tset.hw_latency = lset.hw_latency
                      => get_cap_time(stats[i], lset) = (o.first + o.behind + off) % Word

(* avb_aaf.c 736-740: a recording is named after the time the first frame  *)
(* in it was captured, plus what the talker was behind with that packet    *)
(* and the epochs its due time is off, if its read was complete.           *)
NamedAfterFirstSound ==
    name # None /\ played # <<>> /\ SameTimes /\ AsAsked /\ Complete(played[1].k) =>
        \E i \in DOMAIN stats :
            /\ stats[i].origin.k = played[1].k
            /\ name = <<(played[1].frames[1] + stats[i].origin.behind
                           + Epoch * EpochsOff(stats[i])) % Word>>

Delays == {stats[i].arrival - stats[i].origin.sent : i \in DOMAIN stats}
Gaps == {stats[i].origin.sent - stats[i + 1].origin.sent : i \in 1 .. Len(stats) - 1}

(* The printed figures are those of the network: travel times are the      *)
(* delays of the packets kept ("transit-time ... must match talker",       *)
(* avbperf.c 62), capture deltas the times between their stamps, when no   *)
(* due time was recovered in another epoch.                                *)
FiguresAreTrue == figures # None /\ AllInPlace =>
    /\ tset.max_transit_time = lset.max_transit_time =>
          figures.travel.min = Min(Delays) /\ figures.travel.max = Max(Delays)
    /\ figures.delta_cap.min = Min(Gaps) /\ figures.delta_cap.max = Max(Gaps)
    /\ figures.travel.count = figures.delta_cap.count + 1

FragmentBytes == lset.frames_per_pdu * FrameBytes(lset)

(* A listener killed at any step loses at most one fragment of sound. *)
LosesAtMostOneFragment == LosesAtMost(FragmentBytes)

(* The header of the recording is that of the stream. *)
HeaderMatchesStream == HeaderMatches(lset)

(* libwav keeps what the listener's model assumes of it. *)
RecorderState ==
    CASE wpc \in {"idle", "flush", "riff", "data_size"} -> "ready"
      [] wpc = "aborted" -> "aborted"
      [] wpc \in {"closed", "killed"} -> "left"
      [] OTHER -> "setup"

(* A fragment counts from the moment its write returns. *)
Fragments == IF disk.len = 0 THEN 0
             ELSE (disk.len \div FragmentBytes) - (IF wpc \in {"riff", "data_size"} THEN 1 ELSE 0)

Rec == INSTANCE Recorder WITH state <- RecorderState, frags <- Fragments, err <- g_err

ImplementsRecorder == Rec!RecorderSpec

(* avb_alsa.c 101, "Update settings with actual latency", and avbperf.c    *)
(* 221-223: one packet carries one period of the sound card.               *)
PayloadIsOnePeriod ==
    /\ tpc = "run" => tset.data_len = tset.frames_per_pdu * FrameBytes(tset)
    /\ lpc = "run" => lset.data_len = lset.frames_per_pdu * FrameBytes(lset)

(* The deviation of the data around the mean that is printed. *)
Deviation(data, mean) ==
    Root(FoldSeq(LAMBDA x, s : s + (x - mean) * (x - mean), 0, data) \div Len(data))

(* avb_stats.c 138: "calc standard deviation." *)
StdIsDeviation == figures # None =>
    /\ figures.travel.std = Deviation(Travels(stats, lset), figures.travel.mean)
    /\ figures.delta_cap.std =
          Deviation(CaptureDeltas(stats, lset), figures.delta_cap.mean)

=============================================================================
