---------------------------- MODULE AvbSettings -----------------------------
(***************************************************************************)
(* The options of avbperf and the stream settings made of them: the command*)
(* line (avbperf/avbperf.c), the negotiation with the sound card           *)
(* (avbperf/avb_alsa.c) and the fields an AAF packet carries               *)
(* (avbperf/avb_aaf.c).  Talker and listener each make their own.          *)
(***************************************************************************)
EXTENDS Integers

CONSTANT Second         \* NSEC_PER_SEC: clock ticks of a second

ASSUME SecondAssumption == Second \in Nat \ {0}

(* sizeof(struct avtp_stream_pdu). *)
HeaderLen == 24

(* ceil(depth / 8.0). *)
Bytes(depth) == (depth + 7) \div 8
FrameBytes(set) == Bytes(set.bit_depth) * set.channels

(* What the three option parsers accept.  All of them see every option:    *)
(* a talker with a file name needs a timeout too.                          *)
Accepted(o) ==
    /\ o.ifname
    /\ o.bit_depth \in {16, 24, 32}
    /\ o.talker => o.dst_addr
    /\ o.prio \in 0 .. 6
    /\ o.file => o.timeout # 0

bit_depth_to_aaf(depth) ==
    CASE depth = 24 -> "INT_24BIT" [] depth = 32 -> "FLOAT_32BIT" [] OTHER -> "INT_16BIT"

(* A rate the format has no code for is announced as 48 kHz. *)
sample_rate_to_aaf(rate) == IF rate \in {44100, 96000, 192000} THEN rate ELSE 48000

(* The settings main() builds; one frame's length stands for the payload's *)
(* until the sound card has answered.                                      *)
settings(o) ==
    [sample_rate |-> o.sample_rate, bit_depth |-> o.bit_depth,
     channels |-> o.channels,
     data_len |-> Bytes(o.bit_depth) * o.channels,
     pdu_size |-> HeaderLen + Bytes(o.bit_depth) * o.channels,
     aaf_sample_rate |-> sample_rate_to_aaf(o.sample_rate),
     aaf_bit_depth |-> bit_depth_to_aaf(o.bit_depth),
     max_transit_time |-> o.transit_time,
     hw_latency |-> o.hw_latency, frames_per_pdu |-> o.hw_latency]

(* The card's nearest value to the one asked for. *)
Distance(x, y) == IF x <= y THEN y - x ELSE x - y
Near(S, x) == {y \in S : \A z \in S : Distance(y, x) <= Distance(z, x)}

(* avb_alsa_setup once the card has granted a rate and a period: the rate  *)
(* replaces the one asked for, but not in the field packets announce, and  *)
(* the payload is sized before the period replaces the latency asked for.  *)
avb_alsa_setup(set, rate, period) ==
    LET data_len == FrameBytes(set) * set.hw_latency
    IN  [set EXCEPT !.sample_rate = rate,
                    !.pdu_size = @ - set.data_len + data_len,
                    !.data_len = data_len,
                    !.hw_latency = period,
                    !.frames_per_pdu = period]

(* Frames the payload has room for. *)
Capacity(set) == set.data_len \div FrameBytes(set)

Duration(frames, set) == (frames * Second) \div set.sample_rate
avb_aaf_hwlatency_to_ns(set) == Duration(set.hw_latency, set)

(* init_pdu: what a packet says of the stream. *)
init_pdu(set) ==
    [format |-> set.aaf_bit_depth, nsr |-> set.aaf_sample_rate,
     channels |-> set.channels, bit_depth |-> set.bit_depth,
     data_len |-> set.data_len]

(* Mutant: the number of channels is not compared. *)
valid_any_channels(fields, set) ==
    fields = [init_pdu(set) EXCEPT !.channels = fields.channels]

(* The format checks of is_valid_packet. *)
ValidFormat(fields, set) ==
    /\ fields.format = set.aaf_bit_depth
    /\ fields.nsr = set.aaf_sample_rate
    /\ fields.channels = set.channels
    /\ fields.bit_depth = set.bit_depth
    /\ fields.data_len = set.data_len

=============================================================================
