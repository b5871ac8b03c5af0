-------------------------- MODULE AvbSession_proofs -------------------------
(***************************************************************************)
(* Theorems about AvbSession, for all command lines and sound cards, any   *)
(* width of the sizes in a recording's header and any point at which the   *)
(* listener is killed: what a kept packet says is understood, and the file *)
(* holds what its header claims.                                           *)
(***************************************************************************)
EXTENDS AvbSession, SequenceTheorems, Numbers

-----------------------------------------------------------------------------
(* The settings.                                                           *)

(* Settings a sound card has answered. *)
Made(set, line, card) ==
    /\ Accepted(line)
    /\ \E rate \in card.rates, period \in card.periods :
          set = avb_alsa_setup(settings(line), rate, period)

SetInv ==
    /\ \E s \in Setups : args = s.args /\ cards = s.cards
    /\ tpc = "start" => tset = settings(args.talker) /\ wire = <<>>
    /\ tpc # "start" => Made(tset, args.talker, cards.talker) \/ wire = <<>>
    /\ tpc = "run" => Made(tset, args.talker, cards.talker)
    /\ lpc = "start" => lset = settings(args.listener) /\ wpc = "unused"
    /\ lset = settings(args.listener) \/ Made(lset, args.listener, cards.listener)
    /\ lpc \in {"run", "end"} => Made(lset, args.listener, cards.listener)
    /\ wpc # "unused" => Made(lset, args.listener, cards.listener)

LEMMA Sides ==
    ASSUME SetInv
    PROVE  /\ args.talker.channels \in Nat \ {0} /\ args.listener.channels \in Nat \ {0}
           /\ args.talker.bit_depth \in Nat /\ args.listener.bit_depth \in Nat
           /\ args.talker.hw_latency \in Nat /\ args.listener.hw_latency \in Nat
           /\ cards.talker.periods \subseteq Nat /\ cards.listener.periods \subseteq Nat
           /\ cards.listener.rates \subseteq Nat
BY SetupsAssumption DEF SetInv

LEMMA Answered ==
    ASSUME NEW line, NEW card, Accepted(line), NEW set \in Granted(settings(line), card)
    PROVE  Made(set, line, card)
BY DEF Granted, Near, Made

LEMMA SetInit == SessionInit => SetInv
BY DEF SessionInit, SetInv, WavInit

LEMMA SetStep == SetInv /\ [SessionNext]_svars => SetInv'
<1> SUFFICES ASSUME SetInv, [SessionNext]_svars PROVE SetInv'
  OBVIOUS
<1>1. CASE TalkerStarts
  <2>1. Made(tset', args.talker, cards.talker)
    BY <1>1, Answered DEF TalkerStarts, SetInv
  <2>2. QED
    BY <1>1, <2>1 DEF TalkerStarts, Talking, host, lvars, wvars, SetInv
<1>2. CASE TalkerExits \/ TalkerEnds \/ (ReadTooMuch /\ tpc' = "ended")
  BY <1>2 DEF TalkerExits, TalkerEnds, ReadTooMuch, SendPacket, Talking, host, lvars, wvars, SetInv
<1>3. ASSUME NEW ok, SendPacket(ok) PROVE SetInv'
  BY <1>3 DEF SendPacket, Talking, host, lvars, wvars, SetInv
<1>4. CASE ListenerStarts
  <2>1. Made(lset', args.listener, cards.listener)
    BY <1>4, Answered DEF ListenerStarts, SetInv
  <2>2. QED
    BY <1>4, <2>1 DEF ListenerStarts, Listening, host, tvars, SetInv
<1>5. CASE RecorderStep \/ PlayFragment \/ EndSession \/ ListenerDies \/ ListenerExits
  <2>1. UNCHANGED <<host, tvars, wire, lset>> /\ lpc' \in {lpc, "ended"}
    BY <1>5 DEF RecorderStep, PlayFragment, EndSession, ListenerDies, ListenerExits, Listening
  <2>2. lpc \in {"run", "end"} \/ wpc' = wpc
    BY <1>5 DEF RecorderStep, PlayFragment, EndSession, ListenerDies, ListenerExits, wvars
  <2>3. QED
    BY <2>1, <2>2 DEF host, tvars, SetInv
<1>6. CASE ShortPacket \/ DropPacket \/ KeepPacket
  <2>1. /\ UNCHANGED <<host, tvars, lset, wpc>> /\ lpc = "run" /\ lpc' \in {"run", "end"}
        /\ wire # <<>>
    BY <1>6 DEF ShortPacket, DropPacket, KeepPacket, Receiving, Listening, wvars
  <2>2. QED
    BY <2>1 DEF host, tvars, SetInv
<1>7. CASE Tick \/ UNCHANGED svars
  BY <1>7 DEF Tick, svars, host, tvars, lvars, wvars, SetInv
<1>8. QED
  BY <1>1, <1>2, <1>3, <1>4, <1>5, <1>6, <1>7
  DEF SessionNext, Talker, Listener, ReadAndSend, ReadTooMuch, ReadFails

(* The settings are those of the command line and the card. *)
THEOREM SettingsCorrect == SessionSpec => []SetInv
BY SetInit, SetStep, PTL DEF SessionSpec

-----------------------------------------------------------------------------
(* What a kept packet says.                                                *)

LEMMA MadeFields ==
    ASSUME NEW line, NEW card, NEW set, Made(set, line, card)
    PROVE  /\ set.channels = line.channels /\ set.bit_depth = line.bit_depth
           /\ set.aaf_sample_rate = sample_rate_to_aaf(line.sample_rate)
           /\ set.data_len = FrameBytes(set) * line.hw_latency
           /\ set.frames_per_pdu = set.hw_latency /\ set.hw_latency \in card.periods
           /\ set.bit_depth \in {16, 24, 32} /\ set.sample_rate \in card.rates
<1>1. PICK rate \in card.rates, period \in card.periods :
          set = avb_alsa_setup(settings(line), rate, period)
  BY DEF Made
<1>2. /\ set.channels = line.channels /\ set.bit_depth = line.bit_depth
      /\ set.aaf_sample_rate = sample_rate_to_aaf(line.sample_rate)
      /\ set.data_len = FrameBytes(settings(line)) * line.hw_latency
      /\ set.frames_per_pdu = period /\ set.hw_latency = period /\ set.sample_rate = rate
  BY <1>1 DEF avb_alsa_setup, settings
<1>3. FrameBytes(settings(line)) = FrameBytes(set)
  BY <1>2 DEF FrameBytes, settings
<1>4. QED
  BY <1>2, <1>3 DEF Made, Accepted

(* Every packet on the wire describes the talker's settings; one that was  *)
(* kept passed the comparison with the listener's.                         *)
KeptInv ==
    /\ \E S : wire \in Seq(S) /\ \A p \in S : p.fields = init_pdu(tset)
    /\ tpc = "start" \/ lpc = "start" => stats = <<>>
    /\ stats # <<>> =>
          /\ Made(tset, args.talker, cards.talker)
          /\ Made(lset, args.listener, cards.listener)
          /\ ValidFormat(init_pdu(tset), lset)

LEMMA SentPacket ==
    ASSUME SetInv, KeptInv, NEW ok, SendPacket(ok) PROVE KeptInv'
<1>1. /\ wire' = Append(wire, Packet(ok)) /\ tset' = tset
      /\ UNCHANGED <<host, stats, lset, lpc, tpc>>
  BY DEF SendPacket, Talking, lvars
<1>2. PICK S : wire \in Seq(S) /\ \A p \in S : p.fields = init_pdu(tset)
  BY DEF KeptInv
<1>3. Packet(ok).fields = init_pdu(tset)
  BY DEF Packet
<1> DEFINE more == S \cup {Packet(ok)}
<1>4. wire \in Seq(more)
  BY <1>2, SeqMonotonic
<1>5. wire' \in Seq(more)
  BY <1>1, <1>4
<1>6. \A p \in more : p.fields = init_pdu(tset)
  BY <1>2, <1>3
<1>7. QED
  BY <1>1, <1>5, <1>6 DEF KeptInv, host

LEMMA KeptInit == SessionInit => KeptInv
<1>1. SessionInit => wire = <<>> /\ stats = <<>>
  BY DEF SessionInit
<1>2. <<>> \in Seq({})
  OBVIOUS
<1>3. QED
  BY <1>1, <1>2 DEF KeptInv

LEMMA KeptStep == SetInv /\ KeptInv /\ [SessionNext]_svars => KeptInv'
<1> SUFFICES ASSUME SetInv, KeptInv, [SessionNext]_svars PROVE KeptInv'
  OBVIOUS
<1>1. ASSUME NEW ok, SendPacket(ok) PROVE KeptInv'
  BY <1>1, SentPacket
<1>2. CASE TalkerStarts \/ ListenerStarts
  <2>1. /\ UNCHANGED <<wire, stats, host>> /\ stats = <<>>
        /\ tset' = tset \/ wire = <<>>
    BY <1>2 DEF TalkerStarts, ListenerStarts, Talking, Listening, lvars, tvars, SetInv, KeptInv
  <2>2. \E S : wire \in Seq(S) /\ \A p \in S : p.fields = init_pdu(tset')
    <3>1. CASE tset' = tset
      BY <3>1 DEF KeptInv
    <3>2. CASE wire = <<>>
      <4>1. <<>> \in Seq({})
        OBVIOUS
      <4>2. wire \in Seq({}) /\ \A p \in {} : p.fields = init_pdu(tset')
        BY <3>2, <4>1
      <4>3. QED
        BY <4>2
    <3>3. QED
      BY <2>1, <3>1, <3>2
  <2>3. QED
    BY <2>1, <2>2 DEF KeptInv
<1>3. CASE \/ TalkerExits \/ TalkerEnds \/ (ReadTooMuch /\ tpc' = "ended") \/ RecorderStep
           \/ PlayFragment \/ EndSession \/ ListenerDies \/ ListenerExits \/ Tick
           \/ UNCHANGED svars
  <2>1. CASE \E ok \in {TRUE} : SendPacket(ok)
    BY <1>1, <2>1
  <2>2. CASE ~SendPacket(TRUE)
    <3>1. UNCHANGED <<host, wire, stats, tset, lset>> /\ lpc' \in {lpc, "ended"}
          /\ tpc' \in {tpc, "ended"}
      BY <1>3, <2>2 DEF TalkerExits, TalkerEnds, ReadTooMuch, Talking, RecorderStep,
         PlayFragment, EndSession, ListenerDies, ListenerExits, Listening, Tick, svars,
         lvars, tvars
    <3>2. QED
      BY <3>1 DEF KeptInv, host
  <2>3. QED
    BY <2>1, <2>2
<1>4. CASE ShortPacket \/ DropPacket \/ KeepPacket
  <2>1. /\ UNCHANGED <<host, tvars, lset>> /\ wire # <<>> /\ wire' = Tail(wire)
        /\ lpc = "run" /\ lpc' \in {"run", "end"}
    BY <1>4 DEF ShortPacket, DropPacket, KeepPacket, Receiving, Listening
  <2>2. PICK S : wire \in Seq(S) /\ \A p \in S : p.fields = init_pdu(tset)
    BY DEF KeptInv
  <2>3. Head(wire) \in S /\ wire' \in Seq(S)
    BY <2>1, <2>2, HeadTailProperties
  <2>4. \E T : wire' \in Seq(T) /\ \A p \in T : p.fields = init_pdu(tset')
    BY <2>1, <2>2, <2>3 DEF tvars
  <2>5. tpc' # "start" /\ lpc' # "start" /\ UNCHANGED <<args, cards, tset, lset>>
    BY <2>1 DEF tvars, host, SetInv
  <2>6. CASE stats' = stats
    BY <2>4, <2>5, <2>6 DEF KeptInv
  <2>7. CASE KeepPacket
    <3>1. ValidFormat(Head(wire).fields, lset)
      BY <2>7 DEF KeepPacket
    <3>2. ValidFormat(init_pdu(tset), lset)
      BY <2>2, <2>3, <3>1
    <3>3. Made(tset, args.talker, cards.talker) /\ Made(lset, args.listener, cards.listener)
      BY <2>1 DEF SetInv
    <3>4. QED
      BY <2>4, <2>5, <3>2, <3>3 DEF KeptInv
  <2>8. QED
    BY <1>4, <2>6, <2>7 DEF ShortPacket, DropPacket
<1>5. QED
  BY <1>1, <1>2, <1>3, <1>4 DEF SessionNext, Talker, Listener, ReadAndSend, ReadTooMuch, ReadFails

LEMMA Cancel ==
    ASSUME NEW a \in Nat \ {0}, NEW b \in Nat, NEW c \in Nat, a * b = a * c
    PROVE  b = c
<1>1. CASE b < c
  <2>1. PICK d \in Int : d = c - b /\ d >= 1
    BY <1>1
  <2>2. a * d >= a
    BY <2>1, PositiveMultiple
  <2>3. a * d = a * c - a * b
    BY <2>1, Z3
  <2>4. QED
    BY <2>2, <2>3, Z3
<1>2. CASE c < b
  <2>1. PICK d \in Int : d = b - c /\ d >= 1
    BY <1>2
  <2>2. a * d >= a
    BY <2>1, PositiveMultiple
  <2>3. a * d = a * b - a * c
    BY <2>1, Z3
  <2>4. QED
    BY <2>2, <2>3, Z3
<1>3. QED
  BY <1>1, <1>2

(* Of the documented rates each has a code of its own. *)
LEMMA RateAnnounced ==
    ASSUME NEW a \in Documented, NEW b \in Documented,
           sample_rate_to_aaf(a) = sample_rate_to_aaf(b)
    PROVE  a = b
BY DEF Documented, sample_rate_to_aaf

LEMMA FrameBytesPositive ==
    ASSUME NEW set, set.channels \in Nat \ {0}, set.bit_depth \in {16, 24, 32}
    PROVE  FrameBytes(set) \in Nat \ {0}
<1>1. Bytes(16) = 2 /\ Bytes(24) = 3 /\ Bytes(32) = 4
  BY DEF Bytes
<1>2. PICK b \in Nat \ {0}, c \in Nat \ {0} : b = Bytes(set.bit_depth) /\ c = set.channels
  BY <1>1
<1>3. b * c \in Nat \ {0}
  BY Z3
<1>4. QED
  BY <1>2, <1>3 DEF FrameBytes

LEMMA KeptImplies == SetInv /\ KeptInv => KeptIsUnderstood
<1> SUFFICES ASSUME SetInv, KeptInv, stats # <<>>, AsAsked,
                    {tset.sample_rate, lset.sample_rate} \subseteq Documented
             PROVE  /\ tset.sample_rate = lset.sample_rate
                    /\ tset.channels = lset.channels /\ tset.bit_depth = lset.bit_depth
                    /\ tset.frames_per_pdu = lset.frames_per_pdu
  BY DEF KeptIsUnderstood
<1>1. /\ Made(tset, args.talker, cards.talker) /\ Made(lset, args.listener, cards.listener)
      /\ ValidFormat(init_pdu(tset), lset)
  BY DEF KeptInv
<1>2. /\ tset.aaf_sample_rate = lset.aaf_sample_rate /\ tset.channels = lset.channels
      /\ tset.bit_depth = lset.bit_depth /\ tset.data_len = lset.data_len
  BY <1>1 DEF ValidFormat, init_pdu
<1>3. tset.sample_rate = lset.sample_rate
  BY <1>1, <1>2, MadeFields, RateAnnounced DEF AsAsked
<1>4. FrameBytes(tset) = FrameBytes(lset)
  BY <1>2 DEF FrameBytes
<1>5. /\ FrameBytes(lset) \in Nat \ {0}
      /\ tset.frames_per_pdu = args.talker.hw_latency
      /\ lset.frames_per_pdu = args.listener.hw_latency
      /\ args.talker.hw_latency \in Nat /\ args.listener.hw_latency \in Nat
  BY <1>1, MadeFields, Sides, FrameBytesPositive DEF AsAsked
<1>6. FrameBytes(lset) * args.talker.hw_latency = FrameBytes(lset) * args.listener.hw_latency
  <2>1. tset.data_len = FrameBytes(tset) * args.talker.hw_latency
    BY <1>1, MadeFields
  <2>2. lset.data_len = FrameBytes(lset) * args.listener.hw_latency
    BY <1>1, MadeFields
  <2>3. QED
    BY <1>2, <1>4, <2>1, <2>2, Zenon
<1>7. args.talker.hw_latency = args.listener.hw_latency
  BY <1>5, <1>6, Cancel
<1>8. QED
  BY <1>2, <1>3, <1>5, <1>7

(* A packet that is kept was laid out as the listener reads it, whatever   *)
(* the two command lines and cards, when the cards gave what was asked.    *)
THEOREM KeptPacketsAreUnderstood == SessionSpec => []KeptIsUnderstood
BY KeptInit, KeptStep, KeptImplies, SettingsCorrect, PTL DEF SessionSpec

-----------------------------------------------------------------------------
(* The recording.                                                          *)

(* A format of c channels of b bytes at the rate r. *)
Fmt(tag, c, r, b) ==
    [tag |-> tag, num_channels |-> c, sample_rate |-> r, avg_bytes_per_sec |-> (b * c) * r,
     block_align |-> b * c, bits_per_sample |-> 8 * b]

CD == 44100
Tag == IF lset.bit_depth = 32 THEN "FLOAT" ELSE "PCM"
SampleBytes == Bytes(lset.bit_depth)

Setters == {"format", "format_done", "size", "channels", "rate"}

(* The format before each of the setters, and after the last. *)
Format(f) ==
    /\ wpc = "format" => f = Fmt("PCM", 2, CD, 2)
    /\ wpc = "format_done" => lset.bit_depth = 32 /\ f = Fmt("FLOAT", 2, CD, 4)
    /\ wpc = "size" => \E b \in {2, 4} : f = Fmt(Tag, 2, CD, b)
    /\ wpc = "channels" => f = Fmt(Tag, 2, CD, SampleBytes)
    /\ wpc = "rate" => f = Fmt(Tag, lset.channels, CD, SampleBytes)
    /\ wpc \notin Setters => f = Fmt(Tag, lset.channels, lset.sample_rate, SampleBytes)

(* A header for w bytes of sound in memory; one for r and w bytes in a     *)
(* file that holds len.                                                    *)
MemIs(f, w) ==
    mem = [fmt |-> f, riff |-> (DataOffset - 8 + w) % SizeMod, size |-> w % SizeMod]
DiskIs(f, r, w, len) ==
    disk = [fmt |-> f, riff |-> (DataOffset - 8 + r) % SizeMod, size |-> w % SizeMod,
            len |-> len]

Unopened ==
    /\ wpc \in {"unused", "open"}
    /\ mem = Header /\ disk = [fmt |-> DefaultFmt, riff |-> 0, size |-> 0, len |-> 0]
    /\ pend = {}

BeingSet(f) ==
    /\ wpc \in Setters
    /\ MemIs(f, 0) /\ DiskIs(f, 0, 0, 0) /\ pos = DataOffset /\ pend = {"data_header"}

Settled(f, w) ==
    /\ wpc \in {"idle", "closed"}
    /\ MemIs(f, w) /\ DiskIs(f, w, w, w) /\ pos = DataOffset + w
    /\ pend \subseteq {"data_header"}

(* A fragment of n bytes is being written behind w bytes. *)
Writing(f, w, n) ==
    /\ MemIs(f, w + n) /\ save_pos = DataOffset + w + n
    /\ \/ /\ wpc = "flush" /\ pos = save_pos /\ DiskIs(f, w, w, w)
          /\ "data" \in pend /\ pend \subseteq {"data_header", "data"}
       \/ wpc = "riff" /\ pend = {"riff"} /\ DiskIs(f, w, w, w + n)
       \/ wpc = "data_size" /\ pend = {"new_size"} /\ DiskIs(f, w + n, w, w + n)

(* The library and the file, as long as nothing has failed. *)
FileInv == ~g_err /\ wpc # "killed" =>
    \/ Unopened
    \/ \E f : /\ Format(f)
              /\ \/ BeingSet(f)
                 \/ \E w \in Nat : Settled(f, w) \/ Writing(f, w, FragmentBytes)

LEMMA FragmentNat ==
    ASSUME SetInv PROVE FragmentBytes \in Nat
<1>1. CASE lset = settings(args.listener)
  <2>1. /\ lset.frames_per_pdu \in Nat /\ lset.channels \in Nat /\ lset.bit_depth \in Nat
    BY <1>1, Sides DEF settings
  <2>2. PICK b \in Nat : b = Bytes(lset.bit_depth)
    BY <2>1 DEF Bytes
  <2>3. QED
    BY <2>1, <2>2 DEF FragmentBytes, FrameBytes
<1>2. CASE Made(lset, args.listener, cards.listener)
  <2>1. /\ lset.frames_per_pdu \in Nat /\ lset.channels \in Nat \ {0}
        /\ lset.bit_depth \in {16, 24, 32}
    BY <1>2, MadeFields, Sides
  <2>2. FrameBytes(lset) \in Nat \ {0}
    BY <2>1, FrameBytesPositive
  <2>3. QED
    BY <2>1, <2>2 DEF FragmentBytes
<1>3. QED
  BY <1>1, <1>2 DEF SetInv

LEMMA Zero ==
    /\ 0 % SizeMod = 0 /\ (DataOffset - 8 + 0) % SizeMod = (DataOffset - 8) % SizeMod
    /\ DataOffset = 44
<1>1. SizeMod = SizeMod /\ 0 = SizeMod * 0 /\ 0 \in Int /\ SizeMod \in Nat \ {0}
  BY SizeModAssumption
<1>2. 0 % SizeMod = 0
  BY <1>1, MultipleModulo
<1>3. DataOffset = 44 /\ DataOffset - 8 + 0 = DataOffset - 8
  BY DEF DataOffset
<1>4. QED
  BY <1>2, <1>3, Zenon

(* A header that is written whole is the one in memory. *)
LEMMA HeaderWritten ==
    ASSUME NEW h, NEW next, wav_write_header(h, next), NEW f,
           h = [fmt |-> f, riff |-> (DataOffset - 8) % SizeMod, size |-> 0],
           NEW e, NEW r, disk = [fmt |-> e, riff |-> r, size |-> 0, len |-> 0],
           ~g_err'
    PROVE  /\ wpc' = next /\ MemIs(f, 0)' /\ DiskIs(f, 0, 0, 0)'
           /\ pos' = DataOffset /\ pend' = {"data_header"}
<1>1. /\ mem' = h /\ disk' = [disk EXCEPT !.fmt = h.fmt, !.riff = h.riff]
      /\ pend' = {"data_header"} /\ pos' = DataOffset /\ wpc' = next
  BY DEF wav_write_header
<1>2. disk' = [fmt |-> f, riff |-> (DataOffset - 8) % SizeMod, size |-> 0, len |-> 0]
  BY <1>1
<1>3. QED
  BY <1>1, <1>2, Zero, Zenon DEF MemIs, DiskIs

(* A format, field by field. *)
Fields(tag, c, r, avg, align, bits) ==
    [tag |-> tag, num_channels |-> c, sample_rate |-> r, avg_bytes_per_sec |-> avg,
     block_align |-> align, bits_per_sample |-> bits]

LEMMA FormatFields ==
    ASSUME NEW t, NEW c, NEW r, NEW b
    PROVE  Fmt(t, c, r, b) = Fields(t, c, r, (b * c) * r, b * c, 8 * b)
BY Zenon DEF Fmt, Fields

(* What the setters make of the fields, and of a format. *)
LEMMA FieldsSized ==
    ASSUME NEW t, NEW r \in Nat, NEW b \in Nat, NEW v, NEW w, NEW z,
           NEW g, g = Fields(t, 2, r, v, w, z), NEW h, h = WithSampleSize(g, b)
    PROVE  h = Fields(t, 2, r, (b * 2) * r, b * 2, b * 8)
BY DEF WithSampleSize, Fields

LEMMA FieldsWithChannels ==
    ASSUME NEW t, NEW r \in Nat, NEW c \in Nat, NEW w \in Nat, NEW v, NEW z,
           NEW g, g = Fields(t, 2, r, v, w, z), NEW h, h = WithChannels(g, c)
    PROVE  h = Fields(t, c, r, ((w \div 2) * c) * r, (w \div 2) * c, z)
BY DEF WithChannels, Fields

LEMMA FieldsWithRate ==
    ASSUME NEW t, NEW c \in Nat, NEW q, NEW r \in Nat, NEW w \in Nat, NEW v, NEW z,
           NEW g, g = Fields(t, c, q, v, w, z), NEW h, h = WithRate(g, r)
    PROVE  h = Fields(t, c, r, w * r, w, z)
BY DEF WithRate, Fields

LEMMA FieldsFloat ==
    ASSUME NEW t, NEW c, NEW r, NEW w, NEW v, NEW z,
           NEW g, g = Fields(t, c, r, v, w, z), NEW h, h = [g EXCEPT !.tag = "FLOAT"]
    PROVE  h = Fields("FLOAT", c, r, v, w, z)
BY DEF Fields

LEMMA MadeFloat ==
    ASSUME NEW r, NEW a, NEW g, g = Fmt("PCM", 2, r, a), NEW h, h = [g EXCEPT !.tag = "FLOAT"]
    PROVE  h = Fmt("FLOAT", 2, r, a)
<1>1. g = Fields("PCM", 2, r, (a * 2) * r, a * 2, 8 * a)
  BY FormatFields, Zenon
<1>2. h = Fields("FLOAT", 2, r, (a * 2) * r, a * 2, 8 * a)
  BY <1>1, FieldsFloat
<1>3. QED
  BY <1>2, FormatFields, Zenon

LEMMA SampleSizeSet ==
    ASSUME NEW t, NEW r \in Nat, NEW a, NEW b \in Nat, NEW g, g = Fmt(t, 2, r, a),
           NEW h, h = WithSampleSize(g, b)
    PROVE  h = Fmt(t, 2, r, b)
<1>1. g = Fields(t, 2, r, (a * 2) * r, a * 2, 8 * a)
  BY FormatFields, Zenon
<1>2. h = Fields(t, 2, r, (b * 2) * r, b * 2, b * 8)
  BY <1>1, FieldsSized
<1>3. b * 8 = 8 * b
  OBVIOUS
<1>4. QED
  BY <1>2, <1>3, FormatFields, Zenon

LEMMA ChannelsSet ==
    ASSUME NEW t, NEW c \in Nat, NEW r \in Nat, NEW b \in Nat, NEW g, g = Fmt(t, 2, r, b),
           NEW h, h = WithChannels(g, c)
    PROVE  h = Fmt(t, c, r, b)
<1>1. g = Fields(t, 2, r, (b * 2) * r, b * 2, 8 * b)
  BY FormatFields, Zenon
<1>2. b * 2 \in Nat /\ (b * 2) \div 2 = b
  OBVIOUS
<1>3. h = Fields(t, c, r, (b * c) * r, b * c, 8 * b)
  BY <1>1, <1>2, FieldsWithChannels
<1>4. QED
  BY <1>3, FormatFields, Zenon

LEMMA RateSet ==
    ASSUME NEW t, NEW c \in Nat, NEW q, NEW r \in Nat, NEW b \in Nat, NEW g,
           g = Fmt(t, c, q, b), NEW h, h = WithRate(g, r)
    PROVE  h = Fmt(t, c, r, b)
<1>1. g = Fields(t, c, q, (b * c) * q, b * c, 8 * b)
  BY FormatFields, Zenon
<1>2. b * c \in Nat
  OBVIOUS
<1>3. h = Fields(t, c, r, (b * c) * r, b * c, 8 * b)
  BY <1>1, <1>2, FieldsWithRate
<1>4. QED
  BY <1>3, FormatFields, Zenon

LEMMA Rewritten ==
    ASSUME NEW f, BeingSet(f), NEW g, NEW next, wav_write_header([mem EXCEPT !.fmt = g], next),
           ~g_err'
    PROVE  /\ wpc' = next /\ MemIs(g, 0)' /\ DiskIs(g, 0, 0, 0)'
           /\ pos' = DataOffset /\ pend' = {"data_header"}
<1>1. PICK h : h = [mem EXCEPT !.fmt = g]
  BY Zenon
<1>2. mem = [fmt |-> f, riff |-> (DataOffset - 8) % SizeMod, size |-> 0]
  BY Zero, Zenon DEF BeingSet, MemIs
<1>3. h = [fmt |-> g, riff |-> (DataOffset - 8) % SizeMod, size |-> 0]
  BY <1>1, <1>2
<1>4. PICK r : disk = [fmt |-> f, riff |-> r, size |-> 0, len |-> 0]
  BY Zero, Zenon DEF BeingSet, DiskIs
<1>5. wav_write_header(h, next)
  BY <1>1, Zenon
<1>6. QED
  BY <1>3, <1>4, <1>5, HeaderWritten, Zenon

LEMMA NothingBehind == 0 \in Nat /\ DataOffset + 0 = DataOffset
BY DEF DataOffset

LEMMA Landed ==
    ASSUME NEW f, Format(f)', wpc' \in Setters \cup {"idle"}, MemIs(f, 0)', DiskIs(f, 0, 0, 0)',
           pos' = DataOffset, pend' = {"data_header"}
    PROVE  FileInv'
<1>1. CASE wpc' \in Setters
  BY <1>1 DEF FileInv, BeingSet
<1>2. CASE wpc' = "idle"
  <2>1. 0 \in Nat /\ DataOffset + 0 = DataOffset
    BY NothingBehind
  <2>2. Settled(f, 0)'
    BY <1>2, <2>1 DEF Settled
  <2>3. QED
    BY <2>1, <2>2 DEF FileInv
<1>3. QED
  BY <1>1, <1>2

LEMMA DefaultFormat == DefaultFmt = Fmt("PCM", 2, CD, 2)
<1>1. CD * 2 * 2 = (2 * 2) * CD /\ 4 = 2 * 2 /\ 16 = 8 * 2
  BY DEF CD
<1>2. DefaultFmt = Fields("PCM", 2, CD, CD * 2 * 2, 4, 16)
  BY DEF DefaultFmt, Fields, CD
<1>3. QED
  BY <1>1, <1>2, FormatFields, Zenon

LEMMA SetterStep ==
    ASSUME SetInv, FileInv, lset' = lset, setup_wav_recorder(lset), ~g_err' PROVE FileInv'
<1>1. ~g_err /\ wpc \in Setters \cup {"open"}
  BY DEF setup_wav_recorder, wav_open, wav_set_format, WriteFormat, wav_set_sample_size,
     wav_set_num_channels, wav_set_sample_rate, NoHeader, wav_write_header, Setters
<1>2. Made(lset, args.listener, cards.listener)
  BY <1>1 DEF SetInv, Setters
<1>3. /\ SampleBytes \in Nat /\ lset.channels \in Nat /\ lset.sample_rate \in Nat
      /\ CD \in Nat /\ 2 \in Nat /\ 4 \in Nat
      /\ lset.bit_depth = 32 => Tag = "FLOAT"
      /\ lset.bit_depth # 32 => Tag = "PCM"
  <2>1. lset.channels \in Nat /\ lset.bit_depth \in {16, 24, 32} /\ lset.sample_rate \in Nat
    BY <1>2, MadeFields, Sides
  <2>2. QED
    BY <2>1 DEF SampleBytes, Bytes, CD, Tag
<1>4. CASE wpc = "open"
  <2>1. mem = Header /\ disk = [fmt |-> DefaultFmt, riff |-> 0, size |-> 0, len |-> 0]
    BY <1>1, <1>4 DEF FileInv, Unopened, BeingSet, Settled, Writing, Setters
  <2>2. wav_write_header(mem, "format")
    BY <1>4 DEF setup_wav_recorder, wav_open, wav_set_format, WriteFormat,
       wav_set_sample_size, wav_set_num_channels, wav_set_sample_rate
  <2>3. mem = [fmt |-> DefaultFmt, riff |-> (DataOffset - 8) % SizeMod, size |-> 0]
    BY <2>1 DEF Header
  <2>4. /\ wpc' = "format" /\ MemIs(DefaultFmt, 0)' /\ DiskIs(DefaultFmt, 0, 0, 0)'
        /\ pos' = DataOffset /\ pend' = {"data_header"}
    BY <2>1, <2>2, <2>3, HeaderWritten, Zenon
  <2>5. DefaultFmt = Fmt("PCM", 2, CD, 2)
    BY DefaultFormat
  <2>6. Format(DefaultFmt)'
    BY <2>4, <2>5 DEF Format, Setters
  <2>7. QED
    BY <2>4, <2>6, Landed DEF Setters
<1>5. CASE wpc \in Setters
  <2>1. PICK f : Format(f) /\ BeingSet(f)
    BY <1>1, <1>5 DEF FileInv, Unopened, Settled, Writing, Setters
  <2>2. mem.fmt = f
    BY <2>1 DEF BeingSet, MemIs
  <2>3. ASSUME NEW next \in Setters \cup {"idle"}, NoHeader(next), Format(f)' PROVE FileInv'
    <3>1. MemIs(f, 0)' /\ DiskIs(f, 0, 0, 0)' /\ pos' = DataOffset /\ pend' = {"data_header"}
          /\ wpc' = next
      BY <2>1, <2>3 DEF NoHeader, BeingSet, MemIs, DiskIs
    <3>2. QED
      BY <2>3, <3>1, Landed
  <2>4. ASSUME NEW next \in Setters \cup {"idle"}, NEW g,
               wav_write_header([mem EXCEPT !.fmt = g], next), wpc' = next => Format(g)'
        PROVE  FileInv'
    <3>1. /\ wpc' = next /\ MemIs(g, 0)' /\ DiskIs(g, 0, 0, 0)'
          /\ pos' = DataOffset /\ pend' = {"data_header"}
      BY <2>1, <2>4, Rewritten, Zenon
    <3>2. QED
      BY <2>4, <3>1, Landed
  <2>5. CASE wpc = "format"
    <3>1. f = Fmt("PCM", 2, CD, 2)
      BY <2>1, <2>5 DEF Format
    <3>2. wav_set_format(lset.bit_depth = 32)
      BY <2>5 DEF setup_wav_recorder, wav_open, wav_set_format, WriteFormat,
         wav_set_sample_size, wav_set_num_channels, wav_set_sample_rate
    <3>3. CASE lset.bit_depth = 32
      <4>1. PICK e : e = [mem.fmt EXCEPT !.tag = "FLOAT"]
        BY Zenon
      <4>2. PICK g : g = WithSampleSize(e, 4)
        BY Zenon
      <4>3. wav_write_header([mem EXCEPT !.fmt = g], "format_done")
        BY <3>2, <3>3, <4>1, <4>2, Zenon DEF wav_set_format
      <4>4. e = Fmt("FLOAT", 2, CD, 2)
        BY <2>2, <3>1, <4>1, MadeFloat, Zenon
      <4>5. g = Fmt("FLOAT", 2, CD, 4)
        BY <1>3, <4>2, <4>4, SampleSizeSet
      <4>6. wpc' = "format_done" => Format(g)'
        BY <3>3, <4>5 DEF Format, Setters
      <4>7. "format_done" \in Setters \cup {"idle"}
        BY DEF Setters
      <4>8. QED
        BY <2>4, <4>3, <4>6, <4>7, Zenon
    <3>4. CASE lset.bit_depth # 32
      <4>1. NoHeader("size") /\ "size" \in Setters \cup {"idle"}
        BY <3>2, <3>4 DEF wav_set_format, Setters
      <4>2. Format(f)'
        BY <1>3, <3>1, <3>4, <4>1 DEF NoHeader, Format, Setters, Tag
      <4>3. QED
        BY <2>3, <4>1, <4>2
    <3>5. QED
      BY <3>3, <3>4
  <2>6. CASE wpc = "format_done"
    <3>1. f = Fmt("FLOAT", 2, CD, 4) /\ lset.bit_depth = 32
      BY <2>1, <2>6 DEF Format
    <3>2. wav_write_header(mem, "size")
      BY <2>6 DEF setup_wav_recorder, wav_open, wav_set_format, WriteFormat,
         wav_set_sample_size, wav_set_num_channels, wav_set_sample_rate
    <3>3. mem = [fmt |-> f, riff |-> (DataOffset - 8) % SizeMod, size |-> 0]
      BY <2>1, Zero, Zenon DEF BeingSet, MemIs
    <3>4. PICK r : disk = [fmt |-> f, riff |-> r, size |-> 0, len |-> 0]
      BY <2>1, Zero, Zenon DEF BeingSet, DiskIs
    <3>5. /\ wpc' = "size" /\ MemIs(f, 0)' /\ DiskIs(f, 0, 0, 0)'
          /\ pos' = DataOffset /\ pend' = {"data_header"}
      BY <3>2, <3>3, <3>4, HeaderWritten, Zenon
    <3>6. Format(f)'
      BY <3>1, <3>5 DEF Format, Setters, Tag
    <3>7. QED
      BY <3>5, <3>6, Landed DEF Setters
  <2>7. CASE wpc = "size"
    <3>1. PICK b \in {2, 4} : f = Fmt(Tag, 2, CD, b)
      BY <2>1, <2>7 DEF Format
    <3>2. PICK g : g = WithSampleSize(f, SampleBytes)
      BY Zenon
    <3>3. wav_set_sample_size(Bytes(lset.bit_depth))
      BY <2>7 DEF setup_wav_recorder, wav_open, wav_set_format, WriteFormat,
         wav_set_num_channels, wav_set_sample_rate
    <3>4. wav_write_header([mem EXCEPT !.fmt = g], "channels")
      BY <2>2, <3>2, <3>3, Zenon DEF wav_set_sample_size, SampleBytes
    <3>5. g = Fmt(Tag, 2, CD, SampleBytes)
      BY <1>3, <3>1, <3>2, SampleSizeSet
    <3>6. wpc' = "channels" => Format(g)'
      BY <3>5 DEF Format, Setters, Tag, SampleBytes
    <3>7. "channels" \in Setters \cup {"idle"}
      BY DEF Setters
    <3>8. QED
      BY <2>4, <3>4, <3>6, <3>7, Zenon
  <2>8. CASE wpc = "channels"
    <3>1. f = Fmt(Tag, 2, CD, SampleBytes)
      BY <2>1, <2>8 DEF Format
    <3>2. wav_set_num_channels(lset.channels)
      BY <2>8 DEF setup_wav_recorder, wav_open, wav_set_format, WriteFormat,
         wav_set_sample_size, wav_set_sample_rate
    <3>3. "rate" \in Setters \cup {"idle"}
      BY DEF Setters
    <3>4. CASE lset.channels = mem.fmt.num_channels
      <4>1. lset.channels = 2
        BY <2>2, <3>1, <3>4 DEF Fmt
      <4>2. NoHeader("rate")
        BY <3>2, <3>4 DEF wav_set_num_channels
      <4>3. Format(f)'
        BY <3>1, <4>1, <4>2 DEF NoHeader, Format, Setters, Tag, SampleBytes
      <4>4. QED
        BY <2>3, <3>3, <4>2, <4>3
    <3>5. CASE lset.channels # mem.fmt.num_channels
      <4>1. PICK g : g = WithChannels(f, lset.channels)
        BY Zenon
      <4>2. wav_write_header([mem EXCEPT !.fmt = g], "rate")
        BY <2>2, <3>2, <3>5, <4>1, Zenon DEF wav_set_num_channels
      <4>3. g = Fmt(Tag, lset.channels, CD, SampleBytes)
        BY <1>3, <3>1, <4>1, ChannelsSet
      <4>4. wpc' = "rate" => Format(g)'
        BY <4>3 DEF Format, Setters, Tag, SampleBytes
      <4>5. QED
        BY <2>4, <3>3, <4>2, <4>4, Zenon
    <3>6. QED
      BY <3>4, <3>5
  <2>9. CASE wpc = "rate"
    <3>1. f = Fmt(Tag, lset.channels, CD, SampleBytes)
      BY <2>1, <2>9 DEF Format
    <3>2. wav_set_sample_rate(lset.sample_rate)
      BY <2>9 DEF setup_wav_recorder, wav_open, wav_set_format, WriteFormat,
         wav_set_sample_size, wav_set_num_channels
    <3>3. "idle" \in Setters \cup {"idle"}
      OBVIOUS
    <3>4. CASE lset.sample_rate = mem.fmt.sample_rate
      <4>1. lset.sample_rate = CD
        BY <2>2, <3>1, <3>4 DEF Fmt
      <4>2. NoHeader("idle")
        BY <3>2, <3>4 DEF wav_set_sample_rate
      <4>3. Format(f)'
        BY <3>1, <4>1, <4>2 DEF NoHeader, Format, Setters, Tag, SampleBytes
      <4>4. QED
        BY <2>3, <3>3, <4>2, <4>3
    <3>5. CASE lset.sample_rate # mem.fmt.sample_rate
      <4>1. PICK g : g = WithRate(f, lset.sample_rate)
        BY Zenon
      <4>2. wav_write_header([mem EXCEPT !.fmt = g], "idle")
        BY <2>2, <3>2, <3>5, <4>1, Zenon DEF wav_set_sample_rate
      <4>3. g = Fmt(Tag, lset.channels, lset.sample_rate, SampleBytes)
        BY <1>3, <3>1, <4>1, RateSet
      <4>4. wpc' = "idle" => Format(g)'
        BY <4>3 DEF Format, Setters, Tag, SampleBytes
      <4>5. QED
        BY <2>4, <3>3, <4>2, <4>4, Zenon
    <3>6. QED
      BY <3>4, <3>5
  <2>10. QED
    BY <1>5, <2>5, <2>6, <2>7, <2>8, <2>9 DEF Setters
<1>6. QED
  BY <1>1, <1>4, <1>5

LEMMA MaxOfTwo ==
    ASSUME NEW a \in Int, NEW b \in Int, a <= b PROVE Max({a, b}) = b
<1>1. b \in {a, b} /\ \A y \in {a, b} : b >= y
  OBVIOUS
<1>2. \A x \in {a, b} : (\A y \in {a, b} : x >= y) => x = b
  OBVIOUS
<1>3. QED
  BY <1>1, <1>2 DEF Max

(* What a flush makes of a file whose header is known. *)
LEMMA FlushedIs ==
    ASSUME NEW f, NEW r, NEW z, NEW l, disk = [fmt |-> f, riff |-> r, size |-> z, len |-> l],
           NEW d, d = Flushed
    PROVE  d = [fmt  |-> f,
                riff |-> IF "riff" \in pend THEN mem.riff ELSE r,
                size |-> IF "new_size" \in pend THEN mem.size ELSE z,
                len  |-> IF "data" \in pend THEN Max({l, pos - DataOffset}) ELSE l]
BY DEF Flushed

LEMMA WriteStep ==
    ASSUME SetInv, FileInv, lset' = lset, wav_write(FragmentBytes), ~g_err' PROVE FileInv'
<1>1. PICK n \in Nat : n = FragmentBytes
  BY FragmentNat
<1>2. wpc = "idle" /\ ~g_err
  BY DEF wav_write, TellAborts, WriteRefused, WriteData, WriteDataFails, CanWrite, wvars
<1>3a. PICK f : Format(f) /\ \E w \in Nat : Settled(f, w)
  BY <1>2 DEF FileInv, Unopened, BeingSet, Setters, Writing
<1>3. PICK w \in Nat : Format(f) /\ Settled(f, w)
  BY <1>3a
<1>4. WriteData(n)
  <2>1. pos = DataOffset + w /\ DataOffset = 44
    BY <1>3, Zero DEF Settled
  <2>2. ~TellAborts
    BY <2>1 DEF TellAborts
  <2>3. ~WriteRefused /\ ~WriteDataFails(FragmentBytes)
    BY <1>2 DEF WriteRefused, WriteDataFails
  <2>4. QED
    BY <1>1, <2>2, <2>3 DEF wav_write
<1>5. PICK x \in Int, y \in Int : x = (DataOffset - 8 + w) % SizeMod /\ y = w % SizeMod
  BY SizeModAssumption, Zero
<1>6. mem = [fmt |-> f, riff |-> x, size |-> y]
  BY <1>3, <1>5 DEF Settled, MemIs
<1>7. mem' = [fmt |-> f, riff |-> (x + n) % SizeMod, size |-> (y + n) % SizeMod]
  BY <1>4, <1>6 DEF WriteData, Grown
<1>8. /\ (x + n) % SizeMod = (DataOffset - 8 + w + n) % SizeMod
      /\ (y + n) % SizeMod = (w + n) % SizeMod
  <2>1. PICK a \in Int : a = DataOffset - 8 + w
    BY Zero
  <2>2. w \in Int /\ n \in Int
    OBVIOUS
  <2>3. QED
    BY <1>5, <2>1, <2>2, SumModulo, SizeModAssumption, Zenon
<1>9. DataOffset - 8 + w + n = DataOffset - 8 + (w + n) /\ w + n \in Nat
  BY Zero
<1>10. MemIs(f, w + n)'
  BY <1>7, <1>8, <1>9, Zenon DEF MemIs
<1>11. /\ wpc' = "flush" /\ DiskIs(f, w, w, w)' /\ "data" \in pend'
       /\ pend' \subseteq {"data_header", "data"} /\ save_pos' = pos + n /\ pos' = pos + n
       /\ pos = DataOffset + w
  BY <1>3, <1>4 DEF WriteData, Settled, DiskIs
<1>12. Writing(f, w, n)'
  BY <1>10, <1>11 DEF Writing
<1>13. Format(f)' /\ FragmentBytes' = n
  BY <1>1, <1>2, <1>3, <1>11 DEF Format, Setters, Tag, SampleBytes, FragmentBytes
<1>14. QED
  BY <1>12, <1>13, Zenon DEF FileInv

LEMMA UpdateStep ==
    ASSUME SetInv, FileInv, lset' = lset, wav_update_sizes, ~g_err' PROVE FileInv'
<1>1. PICK n \in Nat : n = FragmentBytes /\ n = FragmentBytes'
  BY FragmentNat DEF FragmentBytes
<1>2. UpdateSizes /\ ~g_err
  <2>1. ~UpdateFails
    BY DEF UpdateFails
  <2>2. UpdateSizes
    BY <2>1 DEF wav_update_sizes
  <2>3. g_err' = g_err
    BY <2>2 DEF UpdateSizes, SeekAndWrite
  <2>4. QED
    BY <2>2, <2>3
<1>2a. wpc \in {"flush", "riff", "data_size"}
  BY <1>2 DEF UpdateSizes, SeekAndWrite
<1>3a. PICK f : Format(f) /\ \E w \in Nat : Writing(f, w, n)
  BY <1>1, <1>2, <1>2a DEF FileInv, Unopened, BeingSet, Setters, Settled
<1>3. PICK w \in Nat : Format(f) /\ Writing(f, w, n)
  BY <1>3a
<1>4. PICK x, y, r, z :
          /\ x = (DataOffset - 8 + (w + n)) % SizeMod /\ y = (w + n) % SizeMod
          /\ r = (DataOffset - 8 + w) % SizeMod /\ z = w % SizeMod
  BY Zenon
<1>5. /\ mem = [fmt |-> f, riff |-> x, size |-> y] /\ mem' = mem
      /\ mem.riff = x /\ mem.size = y /\ w + n \in Nat /\ w <= w + n
      /\ save_pos' = save_pos /\ save_pos = DataOffset + (w + n)
  <2>1. mem = [fmt |-> f, riff |-> x, size |-> y] /\ save_pos = DataOffset + w + n
    BY <1>3, <1>4 DEF Writing, MemIs
  <2>2. DataOffset + w + n = DataOffset + (w + n)
    BY Zero
  <2>3. mem' = mem /\ save_pos' = save_pos
    BY <1>2 DEF UpdateSizes, SeekAndWrite
  <2>4. mem.riff = x /\ mem.size = y
    BY <2>1
  <2>5. w + n \in Nat /\ w <= w + n
    OBVIOUS
  <2>6. QED
    BY <2>1, <2>2, <2>3, <2>4, <2>5, Zenon
<1>6. Format(f)'
  BY <1>2, <1>3 DEF UpdateSizes, SeekAndWrite, Format, Setters, Tag, SampleBytes
<1>7. MemIs(f, w + n)'
  BY <1>4, <1>5, Zenon DEF MemIs
<1>8. CASE wpc = "flush"
  <2>1. disk = [fmt |-> f, riff |-> r, size |-> z, len |-> w]
    BY <1>3, <1>4, <1>8 DEF Writing, DiskIs
  <2>2. /\ "data" \in pend /\ "riff" \notin pend /\ "new_size" \notin pend
        /\ pos - DataOffset = w + n
    <3>1. /\ "data" \in pend /\ "riff" \notin pend /\ "new_size" \notin pend
          /\ pos = save_pos
      BY <1>3, <1>8 DEF Writing
    <3>2. PICK a \in Nat : a = w + n
      OBVIOUS
    <3>3. pos = DataOffset + a
      BY <1>5, <3>1, <3>2, Zenon
    <3>4. pos - DataOffset = a
      BY <3>3, Zero
    <3>5. QED
      BY <3>1, <3>2, <3>4, Zenon
  <2>3. Max({w, pos - DataOffset}) = w + n
    <3>1. w \in Int /\ w + n \in Int /\ w <= w + n
      OBVIOUS
    <3>2. QED
      BY <2>2, <3>1, MaxOfTwo, Zenon
  <2>4. disk' = Flushed /\ wpc' = "riff" /\ pend' = {"riff"}
    BY <1>2, <1>8 DEF UpdateSizes, SeekAndWrite
  <2>5. disk' = [fmt |-> f, riff |-> r, size |-> z, len |-> w + n]
    BY <2>1, <2>2, <2>3, <2>4, FlushedIs
  <2>6. DiskIs(f, w, w, w + n)'
    BY <1>4, <2>5, Zenon DEF DiskIs
  <2>7. Writing(f, w, n)'
    BY <1>3, <1>5, <1>7, <2>4, <2>6 DEF Writing
  <2>8. QED
    BY <1>1, <1>6, <2>7, Zenon DEF FileInv
<1>9. CASE wpc = "riff"
  <2>1. disk = [fmt |-> f, riff |-> r, size |-> z, len |-> w + n] /\ pend = {"riff"}
    BY <1>3, <1>4, <1>9 DEF Writing, DiskIs
  <2>2. disk' = Flushed /\ wpc' = "data_size" /\ pend' = {"new_size"}
    BY <1>2, <1>9 DEF UpdateSizes, SeekAndWrite
  <2>3. disk' = [fmt |-> f, riff |-> x, size |-> z, len |-> w + n]
    <3>1. disk' = [fmt  |-> f,
                   riff |-> IF "riff" \in pend THEN mem.riff ELSE r,
                   size |-> IF "new_size" \in pend THEN mem.size ELSE z,
                   len  |-> IF "data" \in pend THEN Max({w + n, pos - DataOffset}) ELSE w + n]
      BY <2>1, <2>2, FlushedIs, Zenon
    <3>2. "riff" \in pend /\ "new_size" \notin pend /\ "data" \notin pend
      BY <2>1
    <3>3. QED
      BY <1>5, <3>1, <3>2, Zenon
  <2>4. DiskIs(f, w + n, w, w + n)'
    BY <1>4, <2>3, Zenon DEF DiskIs
  <2>5. Writing(f, w, n)'
    BY <1>3, <1>5, <1>7, <2>2, <2>4 DEF Writing
  <2>6. QED
    BY <1>1, <1>6, <2>5, Zenon DEF FileInv
<1>10. CASE wpc = "data_size"
  <2>1. disk = [fmt |-> f, riff |-> x, size |-> z, len |-> w + n] /\ pend = {"new_size"}
    BY <1>3, <1>4, <1>10 DEF Writing, DiskIs
  <2>2. disk' = Flushed /\ wpc' = "idle" /\ pend' = {} /\ pos' = save_pos
    BY <1>2, <1>10 DEF UpdateSizes, SeekAndWrite
  <2>3. disk' = [fmt |-> f, riff |-> x, size |-> y, len |-> w + n]
    <3>1. disk' = [fmt  |-> f,
                   riff |-> IF "riff" \in pend THEN mem.riff ELSE x,
                   size |-> IF "new_size" \in pend THEN mem.size ELSE z,
                   len  |-> IF "data" \in pend THEN Max({w + n, pos - DataOffset}) ELSE w + n]
      BY <2>1, <2>2, FlushedIs, Zenon
    <3>2. "riff" \notin pend /\ "new_size" \in pend /\ "data" \notin pend
      BY <2>1
    <3>3. QED
      BY <1>5, <3>1, <3>2, Zenon
  <2>4. DiskIs(f, w + n, w + n, w + n)'
    BY <1>4, <2>3, Zenon DEF DiskIs
  <2>5. Settled(f, w + n)'
    BY <1>5, <1>7, <2>2, <2>4 DEF Settled
  <2>6. QED
    BY <1>5, <1>6, <2>5 DEF FileInv
<1>11. QED
  BY <1>3, <1>8, <1>9, <1>10 DEF Writing

LEMMA CloseStep ==
    ASSUME SetInv, FileInv, lset' = lset, wav_close, ~g_err' PROVE FileInv'
<1>1. wpc = "idle" /\ wpc' = "closed" /\ ~g_err
  BY DEF wav_close
<1>2a. PICK f : Format(f) /\ \E w \in Nat : Settled(f, w)
  BY <1>1 DEF FileInv, Unopened, BeingSet, Setters, Writing
<1>2. PICK w \in Nat : Format(f) /\ Settled(f, w)
  BY <1>2a
<1>3. PICK r, z : r = (DataOffset - 8 + w) % SizeMod /\ z = w % SizeMod
  BY Zenon
<1>4. disk = [fmt |-> f, riff |-> r, size |-> z, len |-> w] /\ pend \subseteq {"data_header"}
  BY <1>2, <1>3, Zenon DEF Settled, DiskIs
<1>5. disk' = disk
  BY <1>4, FlushedIs DEF wav_close
<1>6. Settled(f, w)' /\ Format(f)'
  BY <1>1, <1>2, <1>5 DEF wav_close, Settled, MemIs, DiskIs, Format, Setters, Tag, SampleBytes
<1>7. QED
  BY <1>6 DEF FileInv

(* What only the recorder's own actions touch. *)
LEMMA RecorderActs ==
    ASSUME [SessionNext]_svars
    PROVE  \/ RecorderStep \/ PlayFragment \/ EndSession \/ ListenerDies \/ ListenerStarts
           \/ UNCHANGED <<lset, wvars>>
BY DEF SessionNext, svars, lvars, Talker, TalkerExits, TalkerStarts, ReadAndSend, ReadTooMuch,
   ReadFails, SendPacket, TalkerEnds, Talking, Tick, Listener, ListenerExits, ShortPacket,
   DropPacket, KeepPacket, Receiving

LEMMA FileInit == SessionInit => FileInv
BY DEF SessionInit, WavInit, FileInv, Unopened

LEMMA FileKept ==
    ASSUME FileInv, UNCHANGED <<lset, wvars>> PROVE FileInv'
<1>1. /\ lset' = lset /\ wpc' = wpc /\ g_err' = g_err /\ mem' = mem /\ disk' = disk
      /\ pend' = pend /\ pos' = pos /\ save_pos' = save_pos
  BY DEF wvars
<1>2. Unopened' = Unopened /\ FragmentBytes' = FragmentBytes
  BY <1>1, Zenon DEF Unopened, FragmentBytes
<1>3. ASSUME NEW f PROVE Format(f)' = Format(f) /\ BeingSet(f)' = BeingSet(f)
  BY <1>1, Zenon DEF Format, BeingSet, Tag, SampleBytes, MemIs, DiskIs
<1>4. ASSUME NEW f, NEW w PROVE Settled(f, w)' = Settled(f, w)
  BY <1>1, Zenon DEF Settled, MemIs, DiskIs
<1>5. ASSUME NEW f, NEW w, NEW n PROVE Writing(f, w, n)' = Writing(f, w, n)
  BY <1>1, Zenon DEF Writing, MemIs, DiskIs
<1>6. QED
  BY <1>1, <1>2, <1>3, <1>4, <1>5 DEF FileInv

LEMMA FileStep ==
    ASSUME SetInv, FileInv, [SessionNext]_svars PROVE FileInv'
<1> SUFFICES ASSUME ~g_err', wpc' # "killed" PROVE FileInv'
  BY DEF FileInv
<1>1. CASE RecorderStep
  BY <1>1, SetterStep, UpdateStep DEF RecorderStep
<1>2. CASE PlayFragment
  <2>1. CASE UNCHANGED <<lset, wvars>>
    BY <2>1, FileKept
  <2>2. CASE ~UNCHANGED <<lset, wvars>>
    BY <1>2, <2>2, WriteStep DEF PlayFragment, FragmentBytes
  <2>3. QED
    BY <2>1, <2>2
<1>3. CASE EndSession
  <2>1. CASE UNCHANGED <<lset, wvars>>
    BY <2>1, FileKept
  <2>2. CASE ~UNCHANGED <<lset, wvars>>
    BY <1>3, <2>2, CloseStep DEF EndSession
  <2>3. QED
    BY <2>1, <2>2
<1>4. CASE ListenerStarts
  <2>1. wpc = "unused" /\ wpc' \in {"unused", "open"} /\ ~g_err
        /\ UNCHANGED <<mem, disk, pend>>
    BY <1>4 DEF ListenerStarts, SetInv
  <2>2. Unopened
    BY <2>1 DEF FileInv, BeingSet, Setters, Settled, Writing
  <2>3. QED
    BY <2>1, <2>2 DEF FileInv, Unopened
<1>5. CASE ListenerDies \/ UNCHANGED <<lset, wvars>>
  <2>1. UNCHANGED <<lset, wvars>>
    BY <1>5 DEF ListenerDies, WavKilled
  <2>2. QED
    BY <2>1, FileKept
<1>6. QED
  BY <1>1, <1>2, <1>3, <1>4, <1>5, RecorderActs

LEMMA FileImplies == FileInv => HeaderDescribesData /\ HeaderMatchesStream
<1> SUFFICES ASSUME FileInv, Whole PROVE
        /\ disk.size = disk.len % SizeMod
        /\ disk.riff = (DataOffset - 8 + disk.len) % SizeMod
        /\ pos = DataOffset + disk.len
        /\ disk.fmt = [tag |-> Tag,
                num_channels |-> lset.channels,
                sample_rate |-> lset.sample_rate,
                avg_bytes_per_sec |-> FrameBytes(lset) * lset.sample_rate,
                block_align |-> FrameBytes(lset),
                bits_per_sample |-> 8 * Bytes(lset.bit_depth)]
  BY DEF HeaderDescribesData, HeaderMatchesStream, HeaderMatches, Tag
<1>1. wpc \in {"idle", "closed"} /\ ~g_err
  BY DEF Whole
<1>2. PICK f : Format(f) /\ \E w \in Nat : Settled(f, w)
  BY <1>1 DEF FileInv, Unopened, BeingSet, Setters, Writing
<1>3. PICK w \in Nat : Settled(f, w)
  BY <1>2
<1>4. PICK r, z : r = (DataOffset - 8 + w) % SizeMod /\ z = w % SizeMod
  BY Zenon
<1>5. disk = [fmt |-> f, riff |-> r, size |-> z, len |-> w] /\ pos = DataOffset + w
  BY <1>3, <1>4, Zenon DEF Settled, DiskIs
<1>6. disk.fmt = f /\ disk.riff = r /\ disk.size = z /\ disk.len = w
  BY <1>5
<1>7. f = Fmt(Tag, lset.channels, lset.sample_rate, SampleBytes)
  BY <1>1, <1>2 DEF Format, Setters
<1>8. QED
  BY <1>4, <1>5, <1>6, <1>7, Zenon DEF Fmt, FrameBytes, SampleBytes

(* Until libwav fails or the process is killed, header and file agree.     *)
THEOREM FileCorrect == SessionSpec => []FileInv
BY FileInit, FileStep, SettingsCorrect, PTL DEF SessionSpec

(* Between two fragments both sizes in the header are the data's, modulo   *)
(* the width of the fields, for every fragment and session length.         *)
THEOREM HeaderIsRight == SessionSpec => []HeaderDescribesData
BY FileCorrect, FileImplies, PTL

(* The header of a recording is its stream's, for every format.            *)
THEOREM HeaderIsOfStream == SessionSpec => []HeaderMatchesStream
BY FileCorrect, FileImplies, PTL

-----------------------------------------------------------------------------
(* A listener that dies.                                                   *)

(* A file whose header counts w of its l bytes, n of which may be missing. *)
Lost(n) ==
    \E f, r : \E w, l \in Nat :
        /\ disk = [fmt |-> f, riff |-> r, size |-> w % SizeMod, len |-> l]
        /\ w <= l /\ l <= w + n

LossInv ==
    /\ Lost(FragmentBytes)
    /\ g_err => wpc \notin {"unused", "flush", "riff", "data_size"}
                /\ pend \subseteq {"data_header"}

Failed == g_err \/ wpc = "killed"

LEMMA LostByRecord ==
    ASSUME NEW f, NEW r, NEW w \in Nat, NEW l \in Nat, NEW n \in Nat, w <= l, l <= w + n,
           disk = [fmt |-> f, riff |-> r, size |-> w % SizeMod, len |-> l]
    PROVE  Lost(n)
BY Zenon DEF Lost

LEMMA NothingLost ==
    ASSUME FileInv, FragmentBytes \in Nat, ~g_err, wpc # "killed"
    PROVE  Lost(FragmentBytes)
<1>1. PICK n \in Nat : n = FragmentBytes
  OBVIOUS
<1>2. CASE Unopened
  <2>1. disk = [fmt |-> DefaultFmt, riff |-> 0, size |-> 0 % SizeMod, len |-> 0]
    BY <1>2, Zero, Zenon DEF Unopened
  <2>2. 0 \in Nat /\ 0 <= 0 /\ 0 <= 0 + n
    OBVIOUS
  <2>3. QED
    BY <1>1, <2>1, <2>2, LostByRecord, Zenon
<1>3. ASSUME NEW f, BeingSet(f) PROVE Lost(n)
  <2>1. disk = [fmt |-> f, riff |-> (DataOffset - 8 + 0) % SizeMod, size |-> 0 % SizeMod,
                len |-> 0]
    BY <1>3, Zenon DEF BeingSet, DiskIs
  <2>2. 0 \in Nat /\ 0 <= 0 /\ 0 <= 0 + n
    OBVIOUS
  <2>3. QED
    BY <2>1, <2>2, LostByRecord, Zenon
<1>4. ASSUME NEW f, NEW w \in Nat, Settled(f, w) \/ Writing(f, w, n) PROVE Lost(n)
  <2>1. PICK l \in {w, w + n} :
            \E r : disk = [fmt |-> f, riff |-> r, size |-> w % SizeMod, len |-> l]
    BY <1>4, Zenon DEF Settled, Writing, DiskIs
  <2>2. l \in Nat /\ w <= l /\ l <= w + n
    OBVIOUS
  <2>3. QED
    BY <2>1, <2>2, LostByRecord, Zenon
<1>5. QED
  BY <1>1, <1>2, <1>3, <1>4 DEF FileInv

(* A flush that is cut off leaves some of the fragment behind the w bytes  *)
(* before it.                                                              *)
CutAt(f, r, w, l, n) ==
    /\ disk = [fmt |-> f, riff |-> r, size |-> w % SizeMod, len |-> w]
    /\ disk' = [fmt |-> f, riff |-> r, size |-> w % SizeMod, len |-> l]
    /\ w <= l /\ l <= w + n

LEMMA CutFlush ==
    ASSUME SetInv, FileInv, LossInv, disk' \in PartlyFlushed, wpc # "killed"
    PROVE  \/ disk' = disk /\ "data" \notin pend
           \/ /\ wpc = "flush" /\ ~g_err
              /\ \E f, r : \E w, l \in Nat : CutAt(f, r, w, l, FragmentBytes)
<1>1. PICK n \in Nat : n = FragmentBytes
  BY FragmentNat
<1>2. CASE "data" \notin pend
  BY <1>2 DEF PartlyFlushed
<1>3. CASE "data" \in pend
  <2>1. CASE wpc = "flush" /\ ~g_err
    <3>1. PICK f : \E w \in Nat : Writing(f, w, n)
      BY <1>1, <2>1 DEF FileInv, Unopened, BeingSet, Setters, Settled
    <3>2. PICK w \in Nat : Writing(f, w, n)
      BY <3>1
    <3>3. PICK r, z : r = (DataOffset - 8 + w) % SizeMod /\ z = w % SizeMod
      BY Zenon
    <3>4. /\ disk = [fmt |-> f, riff |-> r, size |-> z, len |-> w]
          /\ "riff" \notin pend /\ "new_size" \notin pend
      BY <2>1, <3>2, <3>3 DEF Writing, DiskIs
    <3>5. pos - DataOffset = w + n /\ pos - DataOffset - w = n
      <4>1. pos = DataOffset + w + n
        BY <2>1, <3>2 DEF Writing
      <4>2. QED
        BY <4>1, Zero
    <3>6. PICK l \in Nat : /\ disk' = [fmt |-> f, riff |-> r, size |-> z, len |-> l]
                           /\ w <= l /\ l <= w + n
      <4>1. CASE disk' = Flushed
        <5>1. Max({w, pos - DataOffset}) = w + n
          <6>1. w \in Int /\ w + n \in Int /\ w <= w + n
            OBVIOUS
          <6>2. QED
            BY <3>5, <6>1, MaxOfTwo, Zenon
        <5>2. disk' = [fmt |-> f, riff |-> r, size |-> z, len |-> w + n]
          <6>1. disk' = [fmt  |-> f,
                         riff |-> IF "riff" \in pend THEN mem.riff ELSE r,
                         size |-> IF "new_size" \in pend THEN mem.size ELSE z,
                         len  |-> IF "data" \in pend THEN Max({w, pos - DataOffset}) ELSE w]
            BY <3>4, <4>1, FlushedIs, Zenon
          <6>2. QED
            BY <1>3, <3>4, <5>1, <6>1, Zenon
        <5>3. w + n \in Nat /\ w <= w + n /\ w + n <= w + n
          OBVIOUS
        <5>4. QED
          BY <5>2, <5>3, Zenon
      <4>2. ASSUME NEW k \in Part(n), disk' = [disk EXCEPT !.len = @ + k]
            PROVE  \E l \in Nat : /\ disk' = [fmt |-> f, riff |-> r, size |-> z, len |-> l]
                                  /\ w <= l /\ l <= w + n
        <5>1. k \in Nat /\ k <= n
          BY DEF Part
        <5>2. PICK l \in Nat : l = w + k
          BY <5>1
        <5>3. w <= l /\ l <= w + n
          BY <5>1, <5>2
        <5>4. disk' = [fmt |-> f, riff |-> r, size |-> z, len |-> l]
          BY <3>4, <4>2, <5>2
        <5>5. QED
          BY <5>3, <5>4
      <4>3. pos - DataOffset - disk.len = n
        BY <3>4, <3>5
      <4>4. disk' \in {Flushed} \cup {[disk EXCEPT !.len = @ + k] : k \in Part(n)}
        BY <1>3, <4>3, Zenon DEF PartlyFlushed
      <4>5. QED
        BY <4>1, <4>2, <4>4
    <3>7. QED
      BY <1>1, <2>1, <3>3, <3>4, <3>6, Zenon DEF CutAt
  <2>2. ~g_err
    BY <1>3 DEF LossInv
  <2>3. wpc = "flush"
    <3>1. ~Unopened
      BY <1>3 DEF Unopened
    <3>2. PICK f : BeingSet(f) \/ \E w \in Nat : Settled(f, w) \/ Writing(f, w, FragmentBytes)
      BY <2>2, <3>1 DEF FileInv
    <3>3. ~(pend \subseteq {"data_header"}) /\ pend # {"riff"} /\ pend # {"new_size"}
      BY <1>3
    <3>4. ~BeingSet(f)
      <4>1. BeingSet(f) => pend = {"data_header"}
        BY Zenon DEF BeingSet
      <4>2. QED
        BY <3>3, <4>1
    <3>5. PICK w : Settled(f, w) \/ Writing(f, w, FragmentBytes)
      BY <3>2, <3>4
    <3>6. QED
      BY <3>3, <3>5, Zenon DEF Settled, Writing
  <2>4. QED
    BY <2>1, <2>2, <2>3
<1>4. QED
  BY <1>2, <1>3

LEMMA CutOff ==
    ASSUME SetInv, FileInv, LossInv, disk' \in PartlyFlushed, wpc # "killed",
           FragmentBytes' = FragmentBytes
    PROVE  Lost(FragmentBytes)'
<1>1. CASE disk' = disk
  BY <1>1 DEF LossInv, Lost
<1>2. CASE \E f, r : \E w, l \in Nat : CutAt(f, r, w, l, FragmentBytes)
  BY <1>2, Zenon DEF CutAt, Lost
<1>3. QED
  BY <1>1, <1>2, CutFlush

LEMMA LossInit == SessionInit => LossInv
<1> SUFFICES ASSUME SessionInit PROVE LossInv
  OBVIOUS
<1>1. wpc = "unused" /\ g_err = FALSE
  BY DEF SessionInit, WavInit
<1>2. FragmentBytes \in Nat
  BY SetInit, FragmentNat
<1>3. Lost(FragmentBytes)
  BY <1>1, <1>2, FileInit, NothingLost
<1>4. QED
  BY <1>1, <1>3 DEF LossInv

(* The setters write no sound, and a failed one leaves nothing buffered. *)
LEMMA SetterLoss ==
    ASSUME LossInv, FileInv, FragmentBytes' = FragmentBytes, g_err', setup_wav_recorder(lset)
    PROVE  LossInv'
<1>1. ASSUME NEW h, NEW next \in Setters \cup {"idle"}, wav_write_header(h, next) PROVE LossInv'
  <2>1. wpc' \in Setters \cup {"idle", "aborted"} /\ pend' \subseteq {"data_header"}
    BY <1>1 DEF wav_write_header
  <2>2. disk' \in {disk, [disk EXCEPT !.riff = h.riff], [disk EXCEPT !.fmt = h.fmt, !.riff = h.riff],
                   [disk EXCEPT !.riff = h.riff, !.fmt = h.fmt]}
    BY <1>1 DEF wav_write_header
  <2>3. PICK f, r : \E w, l \in Nat :
            /\ disk = [fmt |-> f, riff |-> r, size |-> w % SizeMod, len |-> l]
            /\ w <= l /\ l <= w + FragmentBytes
    BY Zenon DEF LossInv, Lost
  <2>4. PICK w \in Nat, l \in Nat :
            /\ disk = [fmt |-> f, riff |-> r, size |-> w % SizeMod, len |-> l]
            /\ w <= l /\ l <= w + FragmentBytes
    BY <2>3
  <2>5. PICK z, a, b : z = w % SizeMod /\ a = h.fmt /\ b = h.riff
    BY Zenon
  <2>6. \E e, q : disk' = [fmt |-> e, riff |-> q, size |-> z, len |-> l]
    <3>1. CASE disk' = disk
      BY <2>4, <2>5, <3>1, Zenon
    <3>2. CASE disk' = [disk EXCEPT !.riff = b]
      <4>1. disk' = [fmt |-> f, riff |-> b, size |-> z, len |-> l]
        BY <2>4, <2>5, <3>2
      <4>2. QED
        BY <4>1, Zenon
    <3>3. CASE disk' = [disk EXCEPT !.fmt = a, !.riff = b]
      <4>1. disk' = [fmt |-> a, riff |-> b, size |-> z, len |-> l]
        BY <2>4, <2>5, <3>3
      <4>2. QED
        BY <4>1, Zenon
    <3>4. CASE disk' = [disk EXCEPT !.riff = b, !.fmt = a]
      <4>1. disk' = [fmt |-> a, riff |-> b, size |-> z, len |-> l]
        BY <2>4, <2>5, <3>4
      <4>2. QED
        BY <4>1, Zenon
    <3>5. QED
      BY <2>2, <2>5, <3>1, <3>2, <3>3, <3>4
  <2>7. Lost(FragmentBytes)'
    BY <2>4, <2>5, <2>6, Zenon DEF Lost
  <2>8. QED
    BY <2>1, <2>7 DEF LossInv, Setters
<1>2. ASSUME NEW next \in Setters \cup {"idle"}, NoHeader(next) PROVE LossInv'
  BY <1>2 DEF NoHeader, LossInv, Lost, Setters
<1>3. CASE wav_open
  <2>1. CASE wav_write_header(mem, "format")
    BY <1>1, <2>1 DEF Setters
  <2>2. CASE wpc' = "aborted" /\ UNCHANGED <<disk, pend>>
    <3>1. pend \subseteq {"data_header"}
      BY <1>3 DEF wav_open, LossInv, FileInv, Unopened, BeingSet, Setters, Settled, Writing
    <3>2. Lost(FragmentBytes)'
      BY <2>2 DEF LossInv, Lost
    <3>3. QED
      BY <2>2, <3>1, <3>2 DEF LossInv
  <2>3. QED
    BY <1>3, <2>1, <2>2 DEF wav_open
<1>4. QED
  BY <1>1, <1>2, <1>3 DEF setup_wav_recorder, wav_set_format, WriteFormat, wav_set_sample_size,
     wav_set_num_channels, wav_set_sample_rate, Setters

(* A fragment that was not written, or whose sizes were not. *)
LEMMA WriteLoss ==
    ASSUME SetInv, FileInv, LossInv, FragmentBytes' = FragmentBytes, g_err',
           wav_write(FragmentBytes)
    PROVE  LossInv'
<1>1. CASE TellAborts \/ WriteRefused
  BY <1>1 DEF TellAborts, WriteRefused, wvars, LossInv, Lost, FileInv, Unopened, BeingSet,
     Settled, Writing
<1>2. CASE WriteDataFails(FragmentBytes)
  <2>1. PICK n \in Nat : n = FragmentBytes /\ n = FragmentBytes'
    BY FragmentNat
  <2>2. wpc = "idle" /\ ~g_err /\ wpc' = "idle" /\ pend' = {}
    BY <1>2 DEF WriteDataFails, CanWrite
  <2>3. PICK f : \E w \in Nat : Settled(f, w)
    BY <2>2 DEF FileInv, Unopened, BeingSet, Setters, Writing
  <2>4. PICK w \in Nat : Settled(f, w)
    BY <2>3
  <2>5. PICK r, z : r = (DataOffset - 8 + w) % SizeMod /\ z = w % SizeMod
    BY Zenon
  <2>6. disk = [fmt |-> f, riff |-> r, size |-> z, len |-> w]
    BY <2>4, <2>5, Zenon DEF Settled, DiskIs
  <2>7. PICK k \in Part(n) : disk' = [disk EXCEPT !.len = @ + k]
    BY <1>2, <2>1 DEF WriteDataFails
  <2>8. k \in Nat /\ k <= n
    BY DEF Part
  <2>9. PICK l \in Nat : l = w + k
    BY <2>8
  <2>10. w <= l /\ l <= w + n
    BY <2>8, <2>9
  <2>11. disk' = [fmt |-> f, riff |-> r, size |-> z, len |-> l]
    BY <2>6, <2>7, <2>9
  <2>12. QED
    BY <2>1, <2>2, <2>5, <2>10, <2>11 DEF LossInv, Lost
<1>3. QED
  BY <1>1, <1>2 DEF wav_write, WriteData, CanWrite

(* A fragment whose sizes could not be written. *)
LEMMA UpdateLoss ==
    ASSUME SetInv, FileInv, LossInv, FragmentBytes' = FragmentBytes, g_err', wav_update_sizes
    PROVE  LossInv'
<1>1. PICK n \in Nat : n = FragmentBytes /\ n = FragmentBytes'
  BY FragmentNat
<1>2. wpc \in {"flush", "riff", "data_size"}
  BY DEF wav_update_sizes, UpdateSizes, SeekAndWrite, UpdateFails
<1>3. ~g_err
  BY <1>2 DEF LossInv
<1>4. UpdateFails
  BY <1>3 DEF wav_update_sizes, UpdateSizes, SeekAndWrite
<1>5. wpc' = "idle" /\ pend' = {}
  BY <1>4 DEF UpdateFails
<1>6. PICK f : \E w \in Nat : Writing(f, w, n)
  BY <1>1, <1>2, <1>3 DEF FileInv, Unopened, BeingSet, Setters, Settled
<1>7. PICK w \in Nat : Writing(f, w, n)
  BY <1>6
<1>8. PICK x, y, r, z :
          /\ x = (DataOffset - 8 + (w + n)) % SizeMod /\ y = (w + n) % SizeMod
          /\ r = (DataOffset - 8 + w) % SizeMod /\ z = w % SizeMod
  BY Zenon
<1>9. mem.riff = x /\ mem.size = y
  <2>1. mem = [fmt |-> f, riff |-> x, size |-> y]
    BY <1>7, <1>8 DEF Writing, MemIs
  <2>2. QED
    BY <2>1
<1>10. w + n \in Nat /\ w <= w + n /\ w + n <= w + n /\ w + n <= (w + n) + n
  OBVIOUS
<1>11. ASSUME NEW q, NEW s \in {x, r, y, z},
              \/ disk' = [fmt |-> f, riff |-> q, size |-> z, len |-> w + n]
              \/ disk' = [fmt |-> f, riff |-> q, size |-> y, len |-> w + n]
       PROVE  Lost(FragmentBytes)'
  BY <1>1, <1>8, <1>10, <1>11, Zenon DEF Lost
<1>12. CASE wpc = "flush"
  <2>1. "data" \in pend
    BY <1>7, <1>12 DEF Writing
  <2>2. disk' \in PartlyFlushed
    BY <1>4, <1>12, <2>1 DEF UpdateFails, PartlyFlushed
  <2>3. Lost(FragmentBytes)'
    BY <1>12, <2>2, CutOff
  <2>4. QED
    BY <1>5, <2>3 DEF LossInv
<1>13. CASE wpc = "riff"
  <2>1. disk = [fmt |-> f, riff |-> r, size |-> z, len |-> w + n] /\ pend = {"riff"}
    BY <1>7, <1>8, <1>13 DEF Writing, DiskIs
  <2>2. CASE disk' = Flushed
    <3>1. disk' = [fmt  |-> f,
                   riff |-> IF "riff" \in pend THEN mem.riff ELSE r,
                   size |-> IF "new_size" \in pend THEN mem.size ELSE z,
                   len  |-> IF "data" \in pend THEN Max({w + n, pos - DataOffset}) ELSE w + n]
      BY <2>1, <2>2, FlushedIs, Zenon
    <3>2. "riff" \in pend /\ "new_size" \notin pend /\ "data" \notin pend
      BY <2>1
    <3>3. disk' = [fmt |-> f, riff |-> x, size |-> z, len |-> w + n]
      BY <1>9, <3>1, <3>2, Zenon
    <3>4. QED
      BY <1>5, <1>11, <3>3 DEF LossInv
  <2>3. CASE disk' = disk
    BY <1>5, <1>11, <2>1, <2>3 DEF LossInv
  <2>4. QED
    BY <1>4, <1>13, <2>2, <2>3 DEF UpdateFails
<1>14. CASE wpc = "data_size"
  <2>1. disk = [fmt |-> f, riff |-> x, size |-> z, len |-> w + n] /\ pend = {"new_size"}
    BY <1>7, <1>8, <1>14 DEF Writing, DiskIs
  <2>2. CASE disk' = Flushed
    <3>1. disk' = [fmt  |-> f,
                   riff |-> IF "riff" \in pend THEN mem.riff ELSE x,
                   size |-> IF "new_size" \in pend THEN mem.size ELSE z,
                   len  |-> IF "data" \in pend THEN Max({w + n, pos - DataOffset}) ELSE w + n]
      BY <2>1, <2>2, FlushedIs, Zenon
    <3>2. "riff" \notin pend /\ "new_size" \in pend /\ "data" \notin pend
      BY <2>1
    <3>3. disk' = [fmt |-> f, riff |-> x, size |-> y, len |-> w + n]
      BY <1>9, <3>1, <3>2, Zenon
    <3>4. QED
      BY <1>5, <1>11, <3>3 DEF LossInv
  <2>3. CASE disk' = disk
    BY <1>5, <1>11, <2>1, <2>3 DEF LossInv
  <2>4. QED
    BY <1>4, <1>14, <2>2, <2>3 DEF UpdateFails
<1>15. QED
  BY <1>2, <1>12, <1>13, <1>14

(* Without sound in stdio's buffer closing leaves the file alone. *)
LEMMA CloseKeepsFile ==
    ASSUME LossInv, pend \subseteq {"data_header"}, disk' \in {disk, Flushed}
    PROVE  disk' = disk
<1>1. "data" \notin pend /\ "riff" \notin pend /\ "new_size" \notin pend
  OBVIOUS
<1>2. PICK f, r, z, l : disk = [fmt |-> f, riff |-> r, size |-> z, len |-> l]
  BY Zenon DEF LossInv, Lost
<1>3. CASE disk' = Flushed
  <2>1. disk' = [fmt  |-> f,
                 riff |-> IF "riff" \in pend THEN mem.riff ELSE r,
                 size |-> IF "new_size" \in pend THEN mem.size ELSE z,
                 len  |-> IF "data" \in pend THEN Max({l, pos - DataOffset}) ELSE l]
    BY <1>2, <1>3, FlushedIs, Zenon
  <2>2. QED
    BY <1>1, <1>2, <2>1, Zenon
<1>4. QED
  BY <1>3

LEMMA CloseLoss ==
    ASSUME LossInv, FragmentBytes' = FragmentBytes, g_err', wav_close PROVE LossInv'
<1>1. wpc' = "closed" /\ pend' = {} /\ g_err
  BY DEF wav_close
<1>2. disk' = disk
  BY <1>1, CloseKeepsFile DEF wav_close, LossInv
<1>3. QED
  BY <1>1, <1>2 DEF LossInv, Lost

LEMMA KillLoss ==
    ASSUME SetInv, FileInv, LossInv, FragmentBytes' = FragmentBytes, WavKilled PROVE LossInv'
<1>1. /\ disk' \in PartlyFlushed /\ wpc # "killed" /\ wpc' = "killed"
      /\ g_err' = g_err /\ pend' = pend
  BY DEF WavKilled, WavSettled
<1>2. Lost(FragmentBytes)'
  BY <1>1, CutOff
<1>3. QED
  BY <1>1, <1>2 DEF LossInv

LEMMA LossKept ==
    ASSUME LossInv, UNCHANGED <<lset, wvars>> PROVE LossInv'
<1>1. FragmentBytes' = FragmentBytes
  BY Zenon DEF FragmentBytes
<1>2. QED
  BY <1>1 DEF LossInv, Lost, wvars

LEMMA NothingFailed == SetInv /\ FileInv /\ ~Failed => LossInv
BY FragmentNat, NothingLost DEF LossInv, Failed

(* Only the end of the process is recorded as a kill. *)
LEMMA OnlyDeathKills ==
    ASSUME NEW set, NEW n,
           setup_wav_recorder(set) \/ wav_update_sizes \/ wav_write(n) \/ wav_close
    PROVE  wpc' # "killed"
BY DEF setup_wav_recorder, wav_open, wav_set_format, WriteFormat, wav_set_sample_size,
       wav_set_num_channels, wav_set_sample_rate, wav_write_header, NoHeader,
       wav_update_sizes, UpdateSizes, SeekAndWrite, UpdateFails, wav_write, TellAborts,
       WriteRefused, WriteData, CanWrite, WriteDataFails, wvars, wav_close

LEMMA LossStep ==
    ASSUME SetInv, FileInv, LossInv, [SessionNext]_svars, Failed' PROVE LossInv'
<1>1. CASE UNCHANGED <<lset, wvars>>
  BY <1>1, LossKept
<1>2. ASSUME lset' = lset PROVE FragmentBytes' = FragmentBytes
  BY <1>2, Zenon DEF FragmentBytes
<1>3. CASE RecorderStep
  <2>1. lset' = lset /\ (setup_wav_recorder(lset) \/ wav_update_sizes)
    BY <1>3 DEF RecorderStep
  <2>2. g_err'
    BY <2>1, OnlyDeathKills DEF Failed
  <2>3. QED
    BY <1>2, <2>1, <2>2, SetterLoss, UpdateLoss
<1>4. CASE PlayFragment /\ ~UNCHANGED <<lset, wvars>>
  <2>1. lset' = lset /\ wav_write(FragmentBytes)
    BY <1>4 DEF PlayFragment, FragmentBytes
  <2>2. g_err'
    BY <2>1, OnlyDeathKills DEF Failed
  <2>3. QED
    BY <1>2, <2>1, <2>2, WriteLoss
<1>5. CASE EndSession /\ ~UNCHANGED <<lset, wvars>>
  <2>1. lset' = lset /\ wav_close
    BY <1>5 DEF EndSession
  <2>2. g_err'
    BY <2>1, OnlyDeathKills DEF Failed
  <2>3. QED
    BY <1>2, <2>1, <2>2, CloseLoss
<1>6. CASE ListenerDies /\ ~UNCHANGED <<lset, wvars>>
  <2>1. lset' = lset /\ WavKilled
    BY <1>6 DEF ListenerDies
  <2>2. QED
    BY <1>2, <2>1, KillLoss
<1>7. CASE ListenerStarts
  <2>1. wpc = "unused" /\ wpc' # "killed" /\ g_err' = g_err
    BY <1>7 DEF ListenerStarts, SetInv
  <2>2. QED
    BY <2>1 DEF LossInv, Failed
<1>8. QED
  BY <1>1, <1>3, <1>4, <1>5, <1>6, <1>7, RecorderActs

LEMMA LossImplies == LossInv => LosesAtMostOneFragment
<1> SUFFICES ASSUME LossInv PROVE /\ disk.size <= disk.len
                                  /\ disk.len < SizeMod => disk.len <= disk.size + FragmentBytes
  BY DEF LosesAtMostOneFragment, LosesAtMost
<1>1. PICK f, r : \E w, l \in Nat :
          /\ disk = [fmt |-> f, riff |-> r, size |-> w % SizeMod, len |-> l]
          /\ w <= l /\ l <= w + FragmentBytes
  BY Zenon DEF LossInv, Lost
<1>2. PICK w \in Nat, l \in Nat :
          /\ disk = [fmt |-> f, riff |-> r, size |-> w % SizeMod, len |-> l]
          /\ w <= l /\ l <= w + FragmentBytes
  BY <1>1
<1>3. PICK q \in Int : \E z \in 0 .. SizeMod - 1 : w = SizeMod * q + z /\ w % SizeMod = z
  <2>1. w \in Int
    OBVIOUS
  <2>2. QED
    BY <2>1, SizeModAssumption, DivisionWithRemainder, Zenon
<1>4. PICK z \in 0 .. SizeMod - 1 : w = SizeMod * q + z /\ w % SizeMod = z
  BY <1>3
<1>5. disk = [fmt |-> f, riff |-> r, size |-> z, len |-> l]
  BY <1>2, <1>4, Zenon
<1>6. disk.size = z /\ disk.len = l
  BY <1>5
<1>7. PICK M \in Nat \ {0} : M = SizeMod
  BY SizeModAssumption
<1>8. z <= w
  <2>1. z \in 0 .. M - 1 /\ w = M * q + z
    BY <1>4, <1>7
  <2>2. q >= 0
    <3>1. CASE -q >= 1
      <4>1. PICK p \in Int : p = -q /\ p >= 1
        BY <3>1
      <4>2. M * p >= M
        BY <4>1, PositiveMultiple
      <4>3. M * q = -(M * p)
        BY <4>1, Z3
      <4>4. QED
        BY <2>1, <4>2, <4>3
    <3>2. QED
      BY <3>1
  <2>3. CASE q >= 1
    BY <2>1, <2>3, PositiveMultiple
  <2>4. CASE q = 0
    BY <2>1, <2>4
  <2>5. QED
    BY <2>2, <2>3, <2>4
<1>9. ASSUME l < SizeMod PROVE z = w
  <2>1. w \in 0 .. M - 1 /\ w \in Int /\ 0 \in Int /\ w = M * 0 + w
    BY <1>2, <1>7, <1>9
  <2>2. w % M = w
    BY <2>1, ModuloUnique
  <2>3. QED
    BY <1>4, <1>7, <2>2
<1>10. QED
  <2>1. disk.size <= disk.len
    BY <1>2, <1>6, <1>8
  <2>2. ASSUME disk.len < SizeMod PROVE disk.len <= disk.size + FragmentBytes
    <3>1. z = w
      BY <1>6, <1>9, <2>2
    <3>2. QED
      BY <1>2, <1>6, <3>1, Zenon
  <2>3. QED
    BY <2>1, <2>2

LEMMA NothingMoreLost == SessionSpec => []LossInv
<1>1. SetInv /\ FileInv /\ LossInv /\ [SessionNext]_svars /\ Failed' => LossInv'
  BY LossStep
<1>2. QED
  BY <1>1, LossInit, NothingFailed, SettingsCorrect, FileCorrect, PTL DEF SessionSpec

(* A listener killed at any step, whichever calls of libwav had failed     *)
(* before, leaves a header that claims no byte the file does not hold and  *)
(* misses at most one fragment.                                            *)
THEOREM AtMostOneFragmentIsLost == SessionSpec => []LosesAtMostOneFragment
BY NothingMoreLost, LossImplies, PTL

-----------------------------------------------------------------------------
(* The library keeps what the listener takes it to do.                     *)

RecStep == Rec!RecorderNext \/ UNCHANGED <<RecorderState, Fragments, g_err>>

(* As long as nothing has failed the file holds whole fragments. *)
RecInv ==
    /\ g_err \in BOOLEAN
    /\ ~Failed => disk.len = 0 \/ \E m \in Nat : disk.len = m * FragmentBytes

Updating == {"riff", "data_size"}
Count(pc, len, n) ==
    IF len = 0 THEN 0 ELSE (len \div n) - (IF pc \in Updating THEN 1 ELSE 0)

LEMMA Quotient ==
    ASSUME NEW n \in Nat \ {0}, NEW m \in Nat, NEW k \in Nat, k < n
    PROVE  (m * n + k) \div n = m
<1>1. PICK a \in Int : a = m * n + k
  BY Z3
<1>2. PICK q \in Int, r \in 0 .. n - 1 : q = a \div n /\ a = n * q + r
  BY Z3
<1>3. n * (q - m) = k - r /\ n * (m - q) = r - k
  BY <1>1, <1>2, Z3
<1>4. ~(q - m >= 1)
  BY <1>2, <1>3, PositiveMultiple
<1>5. ~(m - q >= 1)
  BY <1>2, <1>3, PositiveMultiple
<1>6. QED
  BY <1>1, <1>2, <1>4, <1>5

(* A file of m fragments and part of another. *)
LEMMA CountOf ==
    ASSUME NEW m \in Nat, NEW n, NEW pc, pc \in Updating => m >= 1,
           NEW len, len \div n = m, len = 0 => m = 0
    PROVE  Count(pc, len, n) = IF pc \in Updating THEN m - 1 ELSE m
<1>1. CASE len # 0
  BY <1>1 DEF Count
<1>2. CASE len = 0
  BY <1>2 DEF Count
<1>3. QED
  BY <1>1, <1>2

LEMMA EmptyFile ==
    ASSUME NEW n \in Nat \ {0}, NEW m \in Nat, NEW k \in Nat, m * n + k = 0
    PROVE  m = 0
<1>1. ASSUME m >= 1 PROVE FALSE
  <2>1. n * m >= n
    BY <1>1, PositiveMultiple
  <2>2. QED
    BY <2>1, Z3
<1>2. QED
  BY <1>1

LEMMA CountIs ==
    ASSUME NEW n \in Nat \ {0}, NEW m \in Nat, NEW k \in Nat, k < n,
           NEW pc, pc \in Updating => m >= 1, NEW len, len = m * n + k
    PROVE  Count(pc, len, n) = IF pc \in Updating THEN m - 1 ELSE m
<1>1. len \div n = m /\ (len = 0 => m = 0)
  BY Quotient, EmptyFile, Zenon
<1>2. QED
  BY <1>1, CountOf, Zenon

LEMMA CountWhole ==
    ASSUME NEW n \in Nat \ {0}, NEW m \in Nat, NEW pc, pc \in Updating => m >= 1,
           NEW len, len = m * n
    PROVE  Count(pc, len, n) = IF pc \in Updating THEN m - 1 ELSE m
<1>1. 0 \in Nat /\ 0 < n /\ len = m * n + 0
  BY Z3
<1>2. len \div n = m /\ (len = 0 => m = 0)
  BY <1>1, Quotient, EmptyFile, Zenon
<1>3. QED
  BY <1>2, CountOf, Zenon

LEMMA FragmentsCounted ==
    /\ Fragments = Count(wpc, disk.len, FragmentBytes)
    /\ Fragments' = Count(wpc', disk'.len, FragmentBytes')
BY Zenon DEF Fragments, Count, Updating

LEMMA FragmentPositive ==
    ASSUME SetInv, wpc # "unused" PROVE FragmentBytes \in Nat \ {0}
<1>1. Made(lset, args.listener, cards.listener) /\ cards.listener.periods \subseteq Nat \ {0}
  BY SetupsAssumption DEF SetInv
<1>2. /\ lset.frames_per_pdu \in Nat \ {0} /\ lset.channels \in Nat \ {0}
      /\ lset.bit_depth \in {16, 24, 32}
  BY <1>1, MadeFields, Sides
<1>3. PICK a \in Nat \ {0}, b \in Nat \ {0} : a = lset.frames_per_pdu /\ b = FrameBytes(lset)
  BY <1>2, FrameBytesPositive
<1>4. a * b \in Nat \ {0}
  BY Z3
<1>5. QED
  BY <1>3, <1>4 DEF FragmentBytes

(* The setters touch no data. *)
LEMMA SetterRec ==
    ASSUME LossInv, RecInv, FragmentBytes' = FragmentBytes, setup_wav_recorder(lset)
    PROVE  RecInv' /\ RecStep
<1>1. PICK f, r, z, l : disk = [fmt |-> f, riff |-> r, size |-> z, len |-> l]
  BY Zenon DEF LossInv, Lost
<1>2. ASSUME NEW h, NEW next, wav_write_header(h, next) PROVE disk'.len = disk.len
  <2>1. PICK a, b : a = h.fmt /\ b = h.riff
    OBVIOUS
  <2>2. disk' \in {disk, [disk EXCEPT !.riff = b], [disk EXCEPT !.fmt = a, !.riff = b],
                   [disk EXCEPT !.riff = b, !.fmt = a]}
    BY <1>2, <2>1 DEF wav_write_header
  <2>3. QED
    BY <1>1, <2>2
<1>3. ASSUME NEW h, NEW next \in Setters \cup {"idle"}, wav_write_header(h, next)
      PROVE  /\ wpc' \in Setters \cup {"idle", "aborted"} /\ g_err' \in {g_err, TRUE}
             /\ wpc' = "aborted" => g_err' = TRUE
  BY <1>3 DEF wav_write_header, Setters
<1>4. /\ wpc \in Setters \cup {"open"} /\ wpc' \in Setters \cup {"idle", "aborted"}
      /\ g_err' \in {g_err, TRUE} /\ (wpc' = "aborted" => g_err' = TRUE)
      /\ disk'.len = disk.len
  <2>1. wpc \in Setters \cup {"open"}
    BY DEF setup_wav_recorder, wav_open, wav_set_format, WriteFormat, wav_set_sample_size,
           wav_set_num_channels, wav_set_sample_rate, Setters
  <2>2. "format" \in Setters /\ "format_done" \in Setters /\ "size" \in Setters
        /\ "channels" \in Setters /\ "rate" \in Setters
    BY DEF Setters
  <2>3. \/ \E next \in Setters \cup {"idle"} : NoHeader(next) \/ \E h : wav_write_header(h, next)
        \/ wpc' = "aborted" /\ g_err' = TRUE /\ disk' = disk
    BY <2>2, Zenon
    DEF setup_wav_recorder, wav_open, wav_set_format, WriteFormat, wav_set_sample_size,
        wav_set_num_channels, wav_set_sample_rate
  <2>4. CASE \E next \in Setters \cup {"idle"} : NoHeader(next)
    BY <2>1, <2>4 DEF NoHeader, Setters
  <2>5. CASE \E next \in Setters \cup {"idle"} : \E h : wav_write_header(h, next)
    BY <1>2, <1>3, <2>1, <2>5, Zenon
  <2>6. QED
    BY <2>1, <2>3, <2>4, <2>5
<1>5. RecInv'
  <2>1. g_err' \in BOOLEAN
    BY <1>4 DEF RecInv
  <2>2. ASSUME ~Failed' PROVE ~Failed
    BY <1>4, <2>2 DEF Failed, Setters
  <2>3. QED
    BY <1>4, <2>1, <2>2, Zenon DEF RecInv
<1>6. Fragments' = Fragments
  BY <1>4, FragmentsCounted DEF Count, Updating, Setters
<1>7. RecorderState = "setup"
  BY <1>4 DEF RecorderState, Setters
<1>8. /\ wpc' = "aborted" => RecorderState' = "aborted"
      /\ wpc' # "aborted" => RecorderState' \in {"setup", "ready"}
  BY <1>4 DEF RecorderState, Setters
<1>9. QED
  BY <1>4, <1>5, <1>6, <1>7, <1>8 DEF RecStep, Rec!RecorderNext, Rec!Open, Rec!Abort

LEMMA WriteRec ==
    ASSUME SetInv, FileInv, LossInv, RecInv, FragmentBytes' = FragmentBytes,
           wav_write(FragmentBytes)
    PROVE  RecInv' /\ RecStep
<1>1. wpc = "idle" /\ RecorderState = "ready"
  BY DEF wav_write, TellAborts, WriteRefused, WriteData, WriteDataFails, CanWrite,
         FileInv, RecorderState
<1>2. CASE TellAborts
  <2>1. g_err
    <3>1. ASSUME ~g_err PROVE FALSE
      <4>1. PICK f : \E w \in Nat : Settled(f, w)
        BY <1>1, <3>1 DEF FileInv, Unopened, BeingSet, Setters, Writing
      <4>2. PICK w \in Nat : pos = DataOffset + w
        BY <4>1 DEF Settled
      <4>3. QED
        BY <1>2, <4>2, Zero DEF TellAborts
    <3>2. QED
      BY <3>1
  <2>2. /\ wpc' = "aborted" /\ g_err' = g_err /\ g_err = TRUE /\ disk' = disk
    BY <1>2, <2>1 DEF TellAborts, RecInv
  <2>3. Fragments' = Fragments /\ RecorderState' = "aborted"
    BY <1>1, <2>2, FragmentsCounted DEF Count, Updating, RecorderState
  <2>4. RecInv'
    BY <2>2 DEF RecInv, Failed
  <2>5. QED
    BY <1>1, <2>2, <2>3, <2>4 DEF RecStep, Rec!RecorderNext, Rec!Abort
<1>3. CASE WriteRefused \/ WriteData(FragmentBytes)
  <2>1. wpc' \in {"idle", "flush"} /\ g_err' = g_err /\ disk' = disk
    BY <1>1, <1>3 DEF WriteRefused, WriteData, wvars
  <2>2. Fragments' = Fragments /\ RecorderState' = "ready"
    BY <1>1, <2>1, FragmentsCounted DEF Count, Updating, RecorderState
  <2>3. RecInv'
    BY <1>1, <2>1 DEF RecInv, Failed
  <2>4. QED
    BY <1>1, <2>1, <2>2, <2>3 DEF RecStep
<1>4. CASE WriteDataFails(FragmentBytes)
  <2>1. PICK n \in Nat \ {0} : n = FragmentBytes /\ n = FragmentBytes'
    BY <1>1, FragmentPositive
  <2>2. /\ ~g_err /\ g_err' = TRUE /\ wpc' = "idle"
        /\ \E k \in Part(n) : disk' = [disk EXCEPT !.len = @ + k]
    BY <1>1, <1>4, <2>1 DEF WriteDataFails, CanWrite
  <2>3. PICK k \in Part(n) : disk' = [disk EXCEPT !.len = @ + k]
    BY <2>2
  <2>4. k \in Nat /\ k < n
    BY DEF Part
  <2>5. PICK m \in Nat : disk.len = m * n
    <3>1. 0 \in Nat /\ 0 * n = 0
      BY Z3
    <3>2. QED
      BY <1>1, <2>1, <2>2, <3>1 DEF RecInv, Failed
  <2>6. PICK f, r, z, l : disk = [fmt |-> f, riff |-> r, size |-> z, len |-> l]
    BY Zenon DEF LossInv, Lost
  <2>7. disk'.len = disk.len + k
    BY <2>3, <2>6
  <2>8. disk.len = m * n + 0 /\ disk'.len = m * n + k
    <3>1. PICK a \in Int : a = m * n
      BY Z3
    <3>2. QED
      BY <2>5, <2>7, <3>1
  <2>9. Fragments = m /\ Fragments' = m
    BY <1>1, <2>1, <2>2, <2>4, <2>8, FragmentsCounted, CountIs DEF Updating
  <2>10. RecorderState' = "ready" /\ RecInv'
    BY <2>2 DEF RecorderState, RecInv, Failed
  <2>11. QED
    BY <1>1, <2>2, <2>9, <2>10 DEF RecStep, Rec!RecorderNext, Rec!Write
<1>5. QED
  BY <1>2, <1>3, <1>4 DEF wav_write

(* The fragment under way, in the file or not yet. *)
LEMMA BeingWritten ==
    ASSUME SetInv, FileInv, LossInv, RecInv, wpc \in {"flush"} \cup Updating,
           NEW n \in Nat \ {0}, n = FragmentBytes
    PROVE  /\ ~g_err
           /\ \E m \in Nat :
                 /\ disk.len = (IF wpc \in Updating THEN m + 1 ELSE m) * n
                 /\ disk' = Flushed => disk'.len = (m + 1) * n
<1>1. ~g_err
  BY DEF LossInv, Updating
<1>2. PICK f : \E w \in Nat : Writing(f, w, n)
  BY <1>1 DEF FileInv, Unopened, BeingSet, Setters, Settled, Updating
<1>3. PICK w \in Nat : Writing(f, w, n)
  BY <1>2
<1>4. PICK M \in Nat : disk.len = M * n
  <2>1. 0 \in Nat /\ 0 * n = 0
    BY Z3
  <2>2. QED
    BY <1>1, <2>1 DEF RecInv, Failed, Updating
<1>5. PICK x, r, z : /\ x = (DataOffset - 8 + (w + n)) % SizeMod
                     /\ r = (DataOffset - 8 + w) % SizeMod /\ z = w % SizeMod
  BY Zenon
<1>6. CASE wpc = "flush"
  <2>1. /\ disk = [fmt |-> f, riff |-> r, size |-> z, len |-> w] /\ "data" \in pend
        /\ pos = DataOffset + w + n
    BY <1>3, <1>5, <1>6 DEF Writing, DiskIs
  <2>2. disk.len = w
    BY <2>1
  <2>3. w + n = (M + 1) * n
    BY <1>4, <2>2, Z3
  <2>4. pos - DataOffset = w + n /\ w \in Int /\ w + n \in Int /\ w <= w + n
    BY <2>1, Zero
  <2>5. Max({w, pos - DataOffset}) = w + n
    BY <2>4, MaxOfTwo, Zenon
  <2>6. ASSUME disk' = Flushed PROVE disk'.len = w + n
    <3>1. disk' = [fmt  |-> f,
                   riff |-> IF "riff" \in pend THEN mem.riff ELSE r,
                   size |-> IF "new_size" \in pend THEN mem.size ELSE z,
                   len  |-> IF "data" \in pend THEN Max({w, pos - DataOffset}) ELSE w]
      BY <2>1, <2>6, FlushedIs
    <3>2. QED
      BY <2>1, <2>5, <3>1
  <2>7. wpc \notin Updating
    BY <1>6 DEF Updating
  <2>8. QED
    BY <1>1, <1>4, <2>3, <2>6, <2>7, Zenon
<1>7. CASE wpc \in Updating
  <2>1. PICK q : /\ disk = [fmt |-> f, riff |-> q, size |-> z, len |-> w + n]
                 /\ "data" \notin pend
    BY <1>3, <1>5, <1>7 DEF Writing, DiskIs, Updating
  <2>2. disk.len = w + n
    BY <2>1
  <2>3. M # 0
    BY <1>4, <2>2
  <2>4. PICK m \in Nat : M = m + 1
    <3>1. M - 1 \in Nat /\ M = (M - 1) + 1
      BY <2>3
    <3>2. QED
      BY <3>1
  <2>5. disk.len = (m + 1) * n /\ w + n = (m + 1) * n
    BY <1>4, <2>2, <2>4, Zenon
  <2>6. ASSUME disk' = Flushed PROVE disk'.len = w + n
    <3>1. disk' = [fmt  |-> f,
                   riff |-> IF "riff" \in pend THEN mem.riff ELSE q,
                   size |-> IF "new_size" \in pend THEN mem.size ELSE z,
                   len  |-> IF "data" \in pend THEN Max({w + n, pos - DataOffset}) ELSE w + n]
      BY <2>1, <2>6, FlushedIs, Zenon
    <3>2. QED
      BY <2>1, <3>1
  <2>7. QED
    BY <1>1, <1>7, <2>5, <2>6, Zenon
<1>8. QED
  BY <1>6, <1>7

LEMMA PartOf ==
    ASSUME NEW n \in Nat \ {0}, NEW w \in Nat, NEW l \in Nat, w <= l, l <= w + n, l # w + n
    PROVE  \E k \in Nat : k < n /\ l = w + k
<1>1. l - w \in Nat /\ l - w < n /\ l = w + (l - w)
  OBVIOUS
<1>2. QED
  BY <1>1

(* What is counted when some of a fragment, or all of it, is added. *)
LEMMA Advanced ==
    ASSUME NEW n \in Nat \ {0}, n = FragmentBytes, n = FragmentBytes', NEW m \in Nat,
           disk.len = (IF wpc \in Updating THEN m + 1 ELSE m) * n,
           NEW w \in Nat, w = m * n, NEW l \in Nat, disk'.len = l, w <= l, l <= w + n,
           wpc' \notin Updating
    PROVE  Fragments = m /\ Fragments' \in {m, m + 1}
<1>1. Fragments = m
  <2>1. CASE wpc \in Updating
    <3>1. PICK p \in Nat : p = m + 1 /\ p >= 1
      OBVIOUS
    <3>2. disk.len = p * n
      BY <2>1, <3>1, Zenon
    <3>3. Count(wpc, disk.len, n) = IF wpc \in Updating THEN p - 1 ELSE p
      BY <3>1, <3>2, CountWhole, Zenon
    <3>4. Fragments = p - 1
      BY <2>1, <3>3, FragmentsCounted, Zenon
    <3>5. QED
      BY <3>1, <3>4
  <2>2. CASE wpc \notin Updating
    <3>1. disk.len = m * n
      BY <2>2, Zenon
    <3>2. Count(wpc, disk.len, n) = IF wpc \in Updating THEN m - 1 ELSE m
      BY <2>2, <3>1, CountWhole, Zenon
    <3>3. QED
      BY <2>2, <3>2, FragmentsCounted, Zenon
  <2>3. QED
    BY <2>1, <2>2
<1>2. CASE l = w + n
  <2>1. PICK p \in Nat : p = m + 1
    OBVIOUS
  <2>2. disk'.len = p * n
    <3>1. p * n = m * n + n
      BY <2>1, Z3
    <3>2. QED
      BY <1>2, <3>1, Zenon
  <2>3. Count(wpc', disk'.len, n) = IF wpc' \in Updating THEN p - 1 ELSE p
    BY <2>2, CountWhole, Zenon
  <2>4. Fragments' = p
    BY <2>3, FragmentsCounted, Zenon
  <2>5. QED
    BY <1>1, <2>1, <2>4, Zenon
<1>3. CASE l # w + n
  <2>1. PICK k \in Nat : k < n /\ l = w + k
    BY <1>3, PartOf, Zenon
  <2>2. disk'.len = m * n + k
    BY <2>1, Zenon
  <2>3. Count(wpc', disk'.len, n) = IF wpc' \in Updating THEN m - 1 ELSE m
    <3>1. PICK pc, len : pc = wpc' /\ len = disk'.len
      OBVIOUS
    <3>2. k < n /\ (pc \in Updating => m >= 1) /\ len = m * n + k
      BY <2>1, <2>2, <3>1, Zenon
    <3>3. Count(pc, len, n) = IF pc \in Updating THEN m - 1 ELSE m
      BY <3>2, CountIs
    <3>4. QED
      BY <3>1, <3>3, Zenon
  <2>4. Fragments' = m
    BY <2>3, FragmentsCounted, Zenon
  <2>5. QED
    BY <1>1, <2>4, Zenon
<1>4. QED
  BY <1>2, <1>3

LEMMA CutLen ==
    ASSUME SetInv, FileInv, LossInv, wpc = "flush", disk' \in PartlyFlushed,
           NEW n \in Nat \ {0}, n = FragmentBytes, NEW w \in Nat, disk.len = w
    PROVE  \E l \in Nat : disk'.len = l /\ w <= l /\ l <= w + n
<1>1. CASE disk' = disk
  BY <1>1
<1>2. CASE disk' # disk
  <2>1. PICK f, r : \E a, l \in Nat : CutAt(f, r, a, l, n)
    BY <1>2, CutFlush
  <2>2. PICK a \in Nat, l \in Nat : CutAt(f, r, a, l, n)
    BY <2>1
  <2>3. PICK z : z = a % SizeMod
    BY Zenon
  <2>4. /\ disk = [fmt |-> f, riff |-> r, size |-> z, len |-> a]
        /\ disk' = [fmt |-> f, riff |-> r, size |-> z, len |-> l]
        /\ a <= l /\ l <= a + n
    BY <2>2, <2>3, Zenon DEF CutAt
  <2>5. QED
    BY <2>4
<1>3. QED
  BY <1>1, <1>2

LEMMA UpdateRec ==
    ASSUME SetInv, FileInv, LossInv, RecInv, FragmentBytes' = FragmentBytes, wav_update_sizes
    PROVE  RecInv' /\ RecStep
<1>1. wpc \in {"flush"} \cup Updating /\ RecorderState = "ready"
  BY DEF wav_update_sizes, UpdateSizes, SeekAndWrite, UpdateFails, RecorderState, Updating
<1>2. PICK n \in Nat \ {0} : n = FragmentBytes /\ n = FragmentBytes'
  BY <1>1, FragmentPositive DEF Updating
<1>3. PICK m \in Nat : /\ disk.len = (IF wpc \in Updating THEN m + 1 ELSE m) * n
                       /\ disk' = Flushed => disk'.len = (m + 1) * n
  BY <1>1, <1>2, BeingWritten
<1>4. g_err = FALSE
  BY <1>1, <1>2, BeingWritten DEF RecInv
<1>5. PICK w \in Nat : w = m * n /\ (m + 1) * n = w + n
  BY Z3
<1>6. CASE UpdateSizes
  <2>1. /\ disk' = Flushed /\ g_err' = FALSE /\ wpc' \in Updating \cup {"idle"}
        /\ wpc' = "idle" => wpc \in Updating
    BY <1>4, <1>6 DEF UpdateSizes, SeekAndWrite, Updating
  <2>2. disk'.len = (m + 1) * n
    BY <1>3, <2>1
  <2>3. RecInv'
    <3>1. m + 1 \in Nat
      OBVIOUS
    <3>2. QED
      BY <1>2, <2>1, <2>2, <3>1, Zenon DEF RecInv
  <2>4. RecorderState' = "ready"
    BY <2>1 DEF RecorderState, Updating
  <2>5. PICK p \in Nat : p = m + 1 /\ p >= 1
    OBVIOUS
  <2>6. Fragments = m
    <3>1. CASE wpc \in Updating
      <4>1. disk.len = p * n
        BY <1>3, <2>5, <3>1, Zenon
      <4>2. Count(wpc, disk.len, n) = IF wpc \in Updating THEN p - 1 ELSE p
        BY <2>5, <4>1, CountWhole, Zenon
      <4>3. Fragments = p - 1
        BY <1>2, <3>1, <4>2, FragmentsCounted, Zenon
      <4>4. QED
        BY <2>5, <4>3
    <3>2. CASE wpc \notin Updating
      <4>1. disk.len = m * n
        BY <1>3, <3>2, Zenon
      <4>2. Count(wpc, disk.len, n) = IF wpc \in Updating THEN m - 1 ELSE m
        BY <3>2, <4>1, CountWhole, Zenon
      <4>3. QED
        BY <1>2, <3>2, <4>2, FragmentsCounted, Zenon
    <3>3. QED
      BY <3>1, <3>2
  <2>7. Fragments' = IF wpc' \in Updating THEN m ELSE m + 1
    <3>1. disk'.len = p * n
      BY <2>2, <2>5, Zenon
    <3>2. Count(wpc', disk'.len, n) = IF wpc' \in Updating THEN p - 1 ELSE p
      BY <2>5, <3>1, CountWhole, Zenon
    <3>3. Fragments' = IF wpc' \in Updating THEN p - 1 ELSE p
      BY <1>2, <3>2, FragmentsCounted, Zenon
    <3>4. QED
      BY <2>5, <3>3
  <2>8. QED
    BY <1>1, <1>4, <2>1, <2>3, <2>4, <2>6, <2>7 DEF RecStep, Rec!RecorderNext, Rec!Write
<1>7. CASE UpdateFails
  <2>1. g_err' = TRUE /\ wpc' = "idle"
    BY <1>7 DEF UpdateFails
  <2>2. wpc' \notin Updating /\ wpc # "killed"
    BY <1>1, <2>1 DEF Updating
  <2>3. PICK l \in Nat : disk'.len = l /\ w <= l /\ l <= w + n
    <3>1. CASE disk' = Flushed
      BY <1>3, <1>5, <3>1
    <3>2. CASE disk' = disk /\ wpc \in Updating
      BY <1>3, <1>5, <3>2
    <3>3. CASE wpc = "flush" /\ disk' \in PartlyFlushed
      <4>1. disk.len = w
        BY <1>3, <1>5, <3>3 DEF Updating
      <4>2. QED
        BY <1>2, <3>3, <4>1, CutLen
    <3>4. QED
      BY <1>1, <1>7, <3>1, <3>2, <3>3 DEF UpdateFails
  <2>4. Fragments = m /\ Fragments' \in {m, m + 1}
    BY <1>2, <1>3, <1>5, <2>2, <2>3, Advanced
  <2>5. RecorderState' = "ready" /\ RecInv'
    BY <2>1 DEF RecorderState, RecInv, Failed
  <2>6. QED
    BY <1>1, <1>4, <2>1, <2>4, <2>5 DEF RecStep, Rec!RecorderNext, Rec!Write
<1>8. QED
  BY <1>6, <1>7 DEF wav_update_sizes

LEMMA CloseRec ==
    ASSUME SetInv, FileInv, LossInv, RecInv, FragmentBytes' = FragmentBytes, wav_close
    PROVE  RecInv' /\ RecStep
<1>1. wpc = "idle" /\ wpc' = "closed" /\ g_err' = g_err
  BY DEF wav_close
<1>2. pend \subseteq {"data_header"}
  BY <1>1, Zenon DEF LossInv, FileInv, Unopened, BeingSet, Settled, Writing
<1>3. disk' = disk
  BY <1>2, CloseKeepsFile DEF wav_close
<1>4. Fragments' = Fragments
  BY <1>1, <1>3, FragmentsCounted DEF Count, Updating
<1>5. RecorderState = "ready" /\ RecorderState' = "left"
  BY <1>1 DEF RecorderState
<1>6. RecInv'
  BY <1>1, <1>3 DEF RecInv, Failed
<1>7. QED
  BY <1>1, <1>4, <1>5, <1>6 DEF RecStep, Rec!RecorderNext, Rec!Leave

LEMMA KillRec ==
    ASSUME SetInv, FileInv, LossInv, RecInv, FragmentBytes' = FragmentBytes, WavKilled,
           wpc # "unused"
    PROVE  RecInv' /\ RecStep
<1>1. /\ wpc \notin WavSettled /\ wpc' = "killed" /\ g_err' = g_err
      /\ disk' \in PartlyFlushed
  BY DEF WavKilled
<1>2. RecorderState \in {"setup", "ready"} /\ RecorderState' = "left"
  BY <1>1 DEF RecorderState, WavSettled
<1>3. RecInv'
  BY <1>1 DEF RecInv, Failed
<1>4. wpc' \notin Updating /\ wpc # "killed"
  BY <1>1 DEF Updating, WavSettled
<1>5. CASE wpc \in {"flush"} \cup Updating
  <2>1. PICK n \in Nat \ {0} : n = FragmentBytes /\ n = FragmentBytes'
    BY FragmentPositive
  <2>2. PICK m \in Nat : disk.len = (IF wpc \in Updating THEN m + 1 ELSE m) * n
    BY <1>5, <2>1, BeingWritten
  <2>3. PICK w \in Nat : w = m * n /\ (m + 1) * n = w + n
    BY Z3
  <2>4. PICK l \in Nat : disk'.len = l /\ w <= l /\ l <= w + n
    <3>1. CASE wpc = "flush"
      <4>1. disk.len = w
        BY <2>2, <2>3, <3>1 DEF Updating
      <4>2. QED
        BY <1>1, <2>1, <3>1, <4>1, CutLen
    <3>2. CASE wpc \in Updating
      <4>1. disk' = disk
        BY <1>1, <1>4, <3>2, CutFlush DEF Updating
      <4>2. QED
        BY <2>2, <2>3, <3>2, <4>1
    <3>3. QED
      BY <1>5, <3>1, <3>2
  <2>5. Fragments = m /\ Fragments' \in {m, m + 1}
    BY <1>4, <2>1, <2>2, <2>3, <2>4, Advanced
  <2>6. QED
    BY <1>1, <1>2, <1>3, <2>5 DEF RecStep, Rec!RecorderNext, Rec!Leave
<1>6. CASE wpc \notin {"flush"} \cup Updating
  <2>1. disk' = disk
    BY <1>1, <1>4, <1>6, CutFlush
  <2>2. Fragments' = Fragments
    BY <1>4, <1>6, <2>1, FragmentsCounted DEF Count
  <2>3. QED
    BY <1>1, <1>2, <1>3, <2>2 DEF RecStep, Rec!RecorderNext, Rec!Leave
<1>7. QED
  BY <1>5, <1>6

LEMMA RecInit == SessionInit => RecInv /\ Rec!RecorderInit
<1> SUFFICES ASSUME SessionInit PROVE RecInv /\ Rec!RecorderInit
  OBVIOUS
<1>1. wpc = "unused" /\ g_err = FALSE /\ disk.len = 0
  BY DEF SessionInit, WavInit
<1>2. RecorderState = "setup" /\ Fragments = 0
  BY <1>1 DEF RecorderState, Fragments
<1>3. QED
  BY <1>1, <1>2 DEF RecInv, Rec!RecorderInit

LEMMA RecNext ==
    ASSUME SetInv, FileInv, LossInv, RecInv, [SessionNext]_svars PROVE RecInv' /\ RecStep
<1>1. ASSUME lset' = lset PROVE FragmentBytes' = FragmentBytes
  BY <1>1, Zenon DEF FragmentBytes
<1>2. CASE UNCHANGED <<lset, wvars>>
  <2>1. /\ wpc' = wpc /\ g_err' = g_err /\ disk' = disk /\ FragmentBytes' = FragmentBytes
    BY <1>1, <1>2 DEF wvars
  <2>2. RecorderState' = RecorderState /\ Fragments' = Fragments
    BY <2>1, Zenon DEF RecorderState, Fragments
  <2>3. RecInv'
    BY <2>1, Zenon DEF RecInv, Failed
  <2>4. QED
    BY <2>1, <2>2, <2>3 DEF RecStep
<1>3. CASE RecorderStep
  BY <1>1, <1>3, SetterRec, UpdateRec DEF RecorderStep
<1>4. CASE PlayFragment /\ ~UNCHANGED <<lset, wvars>>
  BY <1>1, <1>4, WriteRec DEF PlayFragment, FragmentBytes
<1>5. CASE EndSession /\ ~UNCHANGED <<lset, wvars>>
  BY <1>1, <1>5, CloseRec DEF EndSession
<1>6. CASE ListenerDies /\ ~UNCHANGED <<lset, wvars>>
  BY <1>1, <1>6, KillRec DEF ListenerDies
<1>7. CASE ListenerStarts
  <2>1. /\ wpc = "unused" /\ wpc' \in {"unused", "open"} /\ g_err' = g_err /\ disk' = disk
    BY <1>7 DEF ListenerStarts, SetInv
  <2>2. Unopened
    BY <2>1 DEF LossInv, FileInv, BeingSet, Setters, Settled, Writing
  <2>3. disk.len = 0 /\ disk'.len = 0
    BY <2>1, <2>2 DEF Unopened
  <2>4. Fragments = 0 /\ Fragments' = 0
    BY <2>3, Zenon DEF Fragments
  <2>5. RecorderState = "setup" /\ RecorderState' = "setup"
    BY <2>1 DEF RecorderState
  <2>6. RecInv'
    BY <2>1, <2>3 DEF RecInv
  <2>7. QED
    BY <2>1, <2>4, <2>5, <2>6 DEF RecStep
<1>8. QED
  BY <1>2, <1>3, <1>4, <1>5, <1>6, <1>7, RecorderActs

(* The steps of libwav, with every failure and kill between them, are for  *)
(* the listener writes that add a whole fragment or set the error, which is*)
(* how AvbListener has them.                                               *)
THEOREM LibraryImplementsRecorder == SessionSpec => ImplementsRecorder
<1>1. SetInv /\ FileInv /\ LossInv /\ RecInv /\ [SessionNext]_svars
      => RecInv' /\ [Rec!RecorderNext]_<<RecorderState, Fragments, g_err>>
  BY RecNext DEF RecStep
<1>2. QED
  BY <1>1, RecInit, SettingsCorrect, FileCorrect, NothingMoreLost, PTL
  DEF SessionSpec, ImplementsRecorder, Rec!RecorderSpec

=============================================================================
