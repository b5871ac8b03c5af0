------------------------- MODULE AvbListener_proofs -------------------------
(***************************************************************************)
(* Theorems about AvbListener, for every packet set, epoch, bound and      *)
(* session: type correctness, the invariant that ties the packet timer to  *)
(* the buffer, what follows from it for playback, and the implementation   *)
(* of Playout.                                                             *)
(***************************************************************************)
EXTENDS AvbListener, SequenceTheorems, TLAPS

(* Recovering a time from a timestamp and a clock gives a time. *)
LEMMA PresentationIsTime ==
    ASSUME NEW ts \in Nat, NEW clock \in Nat
    PROVE  get_presentation_time(ts, clock) \in Nat
BY EpochAssumption DEF get_presentation_time

(* A fragment due in the epoch the clock is in is recovered exactly, and   *)
(* any other one is off by the epochs between the two.                     *)
LEMMA RecoveredTime ==
    ASSUME NEW clock \in Nat, NEW arrival \in Nat, NEW transit \in Nat
    PROVE  LET due == clock + transit IN
           get_presentation_time(calculate_avtp_time(clock, transit), arrival) =
               due + Epoch * ((arrival \div Epoch) - (due \div Epoch))
BY EpochAssumption, Z3 DEF get_presentation_time, calculate_avtp_time

-----------------------------------------------------------------------------
(* Type correctness.                                                       *)

USE DEF env, seqs, rec, process

LEMMA PacketTypes ==
    ASSUME NEW p \in Packets
    PROVE  /\ p.kind \in Kinds
           /\ p.seq \in 0 .. SeqMod - 1
           /\ p.ts \in Nat
           /\ p.pcm \in Pcms
BY ListenerAssumption, EpochAssumption DEF Pcms

(* The next sequence number is one. *)
LEMMA NextSequenceNumber ==
    ASSUME NEW p \in Packets, NEW e \in 0 .. SeqMod - 1
    PROVE  is_valid_packet(p, e) \in 0 .. SeqMod - 1
<1>1. \A n \in 0 .. SeqMod - 1 : Succ(n) \in 0 .. SeqMod - 1
  BY ListenerAssumption DEF Succ
<1>2. QED
  BY <1>1, PacketTypes DEF is_valid_packet

(* A gap is counted with a natural number. *)
LEMMA GapIsNat ==
    ASSUME NEW p \in Packets, expected_seq \in 0 .. SeqMod - 1, dropped \in Nat
    PROVE  avb_stats_add_dropped(p) \in Nat
<1>1. (p.seq - expected_seq) % SeqMod \in Nat
  BY PacketTypes, ListenerAssumption
<1>2. QED
  BY <1>1 DEF avb_stats_add_dropped

LEMMA ConstantTypes ==
    /\ SeqMod \in Nat \ {0}
    /\ StartTime \in Nat /\ RecTime \in Nat /\ MaxTransit \in Nat /\ HwLatency \in Nat
BY ListenerAssumption

LEMMA TypeInit == Init => TypeOK
<1> SUFFICES ASSUME Init PROVE TypeOK
  OBVIOUS
<1>1. esc \in BOOLEAN /\ is_running \in BOOLEAN /\ wav_err \in BOOLEAN
  BY Zenon DEF Init
<1>2. QED
  BY <1>1, ConstantTypes DEF Init, TypeOK, PCs, NoTime

LEMMA TypeSetup == TypeOK /\ Setup => TypeOK'
<1> SUFFICES ASSUME TypeOK, Setup PROVE TypeOK'
  OBVIOUS
<1>1. Starting
  BY DEF Setup, SetupFails, WavOpenFails, UninitialisedResult, SessionTimerFails,
         StartSession
<1>2. pc' \in PCs /\ file' \in {"none", "tmp", "named", "misnamed"}
  BY DEF TypeOK, Setup, SetupFails, WavOpenFails, UninitialisedResult,
         SessionTimerFails, StartSession, PCs, Ended
<1>3. session' \in Nat
  BY ConstantTypes DEF TypeOK, Setup, SetupFails, WavOpenFails, UninitialisedResult,
                       SessionTimerFails, StartSession, NoTime
<1>4. wav_err' \in BOOLEAN
  BY ListenerAssumption, Zenon
     DEF TypeOK, Setup, SetupFails, WavOpenFails, UninitialisedResult,
         SessionTimerFails, StartSession
<1>5. QED
  BY <1>1, <1>2, <1>3, <1>4 DEF TypeOK, Starting

LEMMA TypePacket == TypeOK /\ new_packet => TypeOK'
<1> SUFFICES ASSUME TypeOK, new_packet PROVE TypeOK'
  OBVIOUS
<1> DEFINE p == Head(rx)
           presentation == get_presentation_time(p.ts, now)
<1>1. Receive
  BY DEF new_packet, RecvFails, DropPacket, DiscardLate, Accept, AcceptFails, Kept
<1>2. /\ p \in Packets
      /\ rx' \in Seq(Packets)
  BY <1>1 DEF Receive, TypeOK
<1>3. presentation \in Nat
  BY <1>2, PacketTypes, PresentationIsTime DEF TypeOK
<1>4. is_valid_packet(p, expected_seq) \in 0 .. SeqMod - 1
  BY <1>2, NextSequenceNumber DEF TypeOK
<1>5. avb_stats_add_dropped(p) \in Nat
  BY <1>2, GapIsNat DEF TypeOK
<1>6. [tspec |-> presentation, pcm |-> p.pcm] \in Sample
  BY <1>2, <1>3, PacketTypes DEF Sample
<1>7. <<presentation>> \o stats \in Seq(Nat)
  BY <1>3 DEF TypeOK
<1>8. CASE RecvFails
  BY <1>1, <1>2, <1>8 DEF TypeOK, RecvFails, Receive, PCs
<1>9. CASE DropPacket
  BY <1>1, <1>2, <1>4, <1>9 DEF TypeOK, DropPacket, Receive, PCs
<1>10. CASE DiscardLate
  BY <1>1, <1>2, <1>4, <1>10 DEF TypeOK, DiscardLate, Receive, PCs
<1>11. CASE Accept
  BY <1>1, <1>2, <1>3, <1>4, <1>5, <1>6, <1>7, <1>11
     DEF TypeOK, Accept, Kept, schedule_sample, Receive, PCs
<1>12. CASE AcceptFails
  BY <1>1, <1>2, <1>4, <1>5, <1>7, <1>12 DEF TypeOK, AcceptFails, Kept, Receive, PCs, Ended
<1>13. QED
  BY <1>8, <1>9, <1>10, <1>11, <1>12 DEF new_packet

LEMMA TypePlay == TypeOK /\ Play => TypeOK'
<1> SUFFICES ASSUME TypeOK, Play PROVE TypeOK'
  OBVIOUS
<1>1. ASSUME samples # <<>>
      PROVE  /\ Head(samples) \in Sample
             /\ Tail(samples) \in Seq(Sample)
             /\ Append(played, Head(samples)) \in Seq(Sample)
             /\ Append(wav, Head(samples)) \in Seq(Sample)
  BY <1>1 DEF TypeOK
<1>2. ASSUME play_fragment, Playing, timer' \in Nat
      PROVE  TypeOK'
  BY <1>1, <1>2 DEF TypeOK, Playing, play_fragment, wav_write, PCs, Ended
<1>3. CASE PlayRunning
  BY <1>2, <1>3 DEF PlayRunning, TypeOK
<1>4. CASE PlayFirst
  BY <1>2, <1>4 DEF PlayFirst, aaf_timeout, NoTime
<1>5. CASE TimerReadFails \/ WavTellAborts \/ PlayNothing
  BY <1>5 DEF TypeOK, TimerReadFails, WavTellAborts, PlayNothing, Playing, PCs, Ended
<1>6. QED
  BY <1>3, <1>4, <1>5 DEF Play

LEMMA TypeEnd == TypeOK /\ (Finish \/ FinishCrashes) => TypeOK'
<1>1. TypeOK /\ Len(stats) > 1 => avb_stats_get_cap_time(avb_stats_get_first) \in Int
  BY ListenerAssumption DEF TypeOK, avb_stats_get_cap_time, avb_stats_get_first
<1>2. QED
  BY <1>1 DEF TypeOK, Finish, FinishCrashes, Ending, close_wav_recorder, PCs, Ended

LEMMA TypeEnvironment ==
    ASSUME TypeOK, Tick \/ (\E p \in Packets : Arrive(p)) \/ PressEsc
    PROVE  TypeOK'
<1>1. CASE Tick
  BY <1>1 DEF TypeOK, Tick
<1>2. ASSUME NEW p \in Packets, Arrive(p)
      PROVE  TypeOK'
  BY <1>2 DEF TypeOK, Arrive
<1>3. CASE PressEsc
  <2>1. esc' \in BOOLEAN
    BY <1>3, Zenon DEF PressEsc
  <2>2. QED
    BY <1>3, <2>1 DEF TypeOK, PressEsc
<1>4. QED
  BY <1>1, <1>2, <1>3

LEMMA TypeStep == TypeOK /\ [Next]_vars => TypeOK'
<1> SUFFICES ASSUME TypeOK, [Next]_vars PROVE TypeOK'
  OBVIOUS
<1>1. CASE Poll \/ PollFails \/ Check
  BY <1>1 DEF TypeOK, Poll, PollFails, Check, Ready, PCs
<1>2. CASE UNCHANGED vars \/ Gone
  BY <1>2 DEF TypeOK, vars, Gone
<1>3. QED
  BY <1>1, <1>2, TypeSetup, TypePacket, TypePlay, TypeEnd, TypeEnvironment
     DEF Next, Listener

(* Every variable keeps its type, for any packets, clock and bounds. *)
THEOREM TypeCorrect == Spec => []TypeOK
<1>1. QED
  BY TypeInit, TypeStep, PTL DEF Spec

-----------------------------------------------------------------------------
(* The buffer and its timer.                                               *)

LEMMA BufferInit == Init => BufferInv
BY DEF Init, BufferInv, TimerTracksHead, InSession, NoTime, Ended

LEMMA BufferPacket == TypeOK /\ BufferInv /\ new_packet => BufferInv'
<1> SUFFICES ASSUME TypeOK, BufferInv, new_packet PROVE BufferInv'
  OBVIOUS
<1>1. CASE RecvFails \/ AcceptFails
  BY <1>1 DEF RecvFails, AcceptFails, BufferInv, TimerTracksHead, InSession, Ended
<1>2. CASE DropPacket \/ DiscardLate
  BY <1>2 DEF DropPacket, DiscardLate, Receive, BufferInv, TimerTracksHead, InSession,
              Fired, Ended
<1>3. CASE Accept
  <2> DEFINE s == [tspec |-> get_presentation_time(Head(rx).ts, now),
                   pcm |-> Head(rx).pcm]
  <2>1. /\ pc = "packet" /\ pc' = "play"
        /\ schedule_sample(s)
        /\ UNCHANGED <<now, revents, is_running>>
    BY <1>3 DEF Accept, Kept, Receive
  <2>2. /\ samples' = Append(samples, s)
        /\ samples' # <<>>
        /\ Head(samples') = IF samples = <<>> THEN s ELSE Head(samples)
    BY <2>1 DEF schedule_sample, TypeOK
  <2>3. CASE samples = <<>>
    <3>1. ~is_running /\ "timer" \notin revents
      BY <2>1, <2>3 DEF BufferInv, TimerTracksHead, InSession, Fired, Ended
    <3>2. timer' = s.tspec
      BY <2>1, <2>3 DEF schedule_sample
    <3>3. QED
      BY <2>1, <2>2, <2>3, <3>1, <3>2 DEF BufferInv, TimerTracksHead, InSession, Ended
  <2>4. CASE samples # <<>>
    <3>1. timer' = timer
      BY <2>1, <2>4 DEF schedule_sample
    <3>2. QED
      BY <2>1, <2>2, <2>4, <3>1 DEF BufferInv, TimerTracksHead, InSession, Fired, Ended
  <2>5. QED
    BY <2>3, <2>4
<1>4. QED
  BY <1>1, <1>2, <1>3 DEF new_packet

(* The two assertions of the playback path hold where they are made. *)
LEMMA PlaybackIsSafe == TypeOK /\ BufferInv => NoEmptyPlay /\ TimerReadReady
BY DEF BufferInv, TimerTracksHead, NoEmptyPlay, TimerReadReady, TimerReported, Fired,
       InSession, Ended

LEMMA BufferPlay == TypeOK /\ BufferInv /\ Play => BufferInv'
<1> SUFFICES ASSUME TypeOK, BufferInv, Play PROVE BufferInv'
  OBVIOUS
<1>1. CASE PlayRunning \/ PlayFirst
  <2>1. pc = "play" /\ (is_running \/ "timer" \in revents)
    BY <1>1 DEF PlayRunning, PlayFirst, Playing, TimerReported
  <2>2. samples # <<>>
    BY <2>1, PlaybackIsSafe DEF NoEmptyPlay
  <2>3. timer' = NoTime
    BY <1>1, <2>1, <2>2
       DEF PlayRunning, PlayFirst, aaf_timeout, BufferInv, TimerTracksHead, InSession, Ended
  <2>4. /\ pc' = "check"
        /\ samples' = Tail(samples)
        /\ is_running' = (Tail(samples) # <<>>)
    BY <1>1, <2>2 DEF PlayRunning, PlayFirst, play_fragment
  <2>5. QED
    BY <2>3, <2>4 DEF BufferInv, TimerTracksHead, InSession, Ended
<1>2. CASE TimerReadFails \/ WavTellAborts
  BY <1>2 DEF TimerReadFails, WavTellAborts, BufferInv, TimerTracksHead, InSession, Ended
<1>3. CASE PlayNothing
  BY <1>3 DEF PlayNothing, Playing, BufferInv, TimerTracksHead, InSession, Ended
<1>4. QED
  BY <1>1, <1>2, <1>3 DEF Play

LEMMA BufferStep == TypeOK /\ BufferInv /\ [Next]_vars => BufferInv'
<1> SUFFICES ASSUME TypeOK, BufferInv, [Next]_vars PROVE BufferInv'
  OBVIOUS
<1>1. CASE Setup
  BY <1>1 DEF Setup, Starting, SetupFails, WavOpenFails, UninitialisedResult,
              SessionTimerFails, StartSession, BufferInv, TimerTracksHead, InSession, Ended
<1>2. CASE Poll
  BY <1>2 DEF Poll, Ready, BufferInv, TimerTracksHead, InSession, Fired, Ended
<1>3. CASE PollFails \/ Check
  BY <1>3 DEF PollFails, Check, BufferInv, TimerTracksHead, InSession, Ended
<1>4. CASE Finish \/ FinishCrashes
  BY <1>4 DEF Finish, FinishCrashes, BufferInv, TimerTracksHead, InSession, Ended
<1>5. CASE Tick
  BY <1>5 DEF Tick, BufferInv, TimerTracksHead, InSession, Fired, TypeOK
<1>6. ASSUME (\E p \in Packets : Arrive(p)) \/ PressEsc
      PROVE  BufferInv'
  BY <1>6 DEF Arrive, PressEsc, BufferInv, TimerTracksHead, InSession, Fired
<1>7. CASE UNCHANGED vars \/ Gone
  BY <1>7 DEF vars, Gone, BufferInv, TimerTracksHead, InSession, Fired
<1>8. QED
  BY <1>1, <1>2, <1>3, <1>4, <1>5, <1>6, <1>7, BufferPacket, BufferPlay
     DEF Next, Listener

(* The packet timer always tracks the head of the buffer. *)
THEOREM BufferCorrect == Spec => []BufferInv
<1>1. QED
  BY TypeCorrect, BufferInit, BufferStep, PTL DEF Spec

(* Playback never finds the buffer empty: the assertion that a fragment is *)
(* there cannot fire.                                                      *)
THEOREM PlaybackSafe == Spec => []NoEmptyPlay
<1>1. QED
  BY TypeCorrect, BufferCorrect, PlaybackIsSafe, PTL

(* Playback never blocks on the packet timer: what poll reported of it is  *)
(* still true when the timer is read, after a packet was handled.          *)
THEOREM TimerNeverBlocks == Spec => []TimerReadReady
<1>1. QED
  BY TypeCorrect, BufferCorrect, PlaybackIsSafe, PTL

(* No burst starts before its first fragment is due. *)
THEOREM NeverEarly == Spec => StartNotEarly
<1>1. TypeOK /\ BufferInv /\ [Next]_vars =>
          [played' # played /\ ~is_running => Head(samples).tspec <= now]_vars
  <2> SUFFICES ASSUME TypeOK, BufferInv, Next, played' # played, ~is_running
               PROVE  Head(samples).tspec <= now
    OBVIOUS
  <2>1. PlayFirst
    BY DEF Next, Listener, Setup, Starting, SetupFails, WavOpenFails, UninitialisedResult,
           SessionTimerFails, StartSession, Poll, PollFails, new_packet, RecvFails,
           DropPacket, DiscardLate, Accept, AcceptFails, Kept, Receive, Play, PlayRunning,
           TimerReadFails, WavTellAborts, PlayNothing, Check, Finish, FinishCrashes,
           Ending, Tick, Arrive, PressEsc, Gone, vars
  <2>2. pc = "play" /\ "timer" \in revents /\ Fired(timer)
    BY <2>1 DEF PlayFirst, Playing, TimerReported, aaf_timeout
  <2>3. QED
    BY <2>2 DEF BufferInv, TimerTracksHead, InSession, Fired, Ended
<1>2. QED
  BY <1>1, TypeCorrect, BufferCorrect, PTL DEF Spec, StartNotEarly

-----------------------------------------------------------------------------
(* The recording.                                                          *)

(* A recording is always a prefix of what was played. *)
PrefixInv == Recording =>
    /\ Len(wav) <= Len(played)
    /\ \A i \in 1 .. Len(wav) : wav[i] = played[i]
    /\ ~wav_err => wav = played

LEMMA PrefixImplies == TypeOK /\ PrefixInv => RecordingIsPrefix
BY DEF TypeOK, PrefixInv, RecordingIsPrefix

LEMMA PrefixStep == TypeOK /\ PrefixInv /\ [Next]_vars => PrefixInv'
<1> SUFFICES ASSUME TypeOK, PrefixInv, [Next]_vars PROVE PrefixInv'
  OBVIOUS
<1>1. CASE (PlayRunning \/ PlayFirst) /\ samples # <<>>
  <2>1. /\ played' = Append(played, Head(samples))
        /\ wav_write(Head(samples))
    BY <1>1 DEF PlayRunning, PlayFirst, play_fragment
  <2>2. Head(samples) \in Sample
    BY <1>1 DEF TypeOK
  <2>3. CASE Recording /\ ~wav_err /\ wav' = Append(wav, Head(samples))
    BY <2>1, <2>2, <2>3 DEF TypeOK, PrefixInv
  <2>4. CASE Recording /\ wav' = wav /\ wav_err'
    BY <2>1, <2>2, <2>4 DEF TypeOK, PrefixInv
  <2>5. CASE (~Recording \/ wav_err) /\ UNCHANGED <<wav, wav_err>>
    BY <2>1, <2>2, <2>5 DEF TypeOK, PrefixInv
  <2>6. QED
    BY <2>1, <2>3, <2>4, <2>5 DEF wav_write
<1>2. CASE UNCHANGED <<played, wav, wav_err>>
  BY <1>2 DEF PrefixInv
<1>3. CASE StartSession
  <2>1. UNCHANGED <<played, wav>> /\ wav_err' \in {wav_err, Recording}
    BY <1>3 DEF StartSession, Starting
  <2>2. CASE wav_err' = wav_err
    BY <2>1, <2>2 DEF PrefixInv
  <2>3. CASE wav_err' = Recording
    BY <2>1, <2>3 DEF PrefixInv
  <2>4. QED
    BY <2>1, <2>2, <2>3
<1>4. QED
  BY <1>1, <1>2, <1>3
     DEF Next, Listener, Setup, Starting, SetupFails, WavOpenFails, UninitialisedResult,
         SessionTimerFails, StartSession, Poll, PollFails, new_packet, RecvFails,
         DropPacket, DiscardLate, Accept, AcceptFails, Kept, Receive, Play, PlayRunning,
         PlayFirst, play_fragment, TimerReadFails, WavTellAborts, PlayNothing, Check, Finish,
         FinishCrashes, Ending, Tick, Arrive, PressEsc, Gone, vars

(* A recording has no hole, whichever write of it failed. *)
THEOREM RecordingHasNoHole == Spec => []RecordingIsPrefix
<1>1. Init => PrefixInv
  BY DEF Init, PrefixInv
<1>2. QED
  BY <1>1, TypeCorrect, PrefixStep, PrefixImplies, PTL DEF Spec

LEMMA FirstNodePacket == TypeOK /\ FirstNodeInv /\ new_packet => FirstNodeInv'
<1> SUFFICES ASSUME TypeOK, FirstNodeInv, new_packet PROVE FirstNodeInv'
  OBVIOUS
<1> DEFINE pres == get_presentation_time(Head(rx).ts, now)
<1>1. /\ pc = "packet" /\ file # "named"
      /\ UNCHANGED <<played, file, stamp>>
  BY DEF new_packet, RecvFails, DropPacket, DiscardLate, Accept, AcceptFails, Kept,
         Receive, FirstNodeInv
<1>2. InSession
  BY <1>1 DEF InSession, Ended
<1>3. CASE RecvFails \/ DropPacket \/ DiscardLate
  BY <1>1, <1>2, <1>3 DEF RecvFails, DropPacket, DiscardLate, FirstNodeInv,
                    StampIsFirstPlayed, avb_stats_get_first, avb_stats_get_cap_time
<1>4. pres \in Nat
  <2>1. Head(rx) \in Packets
    BY DEF new_packet, RecvFails, DropPacket, DiscardLate, Accept, AcceptFails, Kept,
           Receive, TypeOK
  <2>2. QED
    BY <2>1, PacketTypes, PresentationIsTime DEF TypeOK
<1>5. LET s == <<pres>> \o stats IN
      /\ s # <<>>
      /\ s[Len(s)] = IF stats = <<>> THEN pres ELSE stats[Len(stats)]
  BY <1>4 DEF TypeOK
<1>6. CASE Accept
  <2>1. /\ stats' = <<pres>> \o stats
        /\ samples' = Append(samples, [tspec |-> pres, pcm |-> Head(rx).pcm])
        /\ pc' = "play"
    BY <1>6 DEF Accept, schedule_sample
  <2>2. /\ samples' # <<>>
        /\ samples'[1].tspec = IF samples = <<>> THEN pres ELSE samples[1].tspec
    BY <2>1, <1>4, <1>6 DEF TypeOK
  <2>3. QED
    BY <1>1, <1>2, <1>5, <1>6, <2>1, <2>2
       DEF FirstNodeInv, StampIsFirstPlayed, avb_stats_get_first
<1>7. CASE AcceptFails
  <2>1. /\ stats' \in {stats, <<pres>> \o stats}
        /\ samples' = samples
        /\ pc' \in {"end", "crashed"}
    BY <1>7 DEF AcceptFails
  <2>2. QED
    BY <1>1, <1>2, <1>5, <1>7, <2>1
       DEF FirstNodeInv, StampIsFirstPlayed, avb_stats_get_first, InSession, Ended
<1>8. QED
  BY <1>3, <1>6, <1>7 DEF new_packet

LEMMA FirstNodePlay == TypeOK /\ BufferInv /\ FirstNodeInv /\ Play => FirstNodeInv'
<1> SUFFICES ASSUME TypeOK, BufferInv, FirstNodeInv, Play PROVE FirstNodeInv'
  OBVIOUS
<1>1. /\ pc = "play" /\ file # "named"
      /\ UNCHANGED <<stats, file, stamp>>
  BY DEF Play, PlayRunning, PlayFirst, TimerReadFails, WavTellAborts, PlayNothing,
         Playing, FirstNodeInv
<1>2. CASE PlayRunning \/ PlayFirst
  <2>1. samples # <<>>
    BY <1>1, <1>2, PlaybackIsSafe DEF NoEmptyPlay, PlayRunning, PlayFirst, TimerReported
  <2>2. /\ played' = Append(played, Head(samples))
        /\ samples' = Tail(samples)
    BY <1>2, <2>1 DEF PlayRunning, PlayFirst, play_fragment
  <2>3. /\ played' # <<>>
        /\ played'[1] = IF played = <<>> THEN samples[1] ELSE played[1]
    BY <2>1, <2>2 DEF TypeOK
  <2>4. QED
    BY <1>1, <2>1, <2>3 DEF FirstNodeInv, StampIsFirstPlayed, avb_stats_get_first
<1>3. CASE TimerReadFails \/ WavTellAborts \/ PlayNothing
  BY <1>1, <1>3 DEF TimerReadFails, WavTellAborts, PlayNothing, FirstNodeInv, StampIsFirstPlayed,
                    avb_stats_get_first, InSession, Ended
<1>4. QED
  BY <1>2, <1>3 DEF Play

LEMMA FirstNodeStep ==
    TypeOK /\ BufferInv /\ FirstNodeInv /\ [Next]_vars => FirstNodeInv'
<1> SUFFICES ASSUME TypeOK, BufferInv, FirstNodeInv, [Next]_vars PROVE FirstNodeInv'
  OBVIOUS
<1>1. CASE Finish
  BY <1>1 DEF Finish, Ending, close_wav_recorder, FirstNodeInv, StampIsFirstPlayed,
              avb_stats_get_first, InSession, Ended
<1>2. CASE FinishCrashes
  BY <1>2 DEF FinishCrashes, Ending, FirstNodeInv, StampIsFirstPlayed,
              avb_stats_get_first, InSession, Ended
<1>3. CASE Setup
  BY <1>3 DEF Setup, Starting, SetupFails, WavOpenFails, UninitialisedResult,
              SessionTimerFails, StartSession, FirstNodeInv, StampIsFirstPlayed,
              avb_stats_get_first, InSession, Ended
<1>4. CASE Poll \/ PollFails \/ Check
  BY <1>4 DEF Poll, PollFails, Check, FirstNodeInv, StampIsFirstPlayed,
              avb_stats_get_first, InSession, Ended
<1>5. ASSUME Tick \/ (\E p \in Packets : Arrive(p)) \/ PressEsc \/ Gone \/ UNCHANGED vars
      PROVE  FirstNodeInv'
  BY <1>5 DEF Tick, Arrive, PressEsc, Gone, vars, FirstNodeInv, StampIsFirstPlayed,
              avb_stats_get_first, InSession
<1>6. QED
  BY <1>1, <1>2, <1>3, <1>4, <1>5, FirstNodePacket, FirstNodePlay DEF Next, Listener

(* The oldest statistics node is that of the oldest fragment kept. *)
THEOREM FirstNodeCorrect == Spec => []FirstNodeInv
<1>1. Init => FirstNodeInv
  BY DEF Init, FirstNodeInv, StampIsFirstPlayed
<1>2. QED
  BY <1>1, TypeCorrect, BufferCorrect, FirstNodeStep, PTL DEF Spec

(* The time in a recording's name is the capture time of its first         *)
(* fragment, whatever was discarded, dropped or failed before it.          *)
THEOREM RecordingIsStamped == Spec => []StampIsFirstPlayed
<1>1. FirstNodeInv => StampIsFirstPlayed
  BY DEF FirstNodeInv
<1>2. QED
  BY <1>1, FirstNodeCorrect, PTL

-----------------------------------------------------------------------------
(* The listener implements the playout buffer.                             *)

LEMMA PlayoutInit == Init => Playback!Init
BY ConstantTypes DEF Init, Playback!Init, PlayoutMode, InSession, Ended

LEMMA PlayoutPacket ==
    ASSUME TypeOK, TypeOK', BufferInv, new_packet
    PROVE  [Playback!Next]_Playback!vars
<1>1. /\ InSession /\ UNCHANGED <<now, played, is_running>>
  BY DEF new_packet, RecvFails, DropPacket, DiscardLate, Accept, AcceptFails, Kept,
         Receive, InSession, Ended
<1>2. CASE RecvFails \/ AcceptFails
  BY <1>1, <1>2 DEF RecvFails, AcceptFails, PlayoutMode, InSession, Ended, Playback!Next,
                    Playback!Stop
<1>3. CASE DropPacket \/ DiscardLate
  BY <1>1, <1>3 DEF DropPacket, DiscardLate, PlayoutMode, InSession, Ended, Playback!vars
<1>4. CASE Accept
  <2> DEFINE s == [tspec |-> get_presentation_time(Head(rx).ts, now),
                   pcm |-> Head(rx).pcm]
  <2>1. samples' = Append(samples, s) /\ pc' = "play"
    BY <1>4 DEF Accept, schedule_sample
  <2>2. /\ samples' \in Seq(Sample)
        /\ samples' # <<>>
        /\ Len(samples') = Len(samples) + 1
        /\ \A i \in 1 .. Len(samples) : samples'[i] = samples[i]
    <3>1. Head(rx) \in Packets
      BY <1>4 DEF Accept, Kept, Receive, TypeOK
    <3>2. s \in Sample
      BY <3>1, PacketTypes, PresentationIsTime DEF Sample, TypeOK
    <3>3. samples \in Seq(Sample)
      BY DEF TypeOK
    <3>4. QED
      <4> HIDE DEF s
      <4>1. QED
        BY <2>1, <3>2, <3>3, AppendProperties
  <2>3. samples = <<>> => ~is_running
    BY <1>1 DEF BufferInv
  <2>4. PlayoutMode # "stopped"
    BY <1>1 DEF PlayoutMode
  <2>5. PlayoutMode' = IF PlayoutMode = "idle" THEN "armed" ELSE PlayoutMode
    BY <1>1, <2>1, <2>2, <2>3 DEF PlayoutMode, InSession, Ended
  <2>6. Playback!Insert
    BY <1>1, <2>2, <2>4, <2>5 DEF Playback!Insert
  <2>7. QED
    BY <2>6 DEF Playback!Next
<1>5. QED
  BY <1>2, <1>3, <1>4 DEF new_packet

LEMMA PlayoutPlay ==
    ASSUME TypeOK, BufferInv, Play
    PROVE  [Playback!Next]_Playback!vars
<1>1. pc = "play" /\ UNCHANGED now
  BY DEF Play, PlayRunning, PlayFirst, TimerReadFails, WavTellAborts, PlayNothing, Playing
<1>2. CASE PlayRunning \/ PlayFirst
  <2>1. samples # <<>>
    BY <1>1, <1>2, PlaybackIsSafe DEF NoEmptyPlay, PlayRunning, PlayFirst, TimerReported
  <2>2. Playback!Emit
    BY <1>1, <1>2, <2>1 DEF PlayRunning, PlayFirst, play_fragment, Playback!Emit,
                            PlayoutMode, InSession, Ended
  <2>3. CASE PlayRunning
    BY <1>1, <2>2, <2>3 DEF PlayRunning, Playback!Next, Playback!Drain, PlayoutMode,
                            InSession, Ended
  <2>4. CASE PlayFirst
    <3>1. ~is_running /\ Head(samples).tspec <= now
      BY <1>1, <2>1, <2>4 DEF PlayFirst, TimerReported, aaf_timeout, Fired, BufferInv,
                              TimerTracksHead, InSession, Ended
    <3>2. QED
      BY <1>1, <2>1, <2>2, <3>1 DEF Playback!Next, Playback!Start, PlayoutMode, InSession,
                                    Ended
  <2>5. QED
    BY <1>2, <2>3, <2>4
<1>3. CASE TimerReadFails \/ WavTellAborts
  BY <1>1, <1>3 DEF TimerReadFails, WavTellAborts, PlayoutMode, InSession, Ended, Playback!Next,
                    Playback!Stop
<1>4. CASE PlayNothing
  BY <1>1, <1>4 DEF PlayNothing, PlayoutMode, InSession, Ended, Playback!vars
<1>5. QED
  BY <1>2, <1>3, <1>4 DEF Play

LEMMA PlayoutStep ==
    ASSUME TypeOK, TypeOK', BufferInv, [Next]_vars
    PROVE  [Playback!Next]_Playback!vars
<1>1. CASE Setup \/ Poll \/ PollFails \/ Check
  <2>1. /\ InSession /\ UNCHANGED <<now, samples, is_running, played>>
    BY <1>1 DEF Setup, Starting, SetupFails, WavOpenFails, UninitialisedResult,
                SessionTimerFails, StartSession, Poll, PollFails, Check, InSession, Ended
  <2>2. QED
    BY <2>1 DEF PlayoutMode, InSession, Playback!Next, Playback!Stop, Playback!vars
<1>2. CASE Finish \/ FinishCrashes \/ Gone
  BY <1>2 DEF Finish, FinishCrashes, Ending, Gone, vars, PlayoutMode, InSession, Ended,
              Playback!vars
<1>3. CASE Tick
  BY <1>3 DEF Tick, TypeOK, PlayoutMode, InSession, Playback!Next, Playback!Advance
<1>4. ASSUME (\E p \in Packets : Arrive(p)) \/ PressEsc \/ UNCHANGED vars
      PROVE  [Playback!Next]_Playback!vars
  BY <1>4 DEF Arrive, PressEsc, vars, PlayoutMode, InSession, Playback!vars
<1>5. QED
  BY <1>1, <1>2, <1>3, <1>4, PlayoutPacket, PlayoutPlay DEF Next, Listener

(* Every behaviour of the listener is one of the playout buffer. *)
THEOREM ListenerImplementsPlayout == Spec => ImplementsPlayout
<1>1. QED
  BY PlayoutInit, PlayoutStep, TypeCorrect, BufferCorrect, PTL
     DEF Spec, ImplementsPlayout, Playback!Spec

=============================================================================
