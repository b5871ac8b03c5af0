---------------------------- MODULE AvbListener -----------------------------
(***************************************************************************)
(* avbperf's listener (avbperf/avb_aaf.c, avb_aaf_listener and the         *)
(* functions it calls): one process that polls a packet socket and two     *)
(* timers, buffers AAF fragments, plays them, records them, counts the     *)
(* packets it missed, and ends on a session timer, on ESC or on an error.  *)
(* The network, the clock and the keyboard are the environment.            *)
(*                                                                         *)
(* A timerfd is the absolute time it is set to; NoTime is the disarmed     *)
(* timer, as in timerfd_settime.  A statistics node keeps its presentation *)
(* time (its arrival time only enters the printed figures).                *)
(***************************************************************************)
EXTENDS AvtpTime, Sequences

CONSTANTS
    Packets,        \* frames the network may deliver
    SeqMod,         \* size of the sequence number field, 256 in the program
    MaxTransit,     \* set.max_transit_time
    HwLatency,      \* avb_aaf_hwlatency_to_ns
    RecTime,        \* rec_time; 0 records until ESC
    Recording,      \* whether a file name was given
    StartTime,      \* the clock at start
    MaxTime,        \* bound: the clock stops there
    MaxArrivals     \* bound: frames delivered in a session

Kinds == {"aaf", "format", "foreign", "short"}
Pcms  == {p.pcm : p \in Packets}
Sample == [tspec : Nat, pcm : Pcms]

ASSUME ListenerAssumption ==
    /\ SeqMod \in Nat \ {0}
    /\ \A p \in Packets :
          /\ p.kind \in Kinds
          /\ p.seq \in 0 .. SeqMod - 1
          /\ p.ts \in 0 .. Epoch - 1
    /\ {MaxTransit, HwLatency, RecTime, MaxTime, MaxArrivals} \subseteq Nat
    /\ StartTime \in Nat /\ StartTime > 0
    /\ Recording \in BOOLEAN
    /\ Recording => RecTime > 0     \* the command line refuses the other case

VARIABLES
    now, arrived, esc,            \* the clock, frames delivered, ESC typed
    rx,                           \* the socket's receive queue
    pc, revents,                  \* where the loop is; what poll reported
    samples, is_running,          \* the buffer; playing back to back
    timer, session,               \* packet timer and session timer
    expected_seq, stats, dropped, \* next sequence number; nodes, newest first
    played,                       \* fragments played, by calls that returned
    wav, wav_err,                 \* fragments in the file; libwav's g_err
    file, stamp                   \* state of the recording; time in its name

env   == <<now, arrived, esc>>
seqs  == <<expected_seq, stats, dropped>>
rec   == <<wav, wav_err, file, stamp>>
vars  == <<now, arrived, esc, rx, pc, revents, samples, is_running, timer,
           session, expected_seq, stats, dropped, played, wav, wav_err, file,
           stamp>>

NoTime == 0
Ended == {"returned", "crashed", "aborted"}
PCs == {"setup", "poll", "packet", "play", "check", "end"} \cup Ended
InSession == pc \notin {"end"} \cup Ended

(* Mutant: the uint8_t does not wrap. *)
SuccUnbounded(n) == n + 1
Succ(n) == (n + 1) % SeqMod

Fired(t) == t # NoTime /\ t <= now

TypeOK ==
    /\ now \in Nat /\ arrived \in Nat /\ esc \in BOOLEAN
    /\ rx \in Seq(Packets)
    /\ pc \in PCs
    /\ revents \subseteq {"socket", "timer", "session"}
    /\ samples \in Seq(Sample)
    /\ is_running \in BOOLEAN
    /\ timer \in Nat /\ session \in Nat
    /\ expected_seq \in 0 .. SeqMod - 1
    /\ stats \in Seq(Nat)
    /\ dropped \in Nat
    /\ played \in Seq(Sample)
    /\ wav \in Seq(Sample) /\ wav_err \in BOOLEAN
    /\ file \in {"none", "tmp", "named", "misnamed"} /\ stamp \in Int

Init ==
    /\ now = StartTime /\ arrived = 0 /\ esc = FALSE
    /\ rx = <<>>
    /\ pc = "setup" /\ revents = {}
    /\ samples = <<>> /\ is_running = FALSE
    /\ timer = NoTime /\ session = NoTime
    /\ expected_seq = 0 /\ stats = <<>> /\ dropped = 0
    /\ played = <<>> /\ wav = <<>> /\ wav_err = FALSE
    /\ file = "none" /\ stamp = 0

-----------------------------------------------------------------------------
(* Set-up.                                                                 *)

Starting == pc = "setup" /\ UNCHANGED
    <<env, rx, revents, samples, is_running, timer, seqs, played, wav, stamp>>

(* No socket, no timerfd, or no sound card: return 1 or exit(1). *)
SetupFails == Starting /\ pc' = "returned" /\ UNCHANGED <<session, file, wav_err>>

(* libwav cannot create the temporary file: the error it records makes the *)
(* next setter's own error trip an assertion.                              *)
WavOpenFails ==
    /\ Starting /\ Recording
    /\ pc' = "aborted"
    /\ UNCHANGED <<session, file, wav_err>>

(* setup_wav_recorder's result is not stored: "if (res < 0)" reads a       *)
(* variable nothing has assigned, and either branch may be taken.          *)
UninitialisedResult ==
    /\ Starting /\ Recording
    /\ pc' = "end" /\ file' = "tmp"
    /\ UNCHANGED <<session, wav_err>>

(* The session timer cannot be set. *)
SessionTimerFails ==
    /\ Starting /\ RecTime > 0
    /\ pc' = "end"
    /\ file' = IF Recording THEN "tmp" ELSE "none"
    /\ UNCHANGED <<session, wav_err>>

(* The last write of the header may have failed, and nobody looks. *)
StartSession ==
    /\ Starting
    /\ wav_err' \in {wav_err, Recording}
    /\ session' = IF RecTime > 0 THEN now + RecTime ELSE NoTime
    /\ file' = IF Recording THEN "tmp" ELSE "none"
    /\ pc' = "poll"

Setup == \/ SetupFails \/ WavOpenFails \/ UninitialisedResult
         \/ SessionTimerFails \/ StartSession

-----------------------------------------------------------------------------
(* The loop: poll, new packet, playback, session timer and keyboard.       *)

Ready == {e \in {"socket", "timer", "session"} :
             \/ e = "socket"  /\ rx # <<>>
             \/ e = "timer"   /\ Fired(timer)
             \/ e = "session" /\ Fired(session)}

(* poll returns what is ready; with nothing ready it times out after 1 ms. *)
Poll ==
    /\ pc = "poll"
    /\ revents' = Ready
    /\ pc' = IF "socket" \in Ready THEN "packet" ELSE "play"
    /\ UNCHANGED <<env, rx, samples, is_running, timer, session, seqs, played, rec>>

PollFails ==
    /\ pc = "poll"
    /\ pc' = "end"
    /\ UNCHANGED <<env, rx, revents, samples, is_running, timer, session, seqs,
                   played, rec>>

Receive ==
    /\ pc = "packet"
    /\ rx # <<>>
    /\ rx' = Tail(rx)
    /\ UNCHANGED <<env, revents, is_running, session, played, rec>>

(* Mutant: a mismatch does not resynchronise the expected number. *)
valid_without_resync(p, expected) == IF p.kind = "foreign" THEN expected ELSE Succ(expected)

(* expected_seq after is_valid_packet: a packet of another stream leaves   *)
(* it alone, one of this stream sets it even when its format is refused.   *)
is_valid_packet(p, expected) == IF p.kind = "foreign" THEN expected ELSE Succ(p.seq)

(* recv fails, or returns fewer bytes than a packet of this stream has. *)
RecvFails ==
    /\ Receive
    /\ pc' = "end"
    /\ UNCHANGED <<samples, timer, seqs>>

DropPacket ==
    /\ Receive
    /\ Head(rx).kind \in {"foreign", "format"}
    /\ expected_seq' = is_valid_packet(Head(rx), expected_seq)
    /\ pc' = "play"
    /\ UNCHANGED <<samples, timer, stats, dropped>>

Discarded(p) == IsLate(p.ts, now) /\ samples = <<>>

(* A late packet with nothing buffered is thrown away, after its sequence  *)
(* number was taken and before a gap in front of it is counted.            *)
DiscardLate ==
    /\ Receive
    /\ Head(rx).kind = "aaf"
    /\ Discarded(Head(rx))
    /\ expected_seq' = is_valid_packet(Head(rx), expected_seq)
    /\ pc' = "play"
    /\ UNCHANGED <<samples, timer, stats, dropped>>

(* Mutant: the gap in front of the first packet counts too. *)
add_dropped_always(p) == dropped + ((p.seq - expected_seq) % SeqMod)

(* avb_stats_add_dropped: the first packet of a session is never a gap. *)
avb_stats_add_dropped(p) ==
    IF stats = <<>> THEN dropped
                    ELSE dropped + ((p.seq - expected_seq) % SeqMod)

Kept(p) ==
    /\ Receive
    /\ p = Head(rx) /\ p.kind = "aaf"
    /\ ~Discarded(p)
    /\ expected_seq' = is_valid_packet(p, expected_seq)
    /\ dropped' = avb_stats_add_dropped(p)

(* Mutants: every fragment sets the timer; insertion at the head; only the *)
(* first fragment of the session sets the timer; a burst starts on arrival.*)
schedule_every_sample(s) == samples' = Append(samples, s) /\ timer' = s.tspec
schedule_at_head(s) ==
    /\ samples' = <<s>> \o samples
    /\ timer' = IF samples = <<>> THEN s.tspec ELSE timer
schedule_once(s) ==
    /\ samples' = Append(samples, s)
    /\ timer' = IF samples = <<>> /\ played = <<>> THEN s.tspec ELSE timer
schedule_on_arrival(s) ==
    /\ samples' = Append(samples, s)
    /\ timer' = IF samples = <<>> THEN now ELSE timer

(* schedule_sample: buffer the fragment; the first one sets the timer. *)
schedule_sample(s) ==
    /\ samples' = Append(samples, s)
    /\ timer' = IF samples = <<>> THEN s.tspec ELSE timer

Accept ==
    LET p == Head(rx)
        presentation == get_presentation_time(p.ts, now)
    IN  /\ Kept(p)
        /\ stats' = <<presentation>> \o stats
        /\ schedule_sample([tspec |-> presentation, pcm |-> p.pcm])
        /\ pc' = "play"

(* No memory for the node or for the entry, or the timer cannot be set: an *)
(* error after the gap, and perhaps the node, was recorded.  No memory for *)
(* the copy of the payload: nobody looks, and the copy goes to NULL.       *)
AcceptFails ==
    LET pushed == <<get_presentation_time(Head(rx).ts, now)>> \o stats
    IN  /\ Kept(Head(rx))
        /\ \/ stats' \in {stats, pushed} /\ pc' = "end"
           \/ stats' = pushed /\ pc' = "crashed"
        /\ UNCHANGED <<samples, timer>>

new_packet == RecvFails \/ DropPacket \/ DiscardLate \/ Accept \/ AcceptFails

(* Mutant: a failed write does not stop the later ones. *)
wav_write_retries(s) ==
    \/ Recording /\ wav' = Append(wav, s) /\ UNCHANGED wav_err
    \/ Recording /\ wav' = wav /\ wav_err' = TRUE
    \/ ~Recording /\ UNCHANGED <<wav, wav_err>>

(* wav_write: the first failure, of the fragment's write or of the sizes   *)
(* behind it, sets g_err; nothing clears it, so that a later call that     *)
(* returns has written nothing.                                            *)
wav_write(s) ==
    \/ /\ Recording /\ ~wav_err
       /\ wav' = Append(wav, s) /\ wav_err' = FALSE
    \/ /\ Recording /\ ~wav_err
       /\ wav' \in {wav, Append(wav, s)} /\ wav_err' = TRUE
    \/ /\ ~Recording \/ wav_err
       /\ UNCHANGED <<wav, wav_err>>

(* Mutant: playback does not stop when the buffer runs empty. *)
play_without_end ==
    IF samples = <<>>
    THEN pc' = "aborted" /\ UNCHANGED <<samples, is_running, played, wav, wav_err>>
    ELSE /\ played' = Append(played, Head(samples))
         /\ wav_write(Head(samples))
         /\ samples' = Tail(samples)
         /\ is_running' = TRUE
         /\ pc' = "check"

(* The sound card and the file get the head of the buffer; the loop drops  *)
(* back to waiting for the timer when nothing is left.  An empty buffer    *)
(* trips the assertion.                                                    *)
play_fragment ==
    IF samples = <<>>
    THEN pc' = "aborted" /\ UNCHANGED <<samples, is_running, played, wav, wav_err>>
    ELSE /\ played' = Append(played, Head(samples))
         /\ wav_write(Head(samples))
         /\ samples' = Tail(samples)
         /\ is_running' = (Tail(samples) # <<>>)
         /\ pc' = "check"

Playing == pc = "play" /\ UNCHANGED <<env, rx, revents, session, seqs, file, stamp>>

PlayRunning == Playing /\ is_running /\ play_fragment /\ UNCHANGED timer

TimerReported == ~is_running /\ "timer" \in revents

(* Mutant: the timer is not read, so it stays expired. *)
timeout_without_read == Fired(timer) /\ UNCHANGED timer

(* aaf_timeout: the read of the timer blocks until it has expired. *)
aaf_timeout == Fired(timer) /\ timer' = NoTime

PlayFirst == Playing /\ TimerReported /\ aaf_timeout /\ play_fragment

TimerReadFails ==
    /\ Playing /\ TimerReported
    /\ is_running' = TRUE
    /\ pc' = "end"
    /\ UNCHANGED <<samples, timer, played, wav, wav_err>>

(* A call of libwav failed before this one, and left the file's position   *)
(* inside the header: wav_write asks for the position first, and wav_tell's*)
(* assertion ends the process.  Whether it does depends on where the       *)
(* earlier call failed, which WavFile has in detail.                       *)
WavTellAborts ==
    /\ Playing
    /\ is_running \/ (TimerReported /\ Fired(timer))
    /\ wav_err
    /\ pc' = "aborted"
    /\ UNCHANGED <<samples, is_running, timer, played, wav, wav_err>>

PlayNothing ==
    /\ Playing
    /\ ~is_running /\ "timer" \notin revents
    /\ pc' = "check"
    /\ UNCHANGED <<samples, is_running, timer, played, wav, wav_err>>

Play == PlayRunning \/ PlayFirst \/ TimerReadFails \/ WavTellAborts
        \/ PlayNothing

(* Mutant: only the keyboard ends a session. *)
check_key_only ==
    /\ pc = "check"
    /\ pc' = IF esc THEN "end" ELSE "poll"
    /\ revents' = {}
    /\ UNCHANGED <<env, rx, samples, is_running, timer, session, seqs, played, rec>>

(* The session timer, then the keyboard; the next poll overwrites revents. *)
Check ==
    /\ pc = "check"
    /\ pc' = IF "session" \in revents \/ esc THEN "end" ELSE "poll"
    /\ revents' = {}
    /\ UNCHANGED <<env, rx, samples, is_running, timer, session, seqs, played, rec>>

-----------------------------------------------------------------------------
(* The end of a session: statistics, name of the recording, clean-up.      *)

(* Mutant: the newest node for the oldest. *)
get_newest == stats[1]
avb_stats_get_first == stats[Len(stats)]
avb_stats_get_cap_time(presentation) == presentation - MaxTransit - HwLatency

Ending == pc = "end" /\ UNCHANGED
    <<env, rx, revents, samples, is_running, timer, session, seqs, played,
      wav, wav_err>>

(* The recording is named after its first packet's capture time.  Nobody   *)
(* looks at what rename returns: on failure the temporary file stays.      *)
close_wav_recorder ==
    \/ /\ Recording
       /\ file' = "named"
       /\ stamp' = avb_stats_get_cap_time(avb_stats_get_first)
    \/ UNCHANGED <<file, stamp>>

Finish == Ending /\ Len(stats) > 1 /\ close_wav_recorder /\ pc' = "returned"

(* One node: the mean of no capture deltas divides by zero.  No node: the  *)
(* recording gets an unassigned time for a name, then avb_stats_clear      *)
(* dereferences the empty stack's head.                                    *)
FinishCrashes ==
    /\ Ending /\ Len(stats) < 2
    /\ file' \in IF Recording /\ stats = <<>> THEN {file, "misnamed"} ELSE {file}
    /\ pc' = "crashed"
    /\ UNCHANGED stamp

Listener == Setup \/ Poll \/ PollFails \/ new_packet \/ Play \/ Check
            \/ Finish \/ FinishCrashes

-----------------------------------------------------------------------------
(* The environment.                                                        *)

process == <<pc, revents, samples, is_running, timer, session, seqs, played, rec>>

Tick == now < MaxTime /\ now' = now + 1 /\ UNCHANGED <<arrived, esc, rx, process>>

Arrive(p) ==
    /\ pc \notin Ended
    /\ arrived < MaxArrivals
    /\ arrived' = arrived + 1
    /\ rx' = Append(rx, p)
    /\ UNCHANGED <<now, esc, process>>

PressEsc ==
    /\ pc \notin Ended
    /\ ~esc /\ esc' = TRUE
    /\ UNCHANGED <<now, arrived, rx, process>>

(* The process is gone; the clock may still run. *)
Gone == pc \in Ended /\ UNCHANGED vars

Next == Listener \/ Tick \/ (\E p \in Packets : Arrive(p)) \/ PressEsc \/ Gone

Spec == Init /\ [][Next]_vars

(* The scheduler runs the process and time passes. *)
FairSpec == Spec /\ WF_vars(Listener) /\ WF_vars(Tick)

-----------------------------------------------------------------------------
(* Properties.                                                             *)

(* Playback never reaches an empty buffer: the assertion of play_fragment  *)
(* (avb_aaf.c 517) does not fire, whatever packets come and when.          *)
NoEmptyPlay ==
    pc = "play" /\ (is_running \/ "timer" \in revents) => samples # <<>>

(* When poll reported the packet timer, the read of it in aaf_timeout      *)
(* cannot block, although a packet was handled between the two.            *)
TimerReadReady == pc = "play" /\ TimerReported => Fired(timer)

(* The packet timer is set exactly while a burst waits to start, and for   *)
(* the first fragment of it: no wake-up is lost and none is left over.     *)
TimerTracksHead ==
    InSession =>
        timer = IF samples # <<>> /\ ~is_running THEN Head(samples).tspec ELSE NoTime

(* The invariant that makes playback safe: the timer tracks the buffer,    *)
(* back-to-back playback has something to play, and what poll reported of  *)
(* the timer stays true while the iteration handles a packet.              *)
BufferInv ==
    /\ TimerTracksHead
    /\ InSession /\ is_running => samples # <<>>
    /\ pc \in {"packet", "play"} /\ "timer" \in revents => Fired(timer)

(* The file holds a prefix of what was played: after a failed write        *)
(* nothing more is added, so a recording never has a hole in it.           *)
RecordingIsPrefix == Recording =>
    /\ Len(wav) <= Len(played)
    /\ wav = SubSeq(played, 1, Len(wav))

(* A recording is named after the capture time of the first fragment that  *)
(* was played, the time sync.py aligns the videos with.                    *)
StampIsFirstPlayed ==
    file = "named" /\ played # <<>> =>
        stamp = avb_stats_get_cap_time(played[1].tspec)

(* The statistics' oldest node belongs to the oldest fragment kept: the    *)
(* first one played, or the head of the buffer before any was.             *)
FirstNodeInv ==
    /\ played # <<>> => stats # <<>> /\ avb_stats_get_first = played[1].tspec
    /\ played = <<>> /\ samples # <<>> =>
          stats # <<>> /\ avb_stats_get_first = samples[1].tspec
    /\ InSession /\ played = <<>> /\ samples = <<>> => stats = <<>>
    /\ file = "named" => pc = "returned"
    /\ StampIsFirstPlayed

(* The first fragment of a burst does not reach the sound card before the  *)
(* time it is due (the latency the stream promises is never shortened).    *)
StartNotEarly ==
    [][played' # played /\ ~is_running => Head(samples).tspec <= now]_vars

(* A buffered fragment is played, or the session ends. *)
BufferDrains == [](samples # <<>> => <>(samples = <<>> \/ pc \in Ended))

(* A session whose timer is set (within the modelled time), or one whose   *)
(* user pressed ESC, ends, whatever the network delivers meanwhile.        *)
SessionEnds == (esc \/ session \in 1 .. MaxTime) ~> pc \in Ended

(* "Press ESC to exit" (avb_aaf.c 132): ESC closes the devices and puts the *)
(* terminal back, whatever the session received.                           *)
EscExitsCleanly == esc => pc # "crashed"

(* What the buffer is doing, as Playout names it. *)
PlayoutMode ==
    IF ~InSession THEN "stopped"
    ELSE IF is_running THEN "running"
    ELSE IF samples = <<>> THEN "idle" ELSE "armed"

Playback == INSTANCE Playout WITH mode <- PlayoutMode

(* The listener's buffer, timer and flags implement the playout buffer. *)
ImplementsPlayout == Playback!Spec

=============================================================================
