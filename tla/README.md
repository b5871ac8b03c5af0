# TLA+ models of tram

tram is a small suite for time-synchronised audio and video over Ethernet TSN:
`avbperf` (an AVTP audio talker and listener in C), `vimbaperf` (a multi-camera
recorder in Python), `sync` (runs both and muxes their files), and shell scripts
that configure a TSN switch. This directory holds the TLA+ models of its
concurrent and time-dependent parts, TLC configurations that check them on small
instances, and TLAPS proofs of the safety properties of the listener, of the stream
from talker to sound card, of its sound, times, figures and recording, of vimbaperf and
of sync.

Source lines below are relative to the repository root.

## 1. Inventory

### avbperf listener (`avbperf/avb_aaf.c` 278-747)
- **State**: packet socket, packet timer and session timer (timerfds), the
  buffer `samples` with due times, `is_running`, `expected_seq`, the stack of
  statistics nodes with the drop counter, the recording and libwav's global `g_err`.
- **Operations**: set-up; `poll`; `new_packet` (receive, validate, recover the
  due time, discard a late packet when the buffer is empty, count the gap, push
  statistics, buffer, set the timer for the first fragment of a burst);
  playback of one fragment per iteration; session timer and ESC; end of session
  (statistics, name of the recording, clean-up).
- **Hard**: what poll reported of the timer is used after a packet was handled;
  the timer is set only on the empty-to-non-empty edge; 32-bit timestamps wrap
  every 4.29 s; any call may fail; the session can end with 0 or 1 packets.
- **Correct when**: playback never meets an empty buffer or blocks on the timer,
  no wake-up is lost or left over, fragments are played once, in order, never
  before the first of a burst is due, the drop counter is honest, the recording
  has no hole and carries the right time, the session ends when told to.

### avbperf talker (`avbperf/avb_aaf.c` 147-274)
State: sequence number and the packet under construction. Operations: set-up,
read a period, stamp, send, look at the keyboard. Correct when every fragment
leaves once, in order, with the low part of its due time.

### AVTP time (`avbperf/common.c` 47-92)
Pure: due time to 32-bit timestamp, and back with the listener's clock.

### Packet statistics (`avbperf/avb_stats.c`)
A stack of (arrival, presentation); minimum, maximum, mean and deviation of the
capture deltas and travel times, in unsigned 64-bit arithmetic. Correct when the
figures are those of the network and the capture time is the first frame's.

### Sound card settings and command line (`avbperf/avb_alsa.c`, `avbperf/avbperf.c`)
The options make the settings; the card answers with the nearest rate and period it
has; `data_len` and `pdu_size` are derived from the period *asked for*. Correct
when a packet that is kept is laid out as the listener reads it.

### WAV library (`avbperf/wav.c`)
A header in memory and a stdio stream; each setter rewrites the header; each write
appends a fragment and updates two 32-bit sizes in place; one global sticky error.
Correct when the header describes the data and the stream, and when a process that
dies at any step leaves a readable file.

### vimbaperf (`vimbaperf/vimbacamperf.py`, `vimbaperf/vimbaperf`)
- **State**: per camera a grabber thread with `shutdown_event`, a driver callback
  with `lastTime`, statistics and a video; one bounded queue; a displayer thread;
  the main thread.
- **Operations**: callback (drop the first frame, put if the queue is not full,
  append to the statistics), grabber (stream until time or shutdown, then put the
  end marker), displayer (snapshot of the size, drain, stop after a marker or a
  closed window), main (start, join the displayer, stop and join the grabbers,
  name the videos after the first stamp).
- **Hard**: check-then-put on a shared queue; a marker that is lost when the queue
  is full; a marker that ends all cameras; two joins in a row; statistics and video
  written by different threads.

### sync (`sync/sync.py`)
Runs vimbaperf and avbperf as two processes, waits for both, lists the files they left
in `./tmp`, joins each video with the audio file, and removes `./tmp` unless told
to keep it. All it knows of a recording is the time in its name. Correct when sound and
picture of a joined file begin with the same instant (unless a first frame was lost) and belong to this session,
no video is removed unseen, and it ends.

### Camera statistics, switch schedules, set-up scripts, plotter
`vimbaperf/vimbastats.py` (figures), `switch/tc/*.sh` (taprio, CBS and filter
rules), `switch/bridge/*.sh`, `scripts/`, `ptp/plotter`: not modelled, see section 6.

### How the parts interact
Talker -> Ethernet -> listener (packets; the clocks are one through PTP).
Listener -> file named with the capture time -> sync <- files named with the
first camera stamp <- vimbaperf. The switch schedules decide delay and loss of
the stream. `avbperf` and `vimbaperf` share no memory.

## 2. Modules

| Module | Models | Kind |
| --- | --- | --- |
| `AvtpTime` | `calculate_avtp_time`, `get_presentation_time` | operators |
| `AvbListener` | `avb_aaf_listener` and all it calls | state machine with clock, network and keyboard |
| `Playout` | what a playout buffer promises | abstract specification |
| `AvbTalker` | `avb_aaf_talker` | actions of the talker |
| `AvbStream` | talker, lossy delaying network, listener | composition: `EXTENDS AvbListener`, `INSTANCE AvbTalker` |
| `AvbSettings` | options, settings, negotiation with the sound card, format checks | operators |
| `AvbStats` | capture times and printed figures | operators |
| `WavFile` | libwav as avbperf uses it | state machine, one action per call or step of a call |
| `Recorder` | what the listener takes libwav to do | abstract specification |
| `AvbSession` | two command lines, two cards, packets, recording, figures | composition: `EXTENDS WavFile, AvbStats, AvtpTime` |
| `VimbaPerf` | grabbers, callbacks, queue, displayer, main | state machine |
| `SyncSession` | `sync.py` over the files of both programs | state machine |
| `MCAvbListener`, `MCAvbStream`, `MCAvbSession` | packets, command lines and cards TLC enumerates | TLC instances |
| `AvbListener_proofs` | TLAPS proofs about `AvbListener` | theorems |
| `AvbStream_proofs` | TLAPS proofs about `AvbStream`, on top of the listener's | theorems |
| `VimbaPerf_proofs` | TLAPS proofs about `VimbaPerf` | theorems |
| `AvbSession_proofs` | TLAPS proofs about `AvbSession` and its `WavFile` | theorems |
| `AvbSessionFlow_proofs` | TLAPS proofs about what is heard, timed, printed and named in `AvbSession` | theorems |
| `SyncSession_proofs` | TLAPS proofs about `SyncSession` | theorems |
| `Numbers` | remainders, and the greatest and least of finitely many numbers, for the proofs | lemmas |

### Listener: model and code
- `pc` is where the loop is: `setup`, `poll`, `packet` (`new_packet` is
  entered), `play`, `check` (session timer and keyboard), `end`, and three ways
  to be gone: `returned`, `crashed` (a null dereference or a division by zero in
  the statistics) and `aborted` (an assertion).
- `revents` is poll's answer. It is *not* refreshed while the packet is
  handled, as in the code: `Play` looks at a stale `revents`, and the properties
  `TimerReadReady` and `BufferInv` are about exactly that.
- A timerfd is the absolute time it is set to; `NoTime` (0) is the disarmed
  timer, as `timerfd_settime` has it. Reading an expired one disarms it;
  reading one that has not expired would block, so `aaf_timeout` is guarded by
  `Fired`.
- A packet has a kind: `aaf` (accepted by `is_valid_packet`), `format` (this
  stream, another format: refused *after* the sequence number was taken),
  `foreign` (refused before), `short` (ends the session). `seq`, `ts` and the
  opaque payload `pcm` are the fields that matter.
- Failing calls are actions of their own: `SetupFails`, `WavOpenFails`,
  `SessionTimerFails`, `PollFails`, `RecvFails`, `AcceptFails`,
  `TimerReadFails`; `wav_write` fails as a disjunct. In `AcceptFails` the copy of the
  payload, whose memory nobody checks (`avb_aaf.c` 289-293), may go to NULL and end the
  process. `UninitialisedResult` is the
  read of `res` at line 658 before anything is assigned to it: either branch.
- After libwav's error is set, its next call may end the process
  (`WavTellAborts`); when it does is worked out in `WavFile`.
- Left out here and modelled in `AvbSession`: the contents of a fragment, the
  sound card, the fields behind "format" and the figures of the statistics. Left out
  of both: printed text.

### Stream: model and code
`wire` is a FIFO that may lose any packet and hold it for any time. One VLAN
priority on one path does not reorder or duplicate. A payload records its place `k` and
its full due time `due`; only the properties read them. `discards` is a history
variable: late discards the drop counter cannot see.

### Session: model and code
`AvbStream` has time and order with opaque payloads; `AvbSession` has the payloads, with
a simple network. A frame of sound *is* the time it was captured at, and 0 is memory
nobody wrote, so an old payload, a gap or a wrong time shows.
- `tset`, `lset` are `stream_settings_t` on both sides, each made by `settings`
  from its command line and changed by `avb_alsa_setup` from what its card grants
  (`Granted`). The order of the assignments in `avb_alsa_setup` is kept: the
  payload is sized with the old `hw_latency`.
- `ReadAndSend` is an iteration of the talker's loop; `ReadFails` has the three ways
  a read goes wrong (overrun, error, short), after which the code sends anyway;
  `ReadTooMuch` is the read past the end of the payload when the card's period is longer.
  The same overrun at the listener is in `PlayFragment`.
- `origin` in a packet is history: which fragment it is, when it was sent, whether its
  read was complete.
- One call of libwav is not one step: `wav_write` is `WriteData`, then the three
  steps of `UpdateSizes`, and `ListenerDies` may come between any two. `RecorderStep`
  runs them before the loop goes on.

### WavFile: model and code
`mem` is the library's header, `disk` what a reader finds after the process has
died, `pend` what is still in stdio's buffer: a seek flushes it, a failed
flush drops it, a kill loses it or writes part of it. `pos` is the file position; it is
what `wav_tell` asserts about, and what a failed seek leaves behind. `disk.len` counts
data bytes, sizes are modulo `SizeMod`. The chunk layout is fixed (`DataOffset` 44), as
avbperf uses no fact chunk and no extension.

### VimbaPerf: model and code
`gpc`, `cpc`, `dpc`, `mpc` are the four kinds of threads. A step is what runs
between two points where another thread can interfere: the callback's look at
`full()` (`FrameArrives`), its put (`PutFrame`) and its append to the statistics
(`AppendStats`) are three. A frame is its place in its camera's stream and the
end marker `None` is 0. `frame[c]` also counts incomplete frames and the ignored
first one. `args` is how the program was called (`--time`, `--stealth`); the model is
of a recording session (`-o`): each camera has a video. `main()` closes the videos in
any order, and `NamingRaises` is the missing first stamp or the failing rename that leaves
the others under temporary names.

### SyncSession: model and code
The two programs are what they leave: `CameraEnds` leaves a video of any set of
cameras, `CameraHangs` is the lost end marker of `VimbaPerf`, `MicEnds` leaves a recording, one
with an unassigned time in its name, or none. A file has its name's time (`stamp`)
and, as history, when it really began (`start`) and whose session it is. A video is named
after the frame captured at `first`, which is its own first frame or an earlier one that met a full
queue (`vimbacamperf.py` 64-69, `vimbaperf` 304): `first <= start`, which is what
`NameIsFirstUnlessLost` of `VimbaPerf` leaves possible. `ListFiles` picks
any audio file, as `os.listdir` has no order; `ListRaises` is the session without one, or
with one whose name is no time. `Prompt` and `Answer` are ffmpeg's
question about an existing output, `Interrupt` is Ctrl-C. `left` remembers that the
last session left its files behind.

## 3. Properties and runs

| Run | What it asks | Result |
| --- | --- | --- |
| `listener_buffer` | every timestamp of an epoch against a moving clock: `BufferInv`, `NoEmptyPlay`, `TimerReadReady`, `StartNotEarly`, `BufferDrains`, and `ImplementsPlayout` | holds |
| `listener_record` | a timed recording with failing writes: `RecordingIsPrefix`, `StampIsFirstPlayed`, `SessionEnds` | holds |
| `stream` | end to end with losses and delays across an epoch boundary: `PlayedInOrder`, `DropsNotOvercounted`, `DropsCounted`, `RecoveredModuloEpoch`, `BurstStartsWhenDue` | holds |
| `session` | command lines that differ in each option or in two that cancel out, cards that grant or do not, failing reads and writes, a kill at any step: `KeptIsUnderstood`, `PlayedAsCaptured`, `TimesModuloEpochs`, `NamedAfterFirstSound`, `FiguresAreTrue`, `LosesAtMostOneFragment`, `HeaderDescribesData`, `HeaderMatchesStream`, and `ImplementsRecorder` | holds |
| `vimba` | two cameras on a queue of two, all modes: `VideoInOrder`, `VideoFramesStamped`, `NameIsFirstUnlessLost`, `MarkerIsLast`, `EndedCameraIsComplete`, and `SessionWindsUp` (a queued marker or a closed window gets every thread out of its wait) | holds |
| `sync` | two sessions in one directory, with and without lost first frames: `AlignedStreams`, `OwnFilesJoined`, `NoVideoDiscarded`, `SyncEnds` | holds |
| `listener_exit` | `EscExitsCleanly` | violated |
| `stream_epoch` | `LateMeansLate` | violated |
| `session_period` | `PayloadIsOnePeriod` | violated |
| `stats_std` | `StdIsDeviation` | violated |
| `vimba_duration` | `TimedSessionEnds` | violated |
| `sync_zone` | `AlignedStreams` where local time is not UTC | violated |

Some properties deserve a remark. `BurstStartsWhenDue` holds although the high
half of the due time is not recovered: a wrong recovery either discards the
packet or delays it by an epoch, never hastens it. It needs the transit time to
be below an epoch (4.29 s). `DropsCounted` is stated for sessions without late
discards, because a discarded packet moves `expected_seq` on and hides the gap
in front of it; with discards only the upper bound `DropsNotOvercounted` holds.
`PlayedAsCaptured` is about fragments whose own read was complete, also right after one
that failed; `KeptIsUnderstood` is for cards that give what was asked, for rates the
help lists. Both exclude what `session_period` shows.
`NamedAfterFirstSound` relates two structures the code keeps apart: the name of a
recording comes from the bottom of the stack of statistics, its sound from the head of
the buffer. The name is the capture time of the first frame written plus what the talker
was behind when it stamped that packet, and the epochs its due time was misplaced by. `ImplementsRecorder` justifies the
coarse `wav_write` of `AvbListener`: there and in `Recorder` a write adds a whole
fragment or sets the error, and the process may abort only at set-up or after an error.
`NameIsFirstUnlessLost` is what holds of "a video is named after its first frame": the
frame it is named after is the first, or an earlier one that is lost and in neither queue nor
video. With such a name `-ss` skips more of the video than `sync.py` means to
(`latest` minus name, not minus first frame), so the picture begins behind the intended
point. `AlignedStreams` says by how much: picture and sound of a joined file differ by
the gap between the video's name and its first frame and by nothing else, so they
begin together whenever no first frame was lost. It excludes recordings named after no packet.
`TimesModuloEpochs` is what holds of travel and capture times when a due time is recovered in
the wrong epoch: they are off by as many epochs. `FiguresAreTrue` is about sessions in which
none is.
`OwnFilesJoined` excludes a session that finds files an earlier one left behind;
`SyncEnds` excludes a hung camera program and ffmpeg's unanswered question.

Each property of a passing run has a mutant: an operator marked "Mutant" next to
the definition it changes the way a bug in that code would (a timer set for every
fragment, a marker put without waiting for the callback). With the mutant in place
of the definition, the run that checks the property finds it violated.

### The violations
- **listener_exit**. Without an accepted packet `avb_stats_clear` dereferences a
  null head (`avb_stats.c` 43); with exactly one, `process_stat` divides by
  `entry_count-1 = 0` (`avb_stats.c` 136). ESC, offered by the banner at
  `avb_aaf.c` 132, kills the process before devices are closed and the terminal
  is restored.
- **stream_epoch**. The correction for a due time in the next
  epoch is commented out (`common.c` 80-85), and none exists for the previous
  one. Against the comment at `avb_aaf.c` 485-486, a packet on time is discarded
  as late, and a late one can be scheduled an epoch ahead, silencing playback for
  up to 4.29 s.
- **session_period**. `data_len` is computed from the period asked for
  (`avb_alsa.c` 103) under the comment "Update settings with actual latency". With a card
  that grants a longer one the talker reads past the packet it has room for, and the
  listener plays past the payload it copied; with a shorter one packets carry a
  stale tail.
- **stats_std**. `data_arr[i] - stat->mean` is unsigned (`avb_stats.c` 141): below the
  mean it is almost 2^64 before it is squared, and the sum does not fit. The
  deviation printed is 0, huge, or made of the few terms that did fit; the logs of the
  repository show 0.000000 next to a minimum and a maximum that differ.
- **vimba_duration**. The end marker is put with the same lossy put as a frame. If
  it meets a full queue it is gone, the displayer polls an empty queue and `main`
  waits in `join` for ever.
- **sync_zone**. A video is named after *local* time with a Z behind it
  (`vimbaperf` 306-308), a recording after UTC (`avb_aaf.c` 590). Where they differ,
  sync cuts the difference off one of the two.

### Bounds, and why they are enough
- `Epoch` is 4 (2^32 ns in the program; 7 in `session`, whose clock passes from one epoch to the
  next at 14). Each timestamp `0..3` meets each clock
  phase; the clock crosses an epoch boundary. The code only compares, adds and
  splits times at epochs, so nothing depends on the size of an epoch as
  long as early, due, late and wrapped differ.
- `MaxTime` stops the clock: 11 in `listener_buffer` (from 3, over two boundaries), the last
  time of an epoch, so that each time the listener can schedule is reached and
  `BufferDrains` is not cut short; 9 in the stream runs (one boundary, with transit
  time 2); 15 in the session runs (from 10), two periods and the transit time.
  In `session` due times are misplaced in both directions; a recording whose *name* is misplaced
  takes an epoch longer than this bound, and is left to the theorem `NamesAreRight`.
- `SeqMod` is 4, or 2 in `stream`, where four packets wrap it twice
  and a lost pair is invisible: `DropsCounted` is modulo `SeqMod`.
- `MaxArrivals` 2 to 4: a burst of one, a burst of several, a burst after a burst. The
  proofs do not depend on it.
- `QueueSize` 2 and two cameras: full, one free place contested by two callbacks,
  and markers behind and between frames. `MaxFrames` 3 gives two puts per camera
  (the first complete frame is ignored).
- In the session runs `Second` is 96000, so a frame at 96 kHz is one tick, one at
  48 kHz two, and one at 44.1 kHz is rounded; two packets of one to three frames give a
  successor, a gap and the two nodes the figures need. `SizeMod` 8 is passed by the second
  fragment, so the sizes wrap. `Word` 256 is above every time and far below
  the square of a wrapped difference, as 2^64 is.
- Two `Sessions` and two cameras in `sync`: leftovers need a second session, and
  alignment needs two videos that start at different times.
- `CHECK_DEADLOCK` is on for the listener, stream and vimba runs, where a process that
  is gone stutters in `Gone`/`StreamGone`. It is off in `session` and `sync`: there a run really
  stops, when the listener has ended or all sessions are over.

### Fairness
`FairSpec` of the listener: weak fairness of the process, which the scheduler
runs and whose only wait has a 1 ms limit (`avb_aaf.c` 676), and of `Tick`, as time
passes. Nothing is assumed of the network, of ESC, or of which outcome a call
has. `FairSpec` of VimbaPerf: weak fairness of each thread; frames need not
arrive and no window need be closed. `FairSpec` of SyncSession: weak fairness of
`sync.py`'s own steps, of the end of the camera program (or its hanging) and of avbperf,
which `--timeout` ends; nobody has to answer a question. `AvbSession` states no liveness.

## 4. Proofs

`AvbListener_proofs` proves, for every set of packets, epoch, sequence range, clock and
bound that satisfies `EpochAssumption` and `ListenerAssumption`:

| Theorem | Statement |
| --- | --- |
| `TypeCorrect` | `Spec => []TypeOK` |
| `BufferCorrect` | `Spec => []BufferInv` |
| `PlaybackSafe` | `Spec => []NoEmptyPlay` |
| `TimerNeverBlocks` | `Spec => []TimerReadReady`: the read of the timer never blocks |
| `NeverEarly` | `Spec => StartNotEarly` |
| `RecordingHasNoHole` | `Spec => []RecordingIsPrefix` |
| `RecordingIsStamped` | `Spec => []StampIsFirstPlayed` |
| `ListenerImplementsPlayout` | `Spec => ImplementsPlayout` |
| `RecoveredTime` | the recovered due time is off by exactly the epochs between due time and arrival |

**Argument.** `NoEmptyPlay` is not inductive: that a reported timer
means a fragment is there depends on the timer being set only for a head of the
buffer. `BufferInv` adds what is missing: outside a burst the timer *is* the due time
of the head (and disarmed if there is none), inside a burst it is disarmed and the
buffer is not empty, and a timer in `revents` is still expired after a packet was
handled. A packet handled in between cannot re-arm an expired timer, because only
an empty buffer arms it, and `TimerTracksHead` says that an expired timer has a
non-empty one. `RecordingIsPrefix` needs "no error yet, so file = played";
`StampIsFirstPlayed` needs that the oldest node belongs to the oldest fragment
kept (`FirstNodeInv`). The refinement maps `mode` to `PlayoutMode`; `BufferInv`
makes a first fragment's step a `Start`.

`AvbStream_proofs` proves, for every epoch, sequence range, transit time and bound that
also satisfies `StreamAssumption`, and for every loss and delay:

| Theorem | Statement |
| --- | --- |
| `TalkerCorrect` | `StreamSpec => []TalkerInv`, the types of the talker and the wire |
| `StreamImplementsListener` | `StreamSpec => Spec`: all of the above holds in a stream |
| `ContentsCorrect` | `StreamSpec => []ContentsInv` |
| `RecoveredUpToEpochs` | `StreamSpec => RecoveredModuloEpoch` |
| `BurstsStartWhenDue` | `MaxTransit < Epoch => (StreamSpec => BurstStartsWhenDue)` |
| `OrderCorrect` | `StreamSpec => []OrderInv` |
| `FragmentsPlayedInOrder` | `StreamSpec => []PlayedInOrder` |
| `CountCorrect` | `StreamSpec => []CountInv` |
| `CounterIsHonest` | `StreamSpec => []DropsNotOvercounted` |
| `CounterIsComplete` | `StreamSpec => []DropsCounted` |
| `LateIsLate` | `OneEpoch => (StreamSpec => LateMeansLate)` |

**Argument.** The wire carries packets of the listener's packet set (`TalkerInv`), so each
step of the stream is a step of the listener or leaves it alone. `ContentsInv` ties what a packet says
to its payload: number and low part of the due time. The recovered time then
differs from the due time by a multiple of the epoch; a due time is at most the transit
time ahead, so a recovery that passes the check for late packets, with a transit time
below an epoch, cannot be an epoch too early (`NotLateNotEarly`), and the head of a
waiting buffer has passed that check (`DueInv`), as the check is made exactly for the packets that find
it empty. `OrderInv`: places rise along what was played, buffered, received, sent and is
being sent. For the drop counter, `CountInv` names the last packet whose
number was *taken* (`Taken`): it is the newest kept, or a late one discarded after it.
A gap is the distance from it modulo the sequence range (`GapCounted`), never
more than the distance from the newest kept, which is what was missed. `LateIsLate` is the
other side of the violation in `stream_epoch`: while clock and due times stay in the epoch
the session starts in (`OneEpoch`), the comment at `avb_aaf.c` 485-486 is true, so the end
of an epoch is all that breaks it.

`VimbaPerf_proofs` proves, for every finite set of cameras, queue size, set of modes and
number of frames that satisfies `VimbaAssumption`:

| Theorem | Statement |
| --- | --- |
| `TypeCorrect` | `Spec => [](TypeOK /\ CallbackInv)` |
| `FlowCorrect` | `Spec => []FlowInv`, the inductive invariant |
| `VideoIsInOrder` | `Spec => []VideoInOrder` |
| `MarkerComesLast` | `Spec => []MarkerIsLast` |
| `VideoIsStamped` | `Spec => []VideoFramesStamped` |
| `NameIsOfFirstFrame` | `Spec => []NameIsFirstUnlessLost` |
| `EndedIsComplete` | `Spec => []EndedCameraIsComplete` |

**Argument.** None of these is inductive, not even `TypeOK`: that a stamp is a frame
needs `CallbackInv`, a callback that has not ended holds one and its camera streams.
`FlowInv` follows a frame from the driver to the video. Stamps are in order and do
not contain the frame in hand (`StampsInv`). A frame that is `Handed` on has left its callback
and is stamped, or about to be; `Handed` is stable (`HandedStep`). Everything in the
queue or in a video is handed on, so what a callback puts is newer than both
(`QueueInv`, `VideoInv`). An end marker in the queue means that its grabber is done, so nothing is put
behind it. When `main()` names the videos all grabbers are done (`PhaseInv`), no
callback is under way, and every frame of a video has its stamp; the first stamp is the
least, and a frame before the video's first that is still in the queue would come behind it. A displayer without windows stops only at a marker, and it is the last of
its camera (`EndInv`).

`AvbSession_proofs` proves, for every set of command lines and sound cards that satisfies
`SetupsAssumption`, every width of the sizes, and every failure and kill:

| Theorem | Statement |
| --- | --- |
| `SettingsCorrect` | `SessionSpec => []SetInv` |
| `KeptPacketsAreUnderstood` | `SessionSpec => []KeptIsUnderstood` |
| `FileCorrect` | `SessionSpec => []FileInv`, the inductive invariant of libwav |
| `HeaderIsRight` | `SessionSpec => []HeaderDescribesData` |
| `HeaderIsOfStream` | `SessionSpec => []HeaderMatchesStream` |
| `AtMostOneFragmentIsLost` | `SessionSpec => []LosesAtMostOneFragment` |
| `LibraryImplementsRecorder` | `SessionSpec => ImplementsRecorder` |

**Argument.** `SetInv`: on both sides the settings are the command line's, changed by one
answer of the card. A packet on the wire describes the talker's, and one that was kept
passed the comparison with the listener's (`KeptInv`); the code compares payload *lengths*,
and equal lengths of equally wide frames have equally many frames, because a frame is not
empty (`Cancel`, `FrameBytesPositive`). `FileInv` follows libwav while no call has failed: after each
setter the header has the format that setter leaves, whichever found nothing to change
(`Format`), and in a write the two sizes in the file are the old ones or the new ones by the
step the write is at (`Writing`). Remainders add up (`SumModulo`), so the header still
describes the data after its fields have wrapped. After a failure `FileInv` says
nothing, and `LossInv` goes on: the file holds what its header counts and at most a fragment more,
and no sound is left in stdio's buffer that a later flush could add. For the refinement
the number of fragments is a quotient (`Quotient`): until something fails the file holds whole
fragments (`RecInv`), a failure or a kill in a write leaves all, some or none of one more
(`Advanced`), and after a failure nothing is added.

`AvbSessionFlow_proofs` proves, under the same assumptions:

| Theorem | Statement |
| --- | --- |
| `FlowCorrect` | `SessionSpec => []FlowInv`, the inductive invariant |
| `HeardAsCaptured` | `SessionSpec => []PlayedAsCaptured` |
| `KeptAreHeardInOrder` | `SessionSpec => []OrderInv` |
| `TimesUpToEpochs` | `SessionSpec => []TimesModuloEpochs`, in any epoch |
| `NoneMisplaced` | `OneEpoch => (SessionSpec => []AllInPlace)` |
| `NamesAreRight` | `SessionSpec => []NamedAfterFirstSound`, in any epoch |
| `FiguresAreRight` | `MaxTime < Word => (SessionSpec => []FiguresAreTrue)` |
| `OnePeriodIffGranted` | `SessionSpec => [](PayloadIsOnePeriod <=> PeriodsGranted)` |

**Argument.** What is played, timed and printed was captured long before, so no variable
says what it should be. `FlowInv` says that there is a log of what the talker sent (one
`origin` per packet: `IsLog`) which `Explains` the state: the wire holds its last
entries (`WireInv`), each statistics node (`StatsInv`), buffered and played fragment
(`SoundInv`) is one of its entries. A packet adds an entry, every other step keeps the
log or moves its contents on. In the log, a complete read is followed by a packet that
begins where it ended; that, and equal settings on both sides of a packet that was kept
(`KeptInv`), is `PlayedAsCaptured`. The recovered due time is off by whole epochs
(`EpochsOff`), and so are the travel and capture times made from it, and the name of the
recording. None is off if no epoch ends in the session (`NoneMisplaced`; one that spans the
end of an epoch shows the misplaced due times of `stream_epoch`); then times and names are
exact, as the clock, in nanoseconds since 1970, is past one period and fits 64 bits. `FiguresAreRight` finds the minimum of the figures as the least of a
finite set, which the wrapped differences do not leave; what the means and deviations come
to does not matter to it. `OrderInv` relates the stack and the queue: the
statistics, turned round, are the fragments played followed by those in the buffer, so the
bottom of the stack is the first fragment written. `OnePeriodIffGranted` gives the exact
extent of the violation in `session_period`: the comment at `avb_alsa.c` 101 is true of
the cards that grant the period asked for, and of no others.

`SyncSession_proofs` proves, for every finite set of cameras, every set of starting times and
number of sessions, the first three also for every offset:

| Theorem | Statement |
| --- | --- |
| `FilesCorrect` | `Spec => []FilesInv`, the inductive invariant |
| `OwnFilesAreJoined` | `Spec => OwnFilesJoined` |
| `NoVideoIsDiscarded` | `Spec => NoVideoDiscarded` |
| `StreamsAreAligned` | `UtcOffset = 0 => (Spec => []AlignedStreams)` |

**Argument.** Each program writes only until `main()` has waited for it (`ProcessInv`),
so no file appears between the listing and the removal. Unless the last session left
files, those in `./tmp` are of the running one (`OwnInv`). A listed video is still
in the list or was given to ffmpeg (`ListedInv`). For the alignment, a listed file is named
after no time later than `latest_start_time` (`TimesInv`), so neither stream is cut by a negative
amount. The sound begins with that instant, and so does the frame the video is named after; the
picture is behind by what its first frame is behind that one. That there is a latest time needs the files to
be finitely many; the greatest of a finite set exists by induction over its
subsets, taken from the library as well-foundedness of the strict subset order.

**Assumptions on constants** are in the modules and evaluated by TLC in each run:
an epoch and a sequence range are positive, packets have fields in range, the
clock starts above 0 (0 disarms a timer), and a recording has a duration (the
command line refuses otherwise, `avbperf.c` 178); the packets of a stream include all
the talker can make within the bounds; the queue has room for one item; a stream has at
least one channel (a card with none does not open), rates are positive, periods have at
least one frame and transit times are not negative; a session does not end before it
starts; cameras are finitely many.

**Only model-checked** are the liveness properties (`SessionEnds`, `BufferDrains`,
`SessionWindsUp`, `SyncEnds`): temporal reasoning under fairness is out of the
prover's reach. Every safety property of a passing run is a theorem above. The means and
deviations of the figures are sums over lists: what they come to could only be proved by
induction over data, which no prover at hand does, and only `stats_std` speaks of them.

## 5. Assumptions about the environment
- Standard input is a terminal: `read` at `avb_aaf.c` 717 returns at once.
- Talker and listener share one clock, which does not go back. PTP makes this true
  up to microseconds.
- The Vimba driver's `stop_streaming` returns after a running callback; without it
  `MarkerIsLast` fails (the mutant `StopWithoutWaiting`).
- `stdio` buffers as POSIX has it: a seek flushes; a failed flush drops the buffer. The
  file system keeps the bytes of a process that was killed (a crash of the host is not modelled).
- A sound card grants the nearest rate and period it has; a blocking read returns
  when a whole period has been captured.
- `ffmpeg` skips exactly what `-ss` says; that it asks before it replaces a file is its
  documented default. The millisecond `sync.py` rounds `-ss` to is below what the model tells
  apart.
- `./tmp` holds only what the two programs left there: a foreign file whose name is no time is not modelled.
- The arithmetic of `avb_aaf.c` 111 is exact up to rounding; the code uses a `float`.
- Of a sound card only rate and period vary: that it accepts access, format and channels, whose
  results `avb_alsa.c` 72-78 ignores, is assumed.
- The call stack holds one call per packet when the statistics are deleted
  (`avb_stats.c` 41-51); a session long enough to overflow it is not modelled.
- The display's own errors (a window destroyed twice) are not modelled.

## 6. Not modelled, and what is left
- **Camera statistics** (`vimbaperf/vimbastats.py`): figures over lists of unbounded
  Python integers, by library functions; no state, no overflow.
- **Switch schedules** (`switch/tc/*.sh`): constant tables for the kernel's traffic
  control. The one thing to say of them, that no gate mask of `tas_sw_taprio.sh`
  opens the class of priority 2, can be read off the script.
- **Bridge, PTP and VLAN scripts**: one-shot commands. **PTP plotter**: draws logs.
- **libwav** beyond avbperf's use: reading, appending, seeking, the fact chunk, the
  extensible format.
- **Camera features, listing and PTP modes of vimbaperf**: calls into the driver with
  no state of their own.

Left to prove: when the comments that the violated runs refute are true. `LateIsLate`,
`OnePeriodIffGranted` and `StreamsAreAligned` say so for three of them; for `listener_exit`
the guards of `Finish` and `FinishCrashes` do (two packets kept, and memory for their
copies). `vimba_duration` is a question of liveness and `stats_std` one of induction over a
list.
