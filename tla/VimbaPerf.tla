----------------------------- MODULE VimbaPerf ------------------------------
(***************************************************************************)
(* vimbaperf: a grabber thread and a driver callback per camera feed one   *)
(* bounded queue; a displayer thread empties it into the videos; the main  *)
(* thread starts them, waits for the displayer, stops and joins the        *)
(* grabbers, and names the videos (vimbaperf/vimbacamperf.py and main() of *)
(* vimbaperf/vimbaperf).                                                   *)
(*                                                                         *)
(* A frame is its place in the camera's stream; None (the end marker) is   *)
(* 0.  The driver's stop_streaming is taken to wait for a running callback.*)
(***************************************************************************)
EXTENDS Integers, Sequences, FiniteSets

CONSTANTS
    Cams,       \* cam_objs
    QueueSize,  \* FRAME_QUEUE_SIZE, 50 in the program
    Modes,      \* the combinations of --time and --stealth to run
    MaxFrames   \* bound: frames a camera produces

ASSUME VimbaAssumption ==
    /\ IsFiniteSet(Cams)
    /\ QueueSize \in Nat \ {0} /\ MaxFrames \in Nat
    /\ Modes \subseteq {"stealth", "timed", "free"}

VARIABLES
    args,                       \* how the program was called
    gpc, shutdown,              \* grabber threads and their shutdown_event
    cpc, frame, seen_first,     \* callbacks: state, frame in hand, lastTime # 0
    queue,                      \* the queue.Queue of (camera, frame)
    stamps, video,              \* stats.cam_stamps; frames written, by camera
    dpc, frames_left, alive,    \* displayer thread
    mpc, begin_stamp            \* main thread; stamp in each video's name

grabber  == <<args, gpc, shutdown>>
callback == <<cpc, frame, seen_first, stamps>>
displayer == <<video, dpc, frames_left, alive>>
main     == <<mpc, begin_stamp>>
vars == <<args, gpc, shutdown, cpc, frame, seen_first, queue, stamps, video, dpc,
          frames_left, alive, mpc, begin_stamp>>

(* args.time > 0, and args.stealth_mode (no windows).  main() refuses the  *)
(* fourth combination, stealth without a duration.                         *)
Timed   == args # "free"
Stealth == args = "stealth"

None == 0
Item == [cam : Cams, frame : 0 .. MaxFrames]
Over == {"returned", "raised"}

TypeOK ==
    /\ args \in Modes
    /\ gpc \in [Cams -> {"new", "starting", "streaming", "finally", "done"}]
    /\ shutdown \in [Cams -> BOOLEAN]
    /\ cpc \in [Cams -> {"idle", "put", "stats"}]
    /\ frame \in [Cams -> 0 .. MaxFrames]
    /\ seen_first \in [Cams -> BOOLEAN]
    /\ queue \in Seq(Item) /\ Len(queue) <= QueueSize
    /\ stamps \in [Cams -> Seq(1 .. MaxFrames)]
    /\ video \in [Cams -> Seq(1 .. MaxFrames)]
    /\ dpc \in {"new", "loop", "drain", "done"}
    /\ frames_left \in 0 .. QueueSize
    /\ alive \in BOOLEAN
    /\ mpc \in {"start", "join_displayer", "join_grabbers", "close"} \cup Over
    /\ begin_stamp \in [Cams -> 0 .. MaxFrames]

Init ==
    /\ args \in Modes
    /\ gpc = [c \in Cams |-> "new"]
    /\ shutdown = [c \in Cams |-> FALSE]
    /\ cpc = [c \in Cams |-> "idle"]
    /\ frame = [c \in Cams |-> 0]
    /\ seen_first = [c \in Cams |-> FALSE]
    /\ queue = <<>>
    /\ stamps = [c \in Cams |-> <<>>]
    /\ video = [c \in Cams |-> <<>>]
    /\ dpc = "new" /\ frames_left = 0 /\ alive = TRUE
    /\ mpc = "start"
    /\ begin_stamp = [c \in Cams |-> 0]

full == Len(queue) = QueueSize

(* Mutants: the earlier look at the queue is trusted; the newest item is   *)
(* put first, as a LifoQueue would.                                        *)
put_unchecked(c, f) == queue' = Append(queue, [cam |-> c, frame |-> f])
put_lifo(c, f) ==
    queue' = IF full THEN queue ELSE <<[cam |-> c, frame |-> f]>> \o queue

(* put_nowait, with queue.Full swallowed: what does not fit is gone. *)
try_put_frame(c, f) ==
    queue' = IF full THEN queue ELSE Append(queue, [cam |-> c, frame |-> f])

-----------------------------------------------------------------------------
(* FrameGrabber.__call__, on a driver thread of the camera.                *)

(* The next frame arrives.  An incomplete one and the first complete one   *)
(* only go back to the driver; any other is put if the queue looks free.   *)
FrameArrives(c) ==
    /\ gpc[c] = "streaming" /\ cpc[c] = "idle"
    /\ frame[c] < MaxFrames
    /\ frame' = [frame EXCEPT ![c] = @ + 1]
    /\ \/ UNCHANGED <<seen_first, cpc>>
       \/ /\ seen_first' = [seen_first EXCEPT ![c] = TRUE]
          /\ cpc' = [cpc EXCEPT ![c] = IF ~seen_first[c] THEN "idle"
                                       ELSE IF full THEN "stats" ELSE "put"]
    /\ UNCHANGED <<grabber, queue, stamps, displayer, main>>

(* The queue may have filled up while the frame was copied. *)
PutFrame(c) ==
    /\ cpc[c] = "put"
    /\ try_put_frame(c, frame[c])
    /\ cpc' = [cpc EXCEPT ![c] = "stats"]
    /\ UNCHANGED <<grabber, frame, seen_first, stamps, displayer, main>>

(* The frame counts in the statistics whether or not it was queued. *)
AppendStats(c) ==
    /\ cpc[c] = "stats"
    /\ stamps' = [stamps EXCEPT ![c] = Append(@, frame[c])]
    /\ cpc' = [cpc EXCEPT ![c] = "idle"]
    /\ UNCHANGED <<grabber, frame, seen_first, queue, displayer, main>>

Callback(c) == PutFrame(c) \/ AppendStats(c)

-----------------------------------------------------------------------------
(* FrameGrabber.run.                                                       *)

(* The camera starts streaming, or opening it fails. *)
StartStreaming(c) ==
    /\ gpc[c] = "starting"
    /\ gpc' = [gpc EXCEPT ![c] = "streaming"]
    /\ UNCHANGED <<args, shutdown, callback, queue, displayer, main>>

CameraError(c) ==
    /\ gpc[c] = "starting"
    /\ gpc' = [gpc EXCEPT ![c] = "finally"]
    /\ UNCHANGED <<args, shutdown, callback, queue, displayer, main>>

(* Mutant: streaming stops without waiting for the callback. *)
StopWithoutWaiting(c) ==
    /\ gpc[c] = "streaming"
    /\ Timed \/ shutdown[c]
    /\ gpc' = [gpc EXCEPT ![c] = "finally"]
    /\ UNCHANGED <<args, shutdown, callback, queue, displayer, main>>

(* shutdown_event.wait(timeout) returns, and streaming stops. *)
StopStreaming(c) ==
    /\ gpc[c] = "streaming" /\ cpc[c] = "idle"
    /\ Timed \/ shutdown[c]
    /\ gpc' = [gpc EXCEPT ![c] = "finally"]
    /\ UNCHANGED <<args, shutdown, callback, queue, displayer, main>>

(* The end marker goes through the same lossy put as a frame. *)
PutNone(c) ==
    /\ gpc[c] = "finally"
    /\ try_put_frame(c, None)
    /\ gpc' = [gpc EXCEPT ![c] = "done"]
    /\ UNCHANGED <<args, shutdown, callback, displayer, main>>

Grabber(c) == StartStreaming(c) \/ CameraError(c) \/ StopStreaming(c) \/ PutNone(c)

-----------------------------------------------------------------------------
(* FrameDisplayer.run.                                                     *)

Snapshot ==
    /\ dpc = "loop"
    /\ frames_left' = Len(queue)
    /\ dpc' = "drain"
    /\ UNCHANGED <<grabber, callback, queue, video, alive, main>>

(* Mutant: the newest item is taken. *)
GetNewest ==
    /\ dpc = "drain" /\ frames_left > 0
    /\ queue # <<>>
    /\ queue' = SubSeq(queue, 1, Len(queue) - 1)
    /\ frames_left' = frames_left - 1
    /\ LET item == queue[Len(queue)] IN
       IF item.frame = None
       THEN alive' = FALSE /\ UNCHANGED video
       ELSE /\ video' = [video EXCEPT ![item.cam] = Append(@, item.frame)]
            /\ alive' \in IF Stealth THEN {alive} ELSE {alive, FALSE}
    /\ UNCHANGED <<grabber, callback, dpc, main>>

(* One item: a frame goes to its video, and a closed window or an end      *)
(* marker makes this pass the last one.                                    *)
GetItem ==
    /\ dpc = "drain" /\ frames_left > 0
    /\ queue # <<>>
    /\ queue' = Tail(queue)
    /\ frames_left' = frames_left - 1
    /\ LET item == Head(queue) IN
       IF item.frame = None
       THEN alive' = FALSE /\ UNCHANGED video
       ELSE /\ video' = [video EXCEPT ![item.cam] = Append(@, item.frame)]
            /\ alive' \in IF Stealth THEN {alive} ELSE {alive, FALSE}
    /\ UNCHANGED <<grabber, callback, dpc, main>>

PassDone ==
    /\ dpc = "drain" /\ frames_left = 0
    /\ dpc' = IF alive THEN "loop" ELSE "done"
    /\ UNCHANGED <<grabber, callback, queue, video, frames_left, alive, main>>

Displayer == Snapshot \/ GetItem \/ PassDone

-----------------------------------------------------------------------------
(* main().                                                                 *)

StartGrabber(c) ==
    /\ mpc = "start" /\ gpc[c] = "new"
    /\ gpc' = [gpc EXCEPT ![c] = "starting"]
    /\ UNCHANGED <<args, shutdown, callback, queue, displayer, main>>

StartDisplayer ==
    /\ mpc = "start" /\ \A c \in Cams : gpc[c] # "new"
    /\ dpc' = "loop"
    /\ mpc' = "join_displayer"
    /\ UNCHANGED <<grabber, callback, queue, video, frames_left, alive, begin_stamp>>

(* Mutant: the grabbers are not told to stop. *)
JoinWithoutStop ==
    /\ mpc = "join_displayer" /\ dpc = "done"
    /\ mpc' = "join_grabbers"
    /\ UNCHANGED <<grabber, callback, queue, displayer, begin_stamp>>

(* The displayer has ended: every grabber is told to stop. *)
JoinDisplayer ==
    /\ mpc = "join_displayer" /\ dpc = "done"
    /\ shutdown' = [c \in Cams |-> TRUE]
    /\ mpc' = "join_grabbers"
    /\ UNCHANGED <<args, gpc, callback, queue, displayer, begin_stamp>>

(* Mutant: main() goes on without joining the grabbers. *)
CloseWithoutJoin ==
    /\ mpc = "join_grabbers"
    /\ mpc' = "close"
    /\ UNCHANGED <<grabber, callback, queue, displayer, begin_stamp>>

JoinGrabbers ==
    /\ mpc = "join_grabbers"
    /\ \A c \in Cams : gpc[c] = "done"
    /\ mpc' = "close"
    /\ UNCHANGED <<grabber, callback, queue, displayer, begin_stamp>>

(* Mutant: the newest stamp names the video. *)
CloseVideoNewest(c) ==
    /\ mpc = "close" /\ begin_stamp[c] = 0
    /\ stamps[c] # <<>>
    /\ begin_stamp' = [begin_stamp EXCEPT ![c] = stamps[c][Len(stamps[c])]]
    /\ UNCHANGED <<grabber, callback, queue, displayer, mpc>>

(* Each video is named after its camera's first stamp. *)
CloseVideo(c) ==
    /\ mpc = "close" /\ begin_stamp[c] = 0
    /\ stamps[c] # <<>>
    /\ begin_stamp' = [begin_stamp EXCEPT ![c] = stamps[c][1]]
    /\ UNCHANGED <<grabber, callback, queue, displayer, mpc>>

(* cam_stamps[0] of a camera without a stamp raises, and so does a rename  *)
(* that fails: this video and those after it keep their temporary names.   *)
NamingRaises(c) ==
    /\ mpc = "close" /\ begin_stamp[c] = 0
    /\ mpc' = "raised"
    /\ UNCHANGED <<grabber, callback, queue, displayer, begin_stamp>>

Return ==
    /\ mpc = "close" /\ \A c \in Cams : begin_stamp[c] # 0
    /\ mpc' = "returned"
    /\ UNCHANGED <<grabber, callback, queue, displayer, begin_stamp>>

MainOf(c) == StartGrabber(c) \/ CloseVideo(c) \/ NamingRaises(c)
Main == StartDisplayer \/ JoinDisplayer \/ JoinGrabbers \/ Return \/ \E c \in Cams : MainOf(c)

Gone == mpc \in Over /\ UNCHANGED vars

Next ==
    \/ \E c \in Cams : FrameArrives(c) \/ Callback(c) \/ Grabber(c)
    \/ Displayer \/ Main \/ Gone

Spec == Init /\ [][Next]_vars

(* Every thread is scheduled; frames need not arrive. *)
FairSpec ==
    /\ Spec /\ WF_vars(Displayer) /\ WF_vars(Main)
    /\ \A c \in Cams : WF_vars(Callback(c)) /\ WF_vars(Grabber(c))

-----------------------------------------------------------------------------
(* Properties.                                                             *)

Marked == {i \in 1 .. Len(queue) : queue[i].frame = None}

(* Frames of a camera reach its video in the order they were taken, none   *)
(* twice, although callbacks, displayer and other cameras interleave.      *)
VideoInOrder ==
    \A c \in Cams : \A i \in 2 .. Len(video[c]) : video[c][i - 1] < video[c][i]

(* When main() reads the statistics, every frame of a video is in them: no *)
(* callback is still between its put and its append.                       *)
VideoFramesStamped ==
    mpc \in {"close"} \cup Over =>
        \A c \in Cams : \A i \in 1 .. Len(video[c]) :
            \E j \in 1 .. Len(stamps[c]) : stamps[c][j] = video[c][i]

(* vimbaperf 304: a video is named after its first frame, or else after an *)
(* earlier one that met a full queue and never was a candidate: it is not  *)
(* in the queue, nor further on in the video.  sync.py skips up to the     *)
(* time it wants from the time in the name, so it then cuts that much too  *)
(* far into the video (SyncSession's AlignedStreams).                      *)
NameIsFirstUnlessLost ==
    \A c \in Cams :
        begin_stamp[c] # 0 /\ video[c] # <<>> /\ begin_stamp[c] # video[c][1] =>
            /\ begin_stamp[c] < video[c][1]
            /\ [cam |-> c, frame |-> begin_stamp[c]] \notin {queue[i] : i \in DOMAIN queue}

(* A camera's end marker is behind all its frames. *)
MarkerIsLast ==
    \A i \in Marked : \A j \in i + 1 .. Len(queue) : queue[j].cam # queue[i].cam

(* Without windows to close, the displayer ends only when some camera's    *)
(* stream is over and every frame of it that was queued is in its video.   *)
EndedCameraIsComplete ==
    Stealth /\ dpc = "done" =>
        \E c \in Cams : gpc[c] = "done" /\ \A i \in 1 .. Len(queue) : queue[i].cam # c

(* An end marker that is in the queue, or a closed window, ends the        *)
(* session: displayer, grabbers and main() all get out of their waits.     *)
SessionWindsUp == (Marked # {} \/ ~alive) ~> mpc \in Over

(* "Duration in time" (vimbaperf 206): a session with a duration ends. *)
TimedSessionEnds == Timed => <>(mpc \in Over)

=============================================================================
