-------------------------- MODULE VimbaPerf_proofs --------------------------
(***************************************************************************)
(* Theorems about VimbaPerf, for any number of cameras, any queue and any  *)
(* number of frames: type correctness, the invariant that orders the       *)
(* frames of a camera from the driver to its video, and what follows from  *)
(* it for the videos, their statistics and their names.                    *)
(***************************************************************************)
EXTENDS VimbaPerf, SequenceTheorems, TLAPS

-----------------------------------------------------------------------------
(* The inductive invariant.                                                *)

(* A callback runs only while its camera streams. *)
CallbackInv ==
    \A c \in Cams : cpc[c] # "idle" => gpc[c] = "streaming" /\ frame[c] # 0

(* Videos are named when every grabber is done, after the first stamp. *)
PhaseInv ==
    /\ mpc \in {"close"} \cup Over => \A c \in Cams : gpc[c] = "done"
    /\ \A c \in Cams : begin_stamp[c] # 0 =>
        /\ mpc \in {"close"} \cup Over
        /\ stamps[c] # <<>> /\ begin_stamp[c] = stamps[c][1]

(* A frame is in the statistics, or its callback is about to put it there. *)
Stamped(c, f) ==
    \/ \E j \in 1 .. Len(stamps[c]) : stamps[c][j] = f
    \/ cpc[c] = "stats" /\ frame[c] = f

(* Stamps are in order, and that of the frame in hand is not among them. *)
StampsInv ==
    \A c \in Cams :
        /\ \A i, j \in 1 .. Len(stamps[c]) : i < j => stamps[c][i] < stamps[c][j]
        /\ \A i \in 1 .. Len(stamps[c]) :
            stamps[c][i] <= frame[c] /\ (cpc[c] # "idle" => stamps[c][i] # frame[c])

(* Handed(c, f): frame f has left the callback of camera c. *)
Handed(c, f) ==
    /\ 0 < f /\ f <= frame[c]
    /\ cpc[c] = "put" => f # frame[c]
    /\ Stamped(c, f)

(* The queue holds a camera's frames in order, and its end marker last. *)
QueueInv ==
    \A i \in 1 .. Len(queue) : \A c \in Cams, f \in 0 .. MaxFrames :
        queue[i].cam = c /\ queue[i].frame = f =>
            /\ f = None => gpc[c] = "done"
            /\ f # None => Handed(c, f)
            /\ \A j \in 1 .. Len(queue) : i < j /\ queue[j].cam = c =>
                   f # None /\ (queue[j].frame # None => f < queue[j].frame)

(* A video holds frames in order, all taken before the queued ones. *)
VideoInv ==
    \A c \in Cams, f \in 1 .. MaxFrames : \A i \in 1 .. Len(video[c]) :
        video[c][i] = f =>
            /\ Handed(c, f)
            /\ \A j \in 1 .. Len(video[c]) : i < j => f < video[c][j]
            /\ \A j \in 1 .. Len(queue) :
                   queue[j].cam = c /\ queue[j].frame # None => f < queue[j].frame

FlowInv == CallbackInv /\ PhaseInv /\ StampsInv /\ QueueInv /\ VideoInv

-----------------------------------------------------------------------------
(* Type correctness, and what the operations of the queue do.              *)

USE DEF grabber, callback, displayer, main

LEMMA ConstantTypes == QueueSize \in Nat \ {0} /\ MaxFrames \in Nat
BY VimbaAssumption

(* A put appends the item or changes nothing. *)
LEMMA PutProperties ==
    ASSUME NEW c \in Cams, NEW f \in 0 .. MaxFrames,
           queue \in Seq(Item), Len(queue) <= QueueSize, try_put_frame(c, f)
    PROVE  \/ queue' = queue
           \/ /\ queue' \in Seq(Item) /\ Len(queue') = Len(queue) + 1
              /\ Len(queue') <= QueueSize
              /\ queue'[Len(queue) + 1] = [cam |-> c, frame |-> f]
              /\ \A i \in 1 .. Len(queue) : queue'[i] = queue[i]
<1>1. [cam |-> c, frame |-> f] \in Item
  BY DEF Item
<1>2. CASE full
  BY <1>2 DEF try_put_frame
<1>3. CASE ~full
  <2>1. queue' = Append(queue, [cam |-> c, frame |-> f])
    BY <1>3 DEF try_put_frame
  <2>2. Len(queue) < QueueSize
    BY <1>3, ConstantTypes, LenProperties DEF full
  <2>3. QED
    BY <1>1, <2>1, <2>2, ConstantTypes, AppendProperties, LenProperties
<1>4. QED
  BY <1>2, <1>3

(* After a put, an item is an older one or the one put, which is last. *)
LEMMA PutItems ==
    ASSUME NEW c \in Cams, NEW f \in 0 .. MaxFrames,
           queue \in Seq(Item), Len(queue) <= QueueSize, try_put_frame(c, f),
           NEW i \in 1 .. Len(queue')
    PROVE  \/ i \in 1 .. Len(queue) /\ queue'[i] = queue[i]
           \/ i = Len(queue') /\ queue'[i] = [cam |-> c, frame |-> f]
<1>1. Len(queue) \in Nat
  BY LenProperties
<1>2. CASE queue' = queue
  BY <1>2
<1>3. CASE /\ Len(queue') = Len(queue) + 1
           /\ queue'[Len(queue) + 1] = [cam |-> c, frame |-> f]
           /\ \A j \in 1 .. Len(queue) : queue'[j] = queue[j]
  <2>1. i \in 1 .. Len(queue) \/ i = Len(queue) + 1
    BY <1>1, <1>3
  <2>2. QED
    BY <1>3, <2>1
<1>4. QED
  BY <1>2, <1>3, PutProperties

(* A get takes the first item off. *)
LEMMA GetProperties ==
    ASSUME queue \in Seq(Item), queue # <<>>
    PROVE  /\ Head(queue) = queue[1] /\ queue[1] \in Item /\ Len(queue) \in Nat \ {0}
           /\ Tail(queue) \in Seq(Item) /\ Len(Tail(queue)) = Len(queue) - 1
           /\ \A i \in 1 .. Len(queue) - 1 : Tail(queue)[i] = queue[i + 1]
BY HeadTailProperties, LenProperties, ElementOfSeq

LEMMA TypeInit == Init => TypeOK
BY ConstantTypes DEF Init, TypeOK, Item, Over

LEMMA TypeCallback ==
    ASSUME TypeOK, CallbackInv, NEW c \in Cams, FrameArrives(c) \/ Callback(c)
    PROVE  TypeOK'
<1>1. CASE FrameArrives(c)
  <2>1. frame' \in [Cams -> 0 .. MaxFrames]
    BY <1>1, ConstantTypes DEF FrameArrives, TypeOK
  <2>2. seen_first' \in [Cams -> BOOLEAN] /\ cpc' \in [Cams -> {"idle", "put", "stats"}]
    BY <1>1 DEF FrameArrives, TypeOK
  <2>3. QED
    BY <1>1, <2>1, <2>2 DEF FrameArrives, TypeOK
<1>2. CASE PutFrame(c)
  <2>1. queue' \in Seq(Item) /\ Len(queue') <= QueueSize
    BY <1>2, PutProperties DEF PutFrame, TypeOK
  <2>2. QED
    BY <1>2, <2>1 DEF PutFrame, TypeOK
<1>3. CASE AppendStats(c)
  <2>1. frame[c] \in 1 .. MaxFrames
    BY <1>3, ConstantTypes DEF AppendStats, TypeOK, CallbackInv
  <2>2. stamps' \in [Cams -> Seq(1 .. MaxFrames)]
    BY <1>3, <2>1 DEF AppendStats, TypeOK
  <2>3. QED
    BY <1>3, <2>2 DEF AppendStats, TypeOK
<1>4. QED
  BY <1>1, <1>2, <1>3 DEF Callback

LEMMA TypeGrabber ==
    ASSUME TypeOK, NEW c \in Cams, Grabber(c)
    PROVE  TypeOK'
<1>1. CASE StartStreaming(c) \/ CameraError(c) \/ StopStreaming(c)
  BY <1>1 DEF StartStreaming, CameraError, StopStreaming, TypeOK
<1>2. CASE PutNone(c)
  <2>1. None \in 0 .. MaxFrames
    BY ConstantTypes DEF None
  <2>2. queue' \in Seq(Item) /\ Len(queue') <= QueueSize
    BY <1>2, <2>1, PutProperties DEF PutNone, TypeOK
  <2>3. QED
    BY <1>2, <2>2 DEF PutNone, TypeOK
<1>3. QED
  BY <1>1, <1>2 DEF Grabber

LEMMA TypeDisplayer == TypeOK /\ Displayer => TypeOK'
<1> SUFFICES ASSUME TypeOK, Displayer PROVE TypeOK'
  OBVIOUS
<1>1. CASE Snapshot \/ PassDone
  BY <1>1, ConstantTypes, LenProperties DEF Snapshot, PassDone, TypeOK
<1>2. CASE GetItem
  <2> DEFINE item == Head(queue)
  <2>1. /\ queue \in Seq(Item) /\ queue # <<>> /\ queue' = Tail(queue)
        /\ frames_left' = frames_left - 1 /\ frames_left > 0
    BY <1>2 DEF GetItem, TypeOK
  <2>2. queue' \in Seq(Item) /\ Len(queue') <= QueueSize /\ item \in Item
    BY <2>1, GetProperties, ConstantTypes DEF TypeOK
  <2>3. frames_left' \in 0 .. QueueSize
    BY <2>1, ConstantTypes DEF TypeOK
  <2>4. video' \in [Cams -> Seq(1 .. MaxFrames)]
    <3>1. CASE item.frame = None
      BY <1>2, <3>1 DEF GetItem, TypeOK
    <3>2. CASE item.frame # None
      <4>1. item.frame \in 1 .. MaxFrames /\ item.cam \in Cams
        BY <2>2, <3>2, ConstantTypes DEF Item, None
      <4>2. video' = [video EXCEPT ![item.cam] = Append(@, item.frame)]
        BY <1>2, <3>2 DEF GetItem
      <4>3. QED
        BY <4>1, <4>2 DEF TypeOK
    <3>3. QED
      BY <3>1, <3>2
  <2>5. alive' \in BOOLEAN
    BY <1>2 DEF GetItem, TypeOK
  <2>6. QED
    BY <1>2, <2>2, <2>3, <2>4, <2>5 DEF GetItem, TypeOK
<1>3. QED
  BY <1>1, <1>2 DEF Displayer

LEMMA TypeMain == TypeOK /\ Main => TypeOK'
<1> SUFFICES ASSUME TypeOK, Main PROVE TypeOK'
  OBVIOUS
<1>1. CASE StartDisplayer \/ JoinDisplayer \/ JoinGrabbers \/ Return
  BY <1>1 DEF StartDisplayer, JoinDisplayer, JoinGrabbers, Return, TypeOK, Over
<1>2. ASSUME NEW c \in Cams, StartGrabber(c) \/ NamingRaises(c) PROVE TypeOK'
  BY <1>2 DEF StartGrabber, NamingRaises, TypeOK, Over
<1>3. ASSUME NEW c \in Cams, CloseVideo(c) PROVE TypeOK'
  <2>1. stamps[c][1] \in 0 .. MaxFrames
    BY <1>3, ConstantTypes DEF CloseVideo, TypeOK
  <2>2. QED
    BY <1>3, <2>1 DEF CloseVideo, TypeOK
<1>4. QED
  BY <1>1, <1>2, <1>3 DEF Main, MainOf

LEMMA TypeStep == TypeOK /\ CallbackInv /\ [Next]_vars => TypeOK'
<1> SUFFICES ASSUME TypeOK, CallbackInv, [Next]_vars PROVE TypeOK'
  OBVIOUS
<1>1. CASE UNCHANGED vars \/ Gone
  BY <1>1 DEF vars, Gone, TypeOK
<1>2. QED
  BY <1>1, TypeCallback, TypeGrabber, TypeDisplayer, TypeMain DEF Next

LEMMA CallbackStep == TypeOK /\ CallbackInv /\ [Next]_vars => CallbackInv'
<1> SUFFICES ASSUME TypeOK, CallbackInv, [Next]_vars PROVE CallbackInv'
  OBVIOUS
<1>1. ASSUME NEW c \in Cams, FrameArrives(c) PROVE CallbackInv'
  BY <1>1, ConstantTypes DEF FrameArrives, TypeOK, CallbackInv
<1>2. ASSUME NEW c \in Cams, Callback(c) PROVE CallbackInv'
  BY <1>2 DEF Callback, PutFrame, AppendStats, TypeOK, CallbackInv
<1>3. ASSUME NEW c \in Cams, Grabber(c) PROVE CallbackInv'
  BY <1>3 DEF Grabber, StartStreaming, CameraError, StopStreaming, PutNone, TypeOK,
              CallbackInv
<1>4. CASE Displayer \/ Gone \/ UNCHANGED vars
  BY <1>4 DEF Displayer, Snapshot, GetItem, PassDone, Gone, vars, CallbackInv
<1>5. CASE Main
  BY <1>5 DEF Main, MainOf, StartGrabber, CloseVideo, NamingRaises, StartDisplayer,
              JoinDisplayer, JoinGrabbers, Return, TypeOK, CallbackInv
<1>6. QED
  BY <1>1, <1>2, <1>3, <1>4, <1>5 DEF Next

(* Every variable of vimbaperf keeps its type, the queue its bound, and a  *)
(* callback runs only while its camera streams.                            *)
THEOREM TypeCorrect == Spec => [](TypeOK /\ CallbackInv)
<1>1. Init => CallbackInv
  BY DEF Init, CallbackInv
<1>2. QED
  BY <1>1, TypeInit, TypeStep, CallbackStep, PTL DEF Spec

-----------------------------------------------------------------------------
(* The flow of frames.                                                     *)

LEMMA FlowInit == Init => FlowInv
BY DEF Init, FlowInv, CallbackInv, PhaseInv, StampsInv, QueueInv, VideoInv, Over

(* What only a callback changes. *)
LEMMA NoCallback ==
    ASSUME [Next]_vars, ~ \E c \in Cams : FrameArrives(c) \/ Callback(c)
    PROVE  UNCHANGED callback
BY DEF Next, Grabber, StartStreaming, CameraError, StopStreaming, PutNone, Displayer,
       Snapshot, GetItem, PassDone, Main, MainOf, StartGrabber, CloseVideo, NamingRaises,
       StartDisplayer, JoinDisplayer, JoinGrabbers, Return, Gone, vars

LEMMA PhaseStep == TypeOK /\ CallbackInv /\ PhaseInv /\ [Next]_vars => PhaseInv'
<1> SUFFICES ASSUME TypeOK, CallbackInv, PhaseInv, [Next]_vars PROVE PhaseInv'
  OBVIOUS
<1> USE DEF Over
<1>1. ASSUME NEW c \in Cams, FrameArrives(c) \/ PutFrame(c) PROVE PhaseInv'
  BY <1>1 DEF FrameArrives, PutFrame, PhaseInv
<1>2. ASSUME NEW c \in Cams, AppendStats(c) PROVE PhaseInv'
  <2>1. gpc[c] = "streaming" /\ begin_stamp[c] = 0
    BY <1>2 DEF AppendStats, CallbackInv, PhaseInv
  <2>2. QED
    BY <1>2, <2>1 DEF AppendStats, PhaseInv, TypeOK
<1>3. ASSUME NEW c \in Cams, Grabber(c) PROVE PhaseInv'
  BY <1>3 DEF Grabber, StartStreaming, CameraError, StopStreaming, PutNone, TypeOK, PhaseInv
<1>4. CASE Displayer \/ Gone \/ UNCHANGED vars
  BY <1>4 DEF Displayer, Snapshot, GetItem, PassDone, Gone, vars, PhaseInv
<1>5. CASE StartDisplayer \/ JoinDisplayer \/ JoinGrabbers \/ Return
  BY <1>5 DEF StartDisplayer, JoinDisplayer, JoinGrabbers, Return, PhaseInv
<1>6. ASSUME NEW c \in Cams, MainOf(c) PROVE PhaseInv'
  BY <1>6 DEF MainOf, StartGrabber, CloseVideo, NamingRaises, PhaseInv, TypeOK
<1>7. QED
  BY <1>1, <1>2, <1>3, <1>4, <1>5, <1>6 DEF Next, Callback, Main

LEMMA StampTypes ==
    ASSUME TypeOK, NEW c \in Cams
    PROVE  /\ frame[c] \in Nat
           /\ stamps[c] \in Seq(1 .. MaxFrames) /\ Len(stamps[c]) \in Nat
           /\ \A i \in 1 .. Len(stamps[c]) : stamps[c][i] \in Nat
<1>1. stamps[c] \in Seq(1 .. MaxFrames) /\ frame[c] \in 0 .. MaxFrames
  BY DEF TypeOK
<1>2. QED
  BY <1>1, ElementOfSeq, LenProperties, ConstantTypes

LEMMA StampsStep == TypeOK /\ StampsInv /\ [Next]_vars => StampsInv'
<1> SUFFICES ASSUME TypeOK, StampsInv, [Next]_vars PROVE StampsInv'
  OBVIOUS
<1>1. ASSUME NEW c \in Cams, FrameArrives(c) PROVE StampsInv'
  <2>1. /\ stamps' = stamps /\ frame' = [frame EXCEPT ![c] = @ + 1]
        /\ cpc' \in {cpc, [cpc EXCEPT ![c] = cpc'[c]]}
    BY <1>1 DEF FrameArrives, TypeOK
  <2>2. ASSUME NEW d \in Cams, NEW i \in 1 .. Len(stamps[d])
        PROVE  stamps[d][i] <= frame'[d] /\ (cpc'[d] # "idle" => stamps[d][i] # frame'[d])
    <3>1. stamps[d][i] \in Nat /\ stamps[d][i] <= frame[d] /\ frame[d] \in Nat
      BY StampTypes DEF StampsInv
    <3>2. CASE d = c
      BY <2>1, <3>1, <3>2 DEF TypeOK
    <3>3. CASE d # c
      BY <2>1, <3>1, <3>3 DEF TypeOK, StampsInv
    <3>4. QED
      BY <3>2, <3>3
  <2>3. QED
    BY <2>1, <2>2 DEF StampsInv
<1>2. ASSUME NEW c \in Cams, PutFrame(c) PROVE StampsInv'
  BY <1>2 DEF PutFrame, TypeOK, StampsInv
<1>3. ASSUME NEW c \in Cams, AppendStats(c) PROVE StampsInv'
  <2>1. /\ stamps' = [stamps EXCEPT ![c] = Append(stamps[c], frame[c])]
        /\ cpc' = [cpc EXCEPT ![c] = "idle"] /\ frame' = frame /\ cpc[c] = "stats"
    BY <1>3 DEF AppendStats
  <2>2. \A i \in 1 .. Len(stamps[c]) : stamps[c][i] < frame[c]
    BY <2>1, StampTypes DEF StampsInv
  <2>3. /\ Len(stamps'[c]) = Len(stamps[c]) + 1
        /\ stamps'[c][Len(stamps[c]) + 1] = frame[c]
        /\ \A i \in 1 .. Len(stamps[c]) : stamps'[c][i] = stamps[c][i]
        /\ cpc'[c] = "idle"
    <3>1. stamps'[c] = Append(stamps[c], frame[c]) /\ cpc'[c] = "idle"
      BY <2>1 DEF TypeOK
    <3>2. PICK old \in Seq(1 .. MaxFrames) : old = stamps[c]
      BY DEF TypeOK
    <3>3. frame[c] \in 0 .. MaxFrames
      BY DEF TypeOK
    <3>4. /\ Len(Append(old, frame[c])) = Len(old) + 1
          /\ Append(old, frame[c])[Len(old) + 1] = frame[c]
          /\ \A i \in 1 .. Len(old) : Append(old, frame[c])[i] = old[i]
      BY <3>3
    <3>5. QED
      BY <3>1, <3>2, <3>4, Zenon
  <2>4. \A i \in 1 .. Len(stamps'[c]) : i \in 1 .. Len(stamps[c]) \/ i = Len(stamps[c]) + 1
    <3>1. PICK n \in Nat : n = Len(stamps[c])
      BY StampTypes
    <3>2. Len(stamps'[c]) = n + 1
      BY <2>3, <3>1, Zenon
    <3>3. \A i \in 1 .. n + 1 : i \in 1 .. n \/ i = n + 1
      OBVIOUS
    <3>4. QED
      BY <3>1, <3>2, <3>3, Zenon
  <2>5. \A d \in Cams : d # c => stamps'[d] = stamps[d] /\ cpc'[d] = cpc[d]
    BY <2>1 DEF TypeOK
  <2>6. /\ \A i, j \in 1 .. Len(stamps'[c]) : i < j => stamps'[c][i] < stamps'[c][j]
        /\ \A i \in 1 .. Len(stamps'[c]) : stamps'[c][i] <= frame[c]
    <3>1. PICK n \in Nat : n = Len(stamps[c]) /\ Len(stamps'[c]) = n + 1
      BY <2>3, StampTypes
    <3>2. ASSUME NEW i \in 1 .. n PROVE stamps'[c][i] \in Nat /\ stamps'[c][i] < frame[c]
      BY <2>2, <2>3, <3>1, StampTypes
    <3>3. ASSUME NEW i \in 1 .. n, NEW j \in 1 .. n, i < j
          PROVE  stamps'[c][i] < stamps'[c][j]
      BY <2>3, <3>1, <3>3, Zenon DEF StampsInv
    <3>4. stamps'[c][n + 1] = frame[c] /\ frame[c] \in Nat
      BY <2>3, <3>1, StampTypes, Zenon
    <3>5. \A i \in 1 .. n + 1 : i \in 1 .. n \/ i = n + 1
      OBVIOUS
    <3>6. \A i \in 1 .. n + 1 : stamps'[c][i] <= frame[c]
      BY <3>2, <3>4, <3>5
    <3>7. \A i, j \in 1 .. n + 1 : i < j => i \in 1 .. n
      OBVIOUS
    <3>8. \A i, j \in 1 .. n + 1 : i < j => stamps'[c][i] < stamps'[c][j]
      BY <3>2, <3>3, <3>4, <3>5, <3>7
    <3>9. QED
      BY <3>1, <3>6, <3>8, Zenon
  <2>7. QED
    BY <2>1, <2>3, <2>5, <2>6 DEF StampsInv
<1>4. CASE UNCHANGED callback
  BY <1>4 DEF StampsInv
<1>5. QED
  BY <1>1, <1>2, <1>3, <1>4, NoCallback DEF Callback

(* A frame that has left its callback stays behind it. *)
LEMMA HandedStep ==
    ASSUME TypeOK, [Next]_vars, NEW c \in Cams, NEW f \in 0 .. MaxFrames, Handed(c, f)
    PROVE  Handed(c, f)'
<1>1. CASE FrameArrives(c)
  BY <1>1, ConstantTypes DEF FrameArrives, TypeOK, Handed, Stamped
<1>2. CASE PutFrame(c)
  BY <1>2 DEF PutFrame, TypeOK, Handed, Stamped
<1>3. CASE AppendStats(c)
  <2>1. stamps'[c] = Append(stamps[c], frame[c]) /\ frame' = frame /\ cpc'[c] = "idle"
    BY <1>3 DEF AppendStats, TypeOK
  <2>2. \E j \in 1 .. Len(stamps'[c]) : stamps'[c][j] = f
    <3>1. CASE \E j \in 1 .. Len(stamps[c]) : stamps[c][j] = f
      BY <2>1, <3>1, ConstantTypes DEF TypeOK
    <3>2. CASE frame[c] = f
      <4>1. stamps'[c][Len(stamps'[c])] = f /\ Len(stamps'[c]) \in 1 .. Len(stamps'[c])
        BY <2>1, <3>2, ConstantTypes DEF TypeOK
      <4>2. QED
        BY <4>1
    <3>3. QED
      BY <3>1, <3>2 DEF Handed, Stamped
  <2>3. QED
    BY <2>1, <2>2 DEF Handed, Stamped
<1>4. ASSUME NEW d \in Cams, d # c, FrameArrives(d) \/ Callback(d) PROVE Handed(c, f)'
  BY <1>4 DEF FrameArrives, Callback, PutFrame, AppendStats, TypeOK, Handed, Stamped
<1>5. CASE UNCHANGED callback
  BY <1>5 DEF Handed, Stamped
<1>6. QED
  BY <1>1, <1>2, <1>3, <1>4, <1>5, NoCallback DEF Callback

(* So does a grabber that is done. *)
LEMMA DoneStep ==
    ASSUME TypeOK, [Next]_vars, NEW c \in Cams, gpc[c] = "done"
    PROVE  gpc'[c] = "done"
<1>1. ASSUME NEW d \in Cams, FrameArrives(d) \/ Callback(d) PROVE gpc'[c] = "done"
  BY <1>1 DEF FrameArrives, Callback, PutFrame, AppendStats
<1>2. ASSUME NEW d \in Cams, Grabber(d) PROVE gpc'[c] = "done"
  BY <1>2 DEF Grabber, StartStreaming, CameraError, StopStreaming, PutNone, TypeOK
<1>3. CASE Displayer \/ Gone \/ UNCHANGED vars
  BY <1>3 DEF Displayer, Snapshot, GetItem, PassDone, Gone, vars
<1>4. CASE Main
  BY <1>4 DEF Main, MainOf, StartGrabber, CloseVideo, NamingRaises, StartDisplayer,
              JoinDisplayer, JoinGrabbers, Return, TypeOK
<1>5. QED
  BY <1>1, <1>2, <1>3, <1>4 DEF Next

LEMMA QueueTypes ==
    ASSUME TypeOK, NEW i \in 1 .. Len(queue)
    PROVE  queue[i].cam \in Cams /\ queue[i].frame \in 0 .. MaxFrames
<1>1. queue \in Seq(Item)
  BY DEF TypeOK
<1>2. queue[i] \in Item
  BY <1>1, ElementOfSeq
<1>3. QED
  BY <1>2 DEF Item

(* An item may be put behind older ones of its camera. *)
LEMMA QueuePut ==
    ASSUME TypeOK, QueueInv, [Next]_vars, NEW c \in Cams, NEW f \in 0 .. MaxFrames,
           try_put_frame(c, f),
           gpc[c] # "done",
           f = None => gpc'[c] = "done",
           f # None => Handed(c, f)',
           f # None => \A g \in 1 .. MaxFrames : Handed(c, g) => g < f
    PROVE  QueueInv'
<1>1. SUFFICES ASSUME NEW i \in 1 .. Len(queue'), NEW d \in Cams, NEW g \in 0 .. MaxFrames,
                      queue'[i].cam = d, queue'[i].frame = g
               PROVE  /\ g = None => gpc'[d] = "done"
                      /\ g # None => Handed(d, g)'
                      /\ \A j \in 1 .. Len(queue') : i < j /\ queue'[j].cam = d =>
                            g # None /\ (queue'[j].frame # None => g < queue'[j].frame)
  BY DEF QueueInv
<1>2. CASE i \in 1 .. Len(queue) /\ queue'[i] = queue[i]
  <2>1. /\ g = None => gpc[d] = "done"
        /\ g # None => Handed(d, g)
        /\ \A j \in 1 .. Len(queue) : i < j /\ queue[j].cam = d =>
              g # None /\ (queue[j].frame # None => g < queue[j].frame)
    BY <1>1, <1>2 DEF QueueInv
  <2>2. ASSUME NEW j \in 1 .. Len(queue'), i < j, queue'[j].cam = d
        PROVE  g # None /\ (queue'[j].frame # None => g < queue'[j].frame)
    <3>1. CASE j \in 1 .. Len(queue) /\ queue'[j] = queue[j]
      BY <2>1, <2>2, <3>1
    <3>2. CASE queue'[j] = [cam |-> c, frame |-> f]
      <4>1. d = c /\ g # None /\ g \in 1 .. MaxFrames
        BY <2>1, <2>2, <3>2 DEF None
      <4>2. QED
        BY <2>1, <3>2, <4>1
    <3>3. QED
      BY <2>2, <3>1, <3>2, PutItems DEF TypeOK
  <2>3. QED
    BY <2>1, <2>2, DoneStep, HandedStep
<1>3. CASE i = Len(queue') /\ queue'[i] = [cam |-> c, frame |-> f]
  <2>1. d = c /\ g = f
    BY <1>1, <1>3
  <2>2. \A j \in 1 .. Len(queue') : ~(i < j)
    BY <1>3
  <2>3. QED
    BY <2>1, <2>2
<1>4. QED
  BY <1>1, <1>2, <1>3, PutItems DEF TypeOK

LEMMA QueueStep ==
    ASSUME TypeOK, CallbackInv, QueueInv, [Next]_vars
    PROVE  QueueInv'
<1>1. CASE UNCHANGED queue
  <2>1. SUFFICES ASSUME NEW i \in 1 .. Len(queue), NEW d \in Cams,
                        NEW g \in 0 .. MaxFrames, queue[i].cam = d, queue[i].frame = g
                 PROVE  /\ g = None => gpc'[d] = "done"
                        /\ g # None => Handed(d, g)'
                        /\ \A j \in 1 .. Len(queue) : i < j /\ queue[j].cam = d =>
                              g # None /\ (queue[j].frame # None => g < queue[j].frame)
    BY <1>1 DEF QueueInv
  <2>2. QED
    BY <2>1, DoneStep, HandedStep DEF QueueInv
<1>2. ASSUME NEW c \in Cams, PutFrame(c) PROVE QueueInv'
  <2>1. /\ cpc[c] = "put" /\ gpc[c] = "streaming" /\ frame[c] \in 1 .. MaxFrames
        /\ try_put_frame(c, frame[c])
    BY <1>2 DEF PutFrame, CallbackInv, TypeOK
  <2>2. Handed(c, frame[c])'
    BY <1>2, <2>1 DEF PutFrame, TypeOK, Handed, Stamped
  <2>3. \A g \in 1 .. MaxFrames : Handed(c, g) => g < frame[c]
    BY <2>1 DEF Handed
  <2>4. PICK f \in 1 .. MaxFrames : f = frame[c]
    BY <2>1
  <2>5. Handed(c, f)'
    BY <1>2, <2>2, <2>4 DEF PutFrame, Handed, Stamped
  <2>6. QED
    BY <2>1, <2>3, <2>4, <2>5, QueuePut DEF None
<1>3. ASSUME NEW c \in Cams, PutNone(c) PROVE QueueInv'
  <2>1. /\ gpc[c] # "done" /\ gpc'[c] = "done" /\ try_put_frame(c, None)
    BY <1>3 DEF PutNone, TypeOK
  <2>2. None \in 0 .. MaxFrames
    BY ConstantTypes DEF None
  <2>3. QED
    BY <2>1, <2>2, QueuePut
<1>4. CASE GetItem
  <2>1. /\ Len(queue') = Len(queue) - 1 /\ Len(queue) \in Nat \ {0}
        /\ \A i \in 1 .. Len(queue') : queue'[i] = queue[i + 1]
    BY <1>4, GetProperties DEF GetItem, TypeOK
  <2>2. SUFFICES ASSUME NEW i \in 1 .. Len(queue'), NEW d \in Cams,
                        NEW g \in 0 .. MaxFrames, queue'[i].cam = d, queue'[i].frame = g
                 PROVE  /\ g = None => gpc'[d] = "done"
                        /\ g # None => Handed(d, g)'
                        /\ \A j \in 1 .. Len(queue') : i < j /\ queue'[j].cam = d =>
                              g # None /\ (queue'[j].frame # None => g < queue'[j].frame)
    BY DEF QueueInv
  <2>3. i + 1 \in 1 .. Len(queue) /\ queue[i + 1].cam = d /\ queue[i + 1].frame = g
    BY <2>1, <2>2
  <2>4. /\ g = None => gpc[d] = "done"
        /\ g # None => Handed(d, g)
        /\ \A j \in 1 .. Len(queue) : i + 1 < j /\ queue[j].cam = d =>
              g # None /\ (queue[j].frame # None => g < queue[j].frame)
    BY <2>3 DEF QueueInv
  <2>5. QED
    BY <2>1, <2>4, DoneStep, HandedStep
<1>5. QED
  BY <1>1, <1>2, <1>3, <1>4
     DEF Next, FrameArrives, Callback, AppendStats, Grabber, StartStreaming, CameraError,
         StopStreaming, Displayer, Snapshot, PassDone, Main, MainOf, StartGrabber,
         CloseVideo, NamingRaises, StartDisplayer, JoinDisplayer, JoinGrabbers, Return, Gone, vars

LEMMA VideoTypes ==
    ASSUME TypeOK, NEW c \in Cams
    PROVE  /\ video[c] \in Seq(1 .. MaxFrames) /\ Len(video[c]) \in Nat
           /\ \A i \in 1 .. Len(video[c]) : video[c][i] \in 1 .. MaxFrames
<1>1. video[c] \in Seq(1 .. MaxFrames)
  BY DEF TypeOK
<1>2. QED
  BY <1>1, ElementOfSeq, LenProperties

(* Taking an item off keeps what is left behind the videos. *)
LEMMA VideoGet == TypeOK /\ QueueInv /\ VideoInv /\ [Next]_vars /\ GetItem => VideoInv'
<1> SUFFICES ASSUME TypeOK, QueueInv, VideoInv, [Next]_vars, GetItem PROVE VideoInv'
  OBVIOUS
<1>1. /\ queue \in Seq(Item) /\ Len(queue) \in Nat \ {0} /\ 1 \in 1 .. Len(queue)
      /\ Len(queue') = Len(queue) - 1
      /\ \A j \in 1 .. Len(queue') : j + 1 \in 1 .. Len(queue) /\ queue'[j] = queue[j + 1]
      /\ Head(queue) = queue[1]
  BY GetProperties DEF GetItem, TypeOK
<1>2. SUFFICES ASSUME NEW c \in Cams, NEW f \in 1 .. MaxFrames,
                      NEW i \in 1 .. Len(video'[c]), video'[c][i] = f
               PROVE  /\ Handed(c, f)'
                      /\ \A j \in 1 .. Len(video'[c]) : i < j => f < video'[c][j]
                      /\ \A j \in 1 .. Len(queue') :
                            queue'[j].cam = c /\ queue'[j].frame # None =>
                                f < queue'[j].frame
  BY DEF VideoInv
<1>3. f \in 0 .. MaxFrames
  OBVIOUS
<1>4. CASE video'[c] = video[c]
  <2>1. /\ Handed(c, f)
        /\ \A j \in 1 .. Len(video[c]) : i < j => f < video[c][j]
        /\ \A j \in 1 .. Len(queue) :
              queue[j].cam = c /\ queue[j].frame # None => f < queue[j].frame
    BY <1>2, <1>4 DEF VideoInv
  <2>2. QED
    BY <1>1, <1>3, <1>4, <2>1, HandedStep
<1>5. CASE video'[c] # video[c]
  <2>1. PICK g \in 1 .. MaxFrames :
            queue[1].cam = c /\ queue[1].frame = g /\ video'[c] = Append(video[c], g)
    <3>1. queue[1].cam \in Cams /\ queue[1].frame \in 0 .. MaxFrames
      BY <1>1, QueueTypes
    <3>2. /\ queue[1].frame # None
          /\ video' = [video EXCEPT ![queue[1].cam] = Append(@, queue[1].frame)]
      BY <1>1, <1>5 DEF GetItem
    <3>3. queue[1].frame \in 1 .. MaxFrames
      BY <3>1, <3>2, ConstantTypes DEF None
    <3>4. queue[1].cam = c
      BY <1>5, <3>2 DEF TypeOK
    <3>5. QED
      BY <3>2, <3>3, <3>4 DEF TypeOK
  <2>2. /\ Len(video'[c]) = Len(video[c]) + 1 /\ video'[c][Len(video[c]) + 1] = g
        /\ \A j \in 1 .. Len(video[c]) : video'[c][j] = video[c][j]
    BY <2>1, VideoTypes
  <2>3. \A j \in 1 .. Len(video'[c]) : j \in 1 .. Len(video[c]) \/ j = Len(video[c]) + 1
    BY <2>2, VideoTypes
  <2>4. g \in 0 .. MaxFrames /\ g # None
    BY DEF None
  <2>5. /\ Handed(c, g)
        /\ \A j \in 1 .. Len(queue) :
              1 < j /\ queue[j].cam = c /\ queue[j].frame # None => g < queue[j].frame
    BY <1>1, <2>1, <2>4 DEF QueueInv
  <2>6. CASE i \in 1 .. Len(video[c])
    <3>1. video[c][i] = f
      BY <1>2, <2>2, <2>6
    <3>2. /\ Handed(c, f)
          /\ \A j \in 1 .. Len(video[c]) : i < j => f < video[c][j]
          /\ \A j \in 1 .. Len(queue) :
                queue[j].cam = c /\ queue[j].frame # None => f < queue[j].frame
      BY <2>6, <3>1 DEF VideoInv
    <3>3. f < g
      BY <1>1, <2>1, <2>4, <3>2
    <3>4. Handed(c, f)'
      BY <1>1, <3>2, HandedStep
    <3>5. \A j \in 1 .. Len(video'[c]) : i < j => f < video'[c][j]
      BY <2>2, <2>3, <2>6, <3>2, <3>3
    <3>6. QED
      BY <1>1, <1>3, <3>2, <3>4, <3>5
  <2>7. CASE i = Len(video[c]) + 1
    <3>1. f = g
      BY <1>2, <2>2, <2>7
    <3>2. \A j \in 1 .. Len(video'[c]) : ~(i < j)
      BY <2>2, <2>7, VideoTypes
    <3>3. \A j \in 1 .. Len(queue') : 1 < j + 1
      OBVIOUS
    <3>4. QED
      BY <1>1, <1>3, <2>5, <3>1, <3>2, <3>3, HandedStep
  <2>8. QED
    BY <2>3, <2>6, <2>7
<1>6. QED
  BY <1>4, <1>5

(* What is put in the queue is newer than the camera's video. *)
LEMMA VideoPut ==
    ASSUME TypeOK, VideoInv, [Next]_vars, NEW c \in Cams, NEW f \in 0 .. MaxFrames,
           try_put_frame(c, f), video' = video,
           f # None => \A g \in 1 .. MaxFrames : Handed(c, g) => g < f
    PROVE  VideoInv'
<1>1. SUFFICES ASSUME NEW d \in Cams, NEW g \in 1 .. MaxFrames,
                      NEW i \in 1 .. Len(video[d]), video[d][i] = g
               PROVE  /\ Handed(d, g)'
                      /\ \A j \in 1 .. Len(video[d]) : i < j => g < video[d][j]
                      /\ \A j \in 1 .. Len(queue') :
                            queue'[j].cam = d /\ queue'[j].frame # None =>
                                g < queue'[j].frame
  BY DEF VideoInv
<1>2. /\ Handed(d, g)
      /\ \A j \in 1 .. Len(video[d]) : i < j => g < video[d][j]
      /\ \A j \in 1 .. Len(queue) :
            queue[j].cam = d /\ queue[j].frame # None => g < queue[j].frame
  BY <1>1 DEF VideoInv
<1>3. ASSUME NEW j \in 1 .. Len(queue'), queue'[j].cam = d, queue'[j].frame # None
      PROVE  g < queue'[j].frame
  <2>1. CASE j \in 1 .. Len(queue) /\ queue'[j] = queue[j]
    BY <1>2, <1>3, <2>1
  <2>2. CASE queue'[j] = [cam |-> c, frame |-> f]
    BY <1>2, <1>3, <2>2
  <2>3. QED
    BY <1>3, <2>1, <2>2, PutItems DEF TypeOK
<1>4. g \in 0 .. MaxFrames
  OBVIOUS
<1>5. QED
  BY <1>2, <1>3, <1>4, HandedStep

LEMMA VideoStep ==
    ASSUME TypeOK, CallbackInv, QueueInv, VideoInv, [Next]_vars
    PROVE  VideoInv'
<1>1. CASE UNCHANGED <<queue, video>>
  <2>1. SUFFICES ASSUME NEW c \in Cams, NEW f \in 1 .. MaxFrames,
                        NEW i \in 1 .. Len(video[c]), video[c][i] = f
                 PROVE  Handed(c, f)'
    BY <1>1 DEF VideoInv
  <2>2. f \in 0 .. MaxFrames /\ Handed(c, f)
    BY <2>1 DEF VideoInv
  <2>3. QED
    BY <2>2, HandedStep
<1>2. ASSUME NEW c \in Cams, PutFrame(c) PROVE VideoInv'
  <2>1. /\ cpc[c] = "put" /\ frame[c] \in 0 .. MaxFrames
        /\ try_put_frame(c, frame[c]) /\ video' = video
    BY <1>2 DEF PutFrame, TypeOK
  <2>2. \A g \in 1 .. MaxFrames : Handed(c, g) => g < frame[c]
    BY <2>1 DEF Handed
  <2>3. QED
    BY <2>1, <2>2, VideoPut
<1>3. ASSUME NEW c \in Cams, PutNone(c) PROVE VideoInv'
  <2>1. None \in 0 .. MaxFrames
    BY ConstantTypes DEF None
  <2>2. QED
    BY <1>3, <2>1, VideoPut DEF PutNone
<1>4. QED
  BY <1>1, <1>2, <1>3, VideoGet
     DEF Next, FrameArrives, Callback, AppendStats, Grabber, StartStreaming, CameraError,
         StopStreaming, Displayer, Snapshot, PassDone, Main, MainOf, StartGrabber,
         CloseVideo, NamingRaises, StartDisplayer, JoinDisplayer, JoinGrabbers, Return, Gone, vars

(* The order of a camera's frames, in its stamps, in the queue and in its  *)
(* video, holds throughout, with the phases of the session.                *)
THEOREM FlowCorrect == Spec => []FlowInv
<1>1. TypeOK /\ FlowInv /\ [Next]_vars => FlowInv'
  BY CallbackStep, PhaseStep, StampsStep, QueueStep, VideoStep DEF FlowInv
<1>2. QED
  BY <1>1, FlowInit, TypeCorrect, PTL DEF Spec

-----------------------------------------------------------------------------
(* What follows from it.                                                   *)

(* Frames of a camera reach its video in order and none twice. *)
THEOREM VideoIsInOrder == Spec => []VideoInOrder
<1>1. TypeOK /\ FlowInv => VideoInOrder
  <2>1. SUFFICES ASSUME TypeOK, FlowInv, NEW c \in Cams, NEW i \in 2 .. Len(video[c])
                 PROVE  video[c][i - 1] < video[c][i]
    BY DEF VideoInOrder
  <2>2. i - 1 \in 1 .. Len(video[c]) /\ i \in 1 .. Len(video[c]) /\ i - 1 < i
    BY <2>1, VideoTypes
  <2>3. QED
    BY <2>1, <2>2, VideoTypes DEF FlowInv, VideoInv
<1>2. QED
  BY <1>1, TypeCorrect, FlowCorrect, PTL

(* A camera's end marker is behind all its frames. *)
THEOREM MarkerComesLast == Spec => []MarkerIsLast
<1>1. TypeOK /\ FlowInv => MarkerIsLast
  <2>1. SUFFICES ASSUME TypeOK, FlowInv, NEW i \in 1 .. Len(queue), queue[i].frame = None,
                        NEW j \in i + 1 .. Len(queue)
                 PROVE  queue[j].cam # queue[i].cam
    BY DEF MarkerIsLast, Marked
  <2>2. j \in 1 .. Len(queue) /\ i < j
    BY <2>1
  <2>3. QED
    BY <2>1, <2>2, QueueTypes DEF FlowInv, QueueInv
<1>2. QED
  BY <1>1, TypeCorrect, FlowCorrect, PTL

(* When main() closes the videos, every frame in one is in the statistics. *)
THEOREM VideoIsStamped == Spec => []VideoFramesStamped
<1>1. TypeOK /\ FlowInv => VideoFramesStamped
  <2>1. SUFFICES ASSUME TypeOK, FlowInv, mpc \in {"close"} \cup Over,
                        NEW c \in Cams, NEW i \in 1 .. Len(video[c])
                 PROVE  \E j \in 1 .. Len(stamps[c]) : stamps[c][j] = video[c][i]
    BY DEF VideoFramesStamped
  <2>2. cpc[c] = "idle"
    BY <2>1 DEF FlowInv, PhaseInv, CallbackInv
  <2>3. Handed(c, video[c][i])
    BY <2>1, VideoTypes DEF FlowInv, VideoInv
  <2>4. QED
    BY <2>2, <2>3 DEF Handed, Stamped
<1>2. QED
  BY <1>1, TypeCorrect, FlowCorrect, PTL

(* A video is named after its first frame, or after an earlier one that is *)
(* neither queued nor in the video: it met a full queue.                   *)
THEOREM NameIsOfFirstFrame == Spec => []NameIsFirstUnlessLost
<1>1. TypeOK /\ FlowInv => NameIsFirstUnlessLost
  <2>1. SUFFICES ASSUME TypeOK, FlowInv, NEW c \in Cams, begin_stamp[c] # 0,
                        video[c] # <<>>, begin_stamp[c] # video[c][1]
                 PROVE  /\ begin_stamp[c] < video[c][1]
                        /\ [cam |-> c, frame |-> begin_stamp[c]]
                               \notin {queue[i] : i \in DOMAIN queue}
    BY DEF NameIsFirstUnlessLost
  <2>2. /\ mpc \in {"close"} \cup Over
        /\ stamps[c] # <<>> /\ begin_stamp[c] = stamps[c][1]
    BY <2>1 DEF FlowInv, PhaseInv
  <2>3. cpc[c] = "idle"
    BY <2>1, <2>2 DEF FlowInv, PhaseInv, CallbackInv
  <2>4. 1 \in 1 .. Len(video[c]) /\ video[c][1] \in 1 .. MaxFrames
    BY <2>1, VideoTypes, EmptySeq
  <2>5. Handed(c, video[c][1])
    BY <2>1, <2>4 DEF FlowInv, VideoInv
  <2>6. PICK j \in 1 .. Len(stamps[c]) : stamps[c][j] = video[c][1]
    BY <2>3, <2>5 DEF Handed, Stamped
  <2>7. stamps[c][1] <= stamps[c][j]
    BY <2>1, <2>6, StampTypes DEF FlowInv, StampsInv
  <2>8. begin_stamp[c] < video[c][1] /\ begin_stamp[c] # None
    BY <2>1, <2>2, <2>4, <2>6, <2>7, StampTypes DEF None
  <2>9. ASSUME NEW i \in DOMAIN queue, queue[i] = [cam |-> c, frame |-> begin_stamp[c]]
        PROVE  FALSE
    <3>1. i \in 1 .. Len(queue) /\ queue[i].cam = c /\ queue[i].frame # None
      BY <2>1, <2>8, <2>9, LenProperties DEF TypeOK
    <3>2. video[c][1] < queue[i].frame
      BY <2>1, <2>4, <3>1 DEF FlowInv, VideoInv
    <3>3. QED
      BY <2>1, <2>4, <2>8, <2>9, <3>2, ConstantTypes DEF TypeOK
  <2>10. QED
    BY <2>8, <2>9
<1>2. QED
  BY <1>1, TypeCorrect, FlowCorrect, PTL

-----------------------------------------------------------------------------
(* The end of a session without windows.                                   *)

(* The camera is done and nothing of it is left in the queue. *)
Ended(c) == gpc[c] = "done" /\ \A i \in 1 .. Len(queue) : queue[i].cam # c

(* Only the end marker of such a camera stops the displayer. *)
EndInv ==
    /\ Stealth /\ ~alive => \E c \in Cams : Ended(c)
    /\ dpc = "done" => ~alive

(* A camera that has ended stays so: nothing is put for it any more. *)
LEMMA EndedStep ==
    ASSUME TypeOK, CallbackInv, [Next]_vars, NEW c \in Cams, Ended(c)
    PROVE  Ended(c)'
<1>1. gpc[c] = "done" /\ gpc'[c] = "done" /\ cpc[c] # "put"
  BY DoneStep DEF Ended, CallbackInv
<1>2. CASE UNCHANGED queue
  BY <1>1, <1>2 DEF Ended
<1>3. ASSUME NEW d \in Cams, PutFrame(d) \/ PutNone(d) PROVE Ended(c)'
  <2>1. d # c
    BY <1>1, <1>3 DEF PutFrame, PutNone
  <2>2. PICK f \in 0 .. MaxFrames : try_put_frame(d, f)
    <3>1. frame[d] \in 0 .. MaxFrames /\ None \in 0 .. MaxFrames
      BY ConstantTypes DEF TypeOK, None
    <3>2. QED
      BY <1>3, <3>1 DEF PutFrame, PutNone
  <2>3. ASSUME NEW i \in 1 .. Len(queue') PROVE queue'[i].cam # c
    <3>1. queue \in Seq(Item) /\ Len(queue) <= QueueSize
      BY DEF TypeOK
    <3>2. \/ i \in 1 .. Len(queue) /\ queue'[i] = queue[i]
          \/ queue'[i] = [cam |-> d, frame |-> f]
      BY <2>2, <3>1, PutItems
    <3>3. QED
      BY <2>1, <3>2 DEF Ended
  <2>4. QED
    BY <1>1, <2>3 DEF Ended
<1>4. CASE GetItem
  <2>1. /\ Len(queue') = Len(queue) - 1 /\ Len(queue) \in Nat
        /\ \A i \in 1 .. Len(queue') : queue'[i] = queue[i + 1]
    BY <1>4, GetProperties DEF GetItem, TypeOK
  <2>2. \A i \in 1 .. Len(queue') : i + 1 \in 1 .. Len(queue)
    BY <2>1
  <2>3. QED
    BY <1>1, <2>1, <2>2 DEF Ended
<1>5. QED
  BY <1>2, <1>3, <1>4
     DEF Next, FrameArrives, Callback, AppendStats, Grabber, StartStreaming, CameraError,
         StopStreaming, Displayer, Snapshot, PassDone, Main, MainOf, StartGrabber,
         CloseVideo, NamingRaises, StartDisplayer, JoinDisplayer, JoinGrabbers, Return, Gone, vars

LEMMA EndStep == TypeOK /\ CallbackInv /\ QueueInv /\ EndInv /\ [Next]_vars => EndInv'
<1> SUFFICES ASSUME TypeOK, CallbackInv, QueueInv, EndInv, [Next]_vars PROVE EndInv'
  OBVIOUS
<1>1. CASE GetItem
  <2>1. /\ queue \in Seq(Item) /\ queue # <<>> /\ queue' = Tail(queue)
        /\ Stealth' = Stealth /\ gpc' = gpc /\ dpc' # "done"
    BY <1>1 DEF GetItem, TypeOK, Stealth
  <2>2. CASE Head(queue).frame = None
    <3>1. /\ 1 \in 1 .. Len(queue) /\ Head(queue) = queue[1]
          /\ Len(queue') = Len(queue) - 1 /\ Len(queue) \in Nat
          /\ \A i \in 1 .. Len(queue') : queue'[i] = queue[i + 1]
      BY <2>1, GetProperties
    <3>2. PICK c \in Cams : queue[1].cam = c /\ queue[1].frame = None
      BY <2>2, <3>1, QueueTypes
    <3>3. None \in 0 .. MaxFrames
      BY ConstantTypes DEF None
    <3>4. /\ gpc[c] = "done"
          /\ \A j \in 1 .. Len(queue) : 1 < j => queue[j].cam # c
      BY <3>1, <3>2, <3>3 DEF QueueInv
    <3>5. \A i \in 1 .. Len(queue') : i + 1 \in 1 .. Len(queue) /\ 1 < i + 1
      BY <3>1
    <3>6. Ended(c)'
      BY <2>1, <3>1, <3>4, <3>5 DEF Ended
    <3>7. QED
      BY <2>1, <3>6 DEF EndInv
  <2>3. CASE Head(queue).frame # None
    <3>1. Stealth => alive' = alive
      BY <1>1, <2>3 DEF GetItem
    <3>2. QED
      BY <2>1, <3>1, EndedStep DEF EndInv
  <2>4. QED
    BY <2>2, <2>3
<1>2. CASE PassDone
  BY <1>2, EndedStep DEF PassDone, EndInv, Stealth
<1>3. CASE UNCHANGED <<args, alive>> /\ dpc' \in {dpc, "loop", "drain"}
  BY <1>3, EndedStep DEF EndInv, Stealth
<1>4. QED
  BY <1>1, <1>2, <1>3
     DEF Next, FrameArrives, Callback, PutFrame, AppendStats, Grabber, StartStreaming,
         CameraError, StopStreaming, PutNone, Displayer, Snapshot, Main, MainOf,
         StartGrabber, CloseVideo, NamingRaises, StartDisplayer, JoinDisplayer, JoinGrabbers,
         Return, Gone, vars

(* Without windows the displayer ends only when some camera is done and    *)
(* every item of it has left the queue.                                    *)
THEOREM EndedIsComplete == Spec => []EndedCameraIsComplete
<1>1. Init => EndInv
  BY DEF Init, EndInv
<1>2. TypeOK /\ FlowInv /\ EndInv /\ [Next]_vars => EndInv'
  BY EndStep DEF FlowInv
<1>3. EndInv => EndedCameraIsComplete
  BY DEF EndInv, Ended, EndedCameraIsComplete
<1>4. QED
  BY <1>1, <1>2, <1>3, TypeCorrect, FlowCorrect, PTL DEF Spec
=============================================================================
