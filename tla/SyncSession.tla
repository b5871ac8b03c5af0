----------------------------- MODULE SyncSession ----------------------------
(***************************************************************************)
(* The sync utility (sync/sync.py): it runs vimbaperf and avbperf side by  *)
(* side, waits for both, and joins every video with the audio, cut to the  *)
(* time the last of them started.  What it knows of the two programs are   *)
(* the files they leave in ./tmp and the times in their names.             *)
(*                                                                         *)
(* A file has the time in its name (stamp) and, as history, the time its   *)
(* first frame was captured (start) and the session that recorded it; a    *)
(* video also has the time of the frame it is named after (first).         *)
(* Sessions are run one after the other in the same directory, with the    *)
(* same --outputFile.                                                      *)
(***************************************************************************)
EXTENDS Integers, FiniteSets, FiniteSetsExt

CONSTANTS
    Cams,
    Starts,         \* when a recording may start, counted from its session's start
    UtcOffset,      \* local time minus UTC
    Sessions        \* bound: sessions run

ASSUME SyncAssumption ==
    /\ IsFiniteSet(Cams) /\ Starts \subseteq Nat /\ UtcOffset \in Int /\ Sessions \in Nat

VARIABLES
    session, keep, pc,  \* number of the session; --keep; where main() is
    cam, mic,           \* the two processes
    tmp,                \* the files in ./tmp
    videos, audio,      \* files listed and not yet joined; the audio file
    latest,             \* latest_start_time
    out,                \* the joined file of each camera
    left, joined        \* history: ./tmp was left as it was; videos given to ffmpeg

vars == <<session, keep, pc, cam, mic, tmp, videos, audio, latest, out, left, joined>>

None == [kind |-> "none"]
Of(kind, files) == {f \in files : f.kind = kind}
Clock(start) == 10 * session + start

Init ==
    /\ session = 0 /\ keep = FALSE /\ pc = "off"
    /\ cam = "off" /\ mic = "off"
    /\ tmp = {} /\ videos = {} /\ audio = None /\ latest = 0
    /\ out = [c \in Cams |-> None]
    /\ left = FALSE /\ joined = {}

(* sync is started: what an earlier session left in ./tmp is still there. *)
Start ==
    /\ pc = "off" /\ session < Sessions
    /\ session' = session + 1 /\ keep' \in BOOLEAN
    /\ cam' = "running" /\ mic' = "running"
    /\ pc' = "join camera"
    /\ UNCHANGED <<tmp, videos, audio, latest, out, left, joined>>

-----------------------------------------------------------------------------
(* The two programs.                                                       *)

Recording == UNCHANGED <<session, keep, pc, videos, audio, latest, out, left, joined>>

(* vimbaperf names a video after the first stamp of its camera, in local   *)
(* time with a Z behind it.                                                *)
Video(c, first, start) ==
    [kind |-> "video", cam |-> c, stamp |-> Clock(first) + UtcOffset,
     first |-> Clock(first), start |-> Clock(start), session |-> session]

(* It ends with a video of every camera, of some or of none.  The frame of *)
(* the first stamp is the first of the video, or it met a full queue and   *)
(* is an earlier one (VimbaPerf's NameIsFirstUnlessLost).                  *)
CameraEnds ==
    /\ cam = "running" /\ cam' = "done"
    /\ \E S \in SUBSET Cams : \E first, start \in [S -> Starts] :
          /\ \A c \in S : first[c] <= start[c]
          /\ tmp' = tmp \cup {Video(c, first[c], start[c]) : c \in S}
    /\ Recording /\ UNCHANGED mic

(* The end marker of a camera was lost. *)
CameraHangs ==
    /\ cam = "running" /\ cam' = "hung"
    /\ Recording /\ UNCHANGED <<mic, tmp>>

(* avbperf names its recording after the UTC time of its first packet. *)
Audio(stamp, start) ==
    [kind |-> "audio", stamp |-> Clock(stamp), start |-> Clock(start), session |-> session]

(* Mutant: avbperf is started without --timeout. *)
mic_without_timeout ==
    /\ mic = "running"
    /\ Recording /\ UNCHANGED <<cam, mic, tmp>>

(* avbperf's session timer ends it, with a recording, with one that no     *)
(* packet gave a time for a name, or without.                              *)
MicEnds ==
    /\ mic = "running" /\ mic' = "done"
    /\ \/ \E start \in Starts : tmp' = tmp \cup {Audio(start, start)}
       \/ \E stamp, start \in Starts : tmp' = tmp \cup {Audio(stamp, start)}
       \/ tmp' = tmp
    /\ Recording /\ UNCHANGED cam

-----------------------------------------------------------------------------
(* main().                                                                 *)

Main == UNCHANGED <<session, keep, cam, mic, left>>

(* main() is over, and with it what it knew. *)
Over(kept) ==
    /\ pc' = "off" /\ cam' = "off" /\ mic' = "off"
    /\ keep' = FALSE /\ videos' = {} /\ audio' = None /\ latest' = 0
    /\ left' = kept /\ joined' = {}
    /\ UNCHANGED <<session, out>>

(* Mutant: main() does not wait for the cameras. *)
join_without_waiting ==
    /\ pc = "join camera" /\ pc' = "join mic"
    /\ Main /\ UNCHANGED <<tmp, videos, audio, latest, out, joined>>

JoinCamera ==
    /\ pc = "join camera" /\ cam = "done" /\ pc' = "join mic"
    /\ Main /\ UNCHANGED <<tmp, videos, audio, latest, out, joined>>

JoinMic ==
    /\ pc = "join mic" /\ mic = "done" /\ pc' = "list"
    /\ Main /\ UNCHANGED <<tmp, videos, audio, latest, out, joined>>

(* All videos, and the audio file that happens to be listed first. *)
ListFiles ==
    /\ pc = "list"
    /\ audio' \in Of("audio", tmp)
    /\ videos' = Of("video", tmp)
    /\ latest' = Max({f.stamp : f \in videos' \cup {audio'}})
    /\ pc' = "mux"
    /\ Main /\ UNCHANGED <<tmp, out, joined>>

(* No audio file, and the 0 in its place has no time; or an unassigned     *)
(* time in its name is none the parser reads.  Nothing is removed.         *)
ListRaises ==
    /\ pc = "list"
    /\ Of("audio", tmp) = {} \/ \E f \in Of("audio", tmp) : f.stamp # f.start
    /\ Over(TRUE) /\ UNCHANGED tmp

(* Mutant: the audio is not cut. *)
cut_video_only(f) == IF f.kind = "audio" THEN 0 ELSE Max({0, latest - f.stamp})

(* What ffmpeg skips of a file. *)
Offset(f) == Max({0, latest - f.stamp})

Joined(v) ==
    [kind |-> "joined", by |-> session, video |-> v, audio |-> audio,
     video_from |-> v.start + Offset(v), audio_from |-> audio.start + Offset(audio)]

(* ffmpeg joins a video with the audio, or fails; the name of its output   *)
(* has the camera in it and no time.                                       *)
Mux(v) ==
    /\ pc = "mux" /\ v \in videos
    /\ out[v.cam] = None
    /\ out' \in {out, [out EXCEPT ![v.cam] = Joined(v)]}
    /\ videos' = videos \ {v} /\ joined' = joined \cup {v}
    /\ Main /\ UNCHANGED <<pc, tmp, audio, latest>>

(* The output exists: ffmpeg asks, into a log file, whether to replace it, *)
(* and waits for an answer nobody sees a question for.                     *)
Prompt(v) ==
    /\ pc = "mux" /\ v \in videos
    /\ out[v.cam] # None
    /\ pc' = "prompt"
    /\ Main /\ UNCHANGED <<tmp, videos, audio, latest, out, joined>>

Answer(v) ==
    /\ pc = "prompt" /\ v \in videos /\ out[v.cam] # None
    /\ out' \in {out, [out EXCEPT ![v.cam] = Joined(v)]}
    /\ videos' = videos \ {v} /\ joined' = joined \cup {v}
    /\ pc' = "mux"
    /\ Main /\ UNCHANGED <<tmp, audio, latest>>

(* Mutant: the temporary files are always kept. *)
finish_without_cleanup ==
    /\ pc = "mux" /\ videos = {}
    /\ Over(keep) /\ UNCHANGED tmp

Finish ==
    /\ pc = "mux" /\ videos = {}
    /\ tmp' = IF keep THEN tmp ELSE {}
    /\ Over(keep)

(* Ctrl-C reaches all the processes; their files stay. *)
Interrupt == pc # "off" /\ Over(TRUE) /\ UNCHANGED tmp

Sync == \/ JoinCamera \/ JoinMic \/ ListFiles \/ ListRaises \/ Finish
        \/ \E v \in videos : Mux(v) \/ Prompt(v)

Next == \/ Start \/ Sync \/ CameraEnds \/ CameraHangs \/ MicEnds \/ Interrupt
        \/ \E v \in videos : Answer(v)

Spec == Init /\ [][Next]_vars

(* main() and the two programs run; nobody has to answer a prompt. *)
FairSpec == Spec /\ WF_vars(Sync) /\ WF_vars(CameraEnds \/ CameraHangs) /\ WF_vars(MicEnds)

-----------------------------------------------------------------------------
(* Properties.                                                             *)

Outputs == {out[c] : c \in Cams} \ {None}

(* sync.py 135-151: in every joined file sound and picture begin with the  *)
(* same instant, however many cameras there were and whichever began last. *)
(* Where the video does not begin with the frame it is named after, the    *)
(* picture is behind by exactly that gap.  The audio file must have been   *)
(* named after its first packet.                                           *)
AlignedStreams == \A o \in Outputs :
    o.audio.stamp = o.audio.start =>
        o.video_from - o.audio_from = o.video.start - o.video.first

(* A session joins its own recordings only, unless an earlier one failed,  *)
(* was interrupted or was asked to keep its files.                         *)
OwnFilesJoined == [][\A c \in Cams : out'[c] # out[c] /\ ~left =>
    out'[c].video.session = session /\ out'[c].audio.session = session]_vars

(* The temporary files are removed only when every video among them was    *)
(* given to ffmpeg: none is deleted that nobody has looked at.             *)
NoVideoDiscarded ==
    [][tmp' = {} /\ tmp # {} => Of("video", tmp) \subseteq joined]_vars

(* A session ends, unless a camera program hangs or ffmpeg waits for an    *)
(* answer.                                                                 *)
SyncEnds == (pc = "join camera") ~> (pc \in {"off", "prompt"} \/ cam = "hung")

=============================================================================
