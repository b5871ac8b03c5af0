------------------------ MODULE SyncSession_proofs --------------------------
(***************************************************************************)
(* Theorems about SyncSession, for any cameras, recordings and number of   *)
(* sessions: whose files are joined, what is removed, and how far apart    *)
(* sound and picture are cut where local time is UTC.                      *)
(***************************************************************************)
EXTENDS SyncSession, Numbers

(* When each process may run, and until when it may write; each camera has *)
(* an output or none yet.                                                  *)
ProcessInv ==
    /\ DOMAIN out = Cams
    /\ pc \in {"off", "join camera", "join mic", "list", "mux", "prompt"}
    /\ pc = "off" => cam = "off" /\ mic = "off"
    /\ pc \in {"join mic", "list", "mux", "prompt"} => cam = "done"
    /\ pc \in {"list", "mux", "prompt"} => mic = "done"

(* Unless files were left, those in ./tmp are of the running session. *)
OwnInv ==
    ~left =>
        /\ \A f \in tmp : f.session = session
        /\ pc = "off" => tmp = {}
        /\ pc \in {"mux", "prompt"} =>
               audio.session = session /\ \A v \in videos : v.session = session

(* A listed video was given to ffmpeg or will be. *)
ListedInv ==
    pc \in {"mux", "prompt"} => Of("video", tmp) \subseteq videos \cup joined

FilesInv == ProcessInv /\ OwnInv /\ ListedInv

USE DEF None, Recording, Main

LEMMA FilesInit == Init => FilesInv
BY DEF Init, FilesInv, ProcessInv, OwnInv, ListedInv

LEMMA ProcessStep == ProcessInv /\ [Next]_vars => ProcessInv'
BY DEF ProcessInv, Next, Start, Sync, JoinCamera, JoinMic, ListFiles, ListRaises, Finish,
       Mux, Prompt, Answer, CameraEnds, CameraHangs, MicEnds, Interrupt, Over, vars

(* A program writes only while main() waits, and only its session's files. *)
LEMMA RecordingStep ==
    ASSUME ProcessInv, CameraEnds \/ MicEnds
    PROVE  /\ pc \in {"join camera", "join mic"}
           /\ tmp \subseteq tmp'
           /\ \A f \in tmp' \ tmp : f.session = session
           /\ UNCHANGED <<session, keep, pc, videos, audio, latest, out, left, joined>>
<1>1. CASE CameraEnds
  <2>1. PICK S \in SUBSET Cams : \E first, start \in [S -> Starts] :
            tmp' = tmp \cup {Video(c, first[c], start[c]) : c \in S}
    BY <1>1 DEF CameraEnds
  <2>2. PICK first \in [S -> Starts], start \in [S -> Starts] :
            tmp' = tmp \cup {Video(c, first[c], start[c]) : c \in S}
    BY <2>1
  <2>3. ASSUME NEW f \in tmp' \ tmp PROVE f.session = session
    <3>1. PICK c \in S : f = Video(c, first[c], start[c])
      BY <2>2, <2>3
    <3>2. QED
      BY <3>1 DEF Video
  <2>4. cam = "running"
    BY <1>1 DEF CameraEnds
  <2>5. pc \in {"join camera", "join mic"}
    BY <2>4 DEF ProcessInv
  <2>6. tmp \subseteq tmp'
    BY <2>2
  <2>7. QED
    BY <1>1, <2>3, <2>5, <2>6 DEF CameraEnds
<1>2. CASE MicEnds
  <2>1. tmp' = tmp \/ \E stamp, start \in Starts : tmp' = tmp \cup {Audio(stamp, start)}
    BY <1>2 DEF MicEnds
  <2>2. tmp \subseteq tmp' /\ \A f \in tmp' \ tmp : f.session = session
    BY <2>1 DEF Audio
  <2>3. mic = "running"
    BY <1>2 DEF MicEnds
  <2>4. pc \in {"join camera", "join mic"}
    BY <2>3 DEF ProcessInv
  <2>5. QED
    BY <1>2, <2>2, <2>4 DEF MicEnds
<1>3. QED
  BY <1>1, <1>2

LEMMA FilesStep == FilesInv /\ [Next]_vars => FilesInv'
<1> SUFFICES ASSUME ProcessInv, OwnInv, ListedInv, [Next]_vars
             PROVE  OwnInv' /\ ListedInv'
  BY ProcessStep DEF FilesInv
<1>1. CASE Start
  BY <1>1 DEF Start, OwnInv, ListedInv
<1>2. CASE CameraEnds \/ MicEnds
  BY <1>2, RecordingStep DEF OwnInv, ListedInv
<1>3. CASE CameraHangs \/ UNCHANGED vars
  BY <1>3 DEF CameraHangs, vars, OwnInv, ListedInv
<1>4. CASE JoinCamera \/ JoinMic
  BY <1>4 DEF JoinCamera, JoinMic, OwnInv, ListedInv
<1>5. CASE ListFiles
  <2>1. /\ UNCHANGED <<session, tmp, left>>
        /\ pc' = "mux" /\ videos' = Of("video", tmp) /\ audio' \in Of("audio", tmp)
    BY <1>5 DEF ListFiles
  <2>2. videos' \subseteq tmp /\ audio' \in tmp
    BY <2>1 DEF Of
  <2>3. QED
    BY <2>1, <2>2 DEF OwnInv, ListedInv
<1>6. CASE ListRaises \/ Interrupt
  BY <1>6 DEF ListRaises, Interrupt, Over, OwnInv, ListedInv
<1>7. CASE Finish
  BY <1>7 DEF Finish, Over, OwnInv, ListedInv
<1>8. ASSUME NEW v \in videos, Mux(v) \/ Answer(v) PROVE OwnInv' /\ ListedInv'
  <2>1. /\ UNCHANGED <<session, tmp, audio, left>>
        /\ pc \in {"mux", "prompt"} /\ pc' \in {"mux", "prompt"}
        /\ videos' = videos \ {v} /\ joined' = joined \cup {v}
    BY <1>8 DEF Mux, Answer
  <2>2. QED
    BY <2>1 DEF OwnInv, ListedInv
<1>9. ASSUME NEW v \in videos, Prompt(v) PROVE OwnInv' /\ ListedInv'
  BY <1>9 DEF Prompt, OwnInv, ListedInv
<1>10. QED
  BY <1>1, <1>2, <1>3, <1>4, <1>5, <1>6, <1>7, <1>8, <1>9 DEF Next, Sync

(* Whose files are in ./tmp, and which of them are still to be joined. *)
THEOREM FilesCorrect == Spec => []FilesInv
<1>1. QED
  BY FilesInit, FilesStep, PTL DEF Spec

(* A session joins its own recordings only, unless files were left. *)
THEOREM OwnFilesAreJoined == Spec => OwnFilesJoined
<1>1. FilesInv /\ [Next]_vars =>
          [\A c \in Cams : out'[c] # out[c] /\ ~left =>
              out'[c].video.session = session /\ out'[c].audio.session = session]_vars
  <2>1. SUFFICES ASSUME FilesInv, Next, NEW c \in Cams, out'[c] # out[c], ~left
                 PROVE  out'[c].video.session = session /\ out'[c].audio.session = session
    OBVIOUS
  <2>2. PICK v \in videos : pc \in {"mux", "prompt"} /\ out' = [out EXCEPT ![v.cam] = Joined(v)]
    BY <2>1 DEF Next, Start, Sync, JoinCamera, JoinMic, ListFiles, ListRaises, Finish, Mux,
                Prompt, Answer, CameraEnds, CameraHangs, MicEnds, Interrupt, Over
  <2>3. out'[c] = Joined(v)
    BY <2>1, <2>2 DEF FilesInv, ProcessInv
  <2>4. v.session = session /\ audio.session = session
    BY <2>1, <2>2 DEF FilesInv, OwnInv
  <2>5. QED
    BY <2>3, <2>4 DEF Joined
<1>2. QED
  BY <1>1, FilesCorrect, PTL DEF Spec, OwnFilesJoined

(* No video is removed from ./tmp that ffmpeg was not given. *)
THEOREM NoVideoIsDiscarded == Spec => NoVideoDiscarded
<1>1. FilesInv /\ [Next]_vars =>
          [tmp' = {} /\ tmp # {} => Of("video", tmp) \subseteq joined]_vars
  <2>1. SUFFICES ASSUME FilesInv, Next, tmp' = {}, tmp # {}
                 PROVE  Of("video", tmp) \subseteq joined
    OBVIOUS
  <2>2. Finish
    BY <2>1, RecordingStep
       DEF FilesInv, Next, Start, Sync, JoinCamera, JoinMic, ListFiles, ListRaises, Mux,
           Prompt, Answer, CameraHangs, Interrupt
  <2>3. QED
    BY <2>1, <2>2 DEF Finish, FilesInv, ListedInv
<1>2. QED
  BY <1>1, FilesCorrect, PTL DEF Spec, NoVideoDiscarded

-----------------------------------------------------------------------------
(* The latest start.                                                       *)

(* What is known of a file: where local time is UTC a video's name is the  *)
(* true time of the frame it is named after.                               *)
Timed(f) ==
    /\ f.start \in Int /\ f.stamp \in Int
    /\ f.kind = "video" => f.stamp = f.first

(* While files are joined none of them is named after a time later than    *)
(* latest_start_time.                                                      *)
TimesInv ==
    /\ session \in Nat
    /\ IsFiniteSet(tmp) /\ \A f \in tmp : Timed(f)
    /\ pc \in {"mux", "prompt"} =>
          /\ latest \in Int
          /\ \A v \in videos : Timed(v) /\ v.kind = "video" /\ v.stamp <= latest
          /\ Timed(audio) /\ audio.stamp <= latest

LEMMA CutToLatest ==
    ASSUME NEW stamp \in Int, NEW limit \in Int, stamp <= limit
    PROVE  Max({0, limit - stamp}) = limit - stamp
<1>1. PICK d \in Nat : d = limit - stamp
  OBVIOUS
<1>2. {0, d} \in SUBSET Int /\ IsFiniteSet({0, d}) /\ {0, d} # {}
  <2>1. IsFiniteSet({0}) /\ {0, d} = {0} \cup {d}
    BY FS_Singleton
  <2>2. IsFiniteSet({0, d})
    BY <2>1, FS_AddElement
  <2>3. QED
    BY <2>2
<1>3. Max({0, d}) \in {0, d} /\ \A x \in {0, d} : Max({0, d}) >= x
  BY <1>2, MaxIsGreatest
<1>4. QED
  BY <1>1, <1>3

(* Both programs leave finitely many files, each with its times. *)
LEMMA RecordingTimes ==
    ASSUME UtcOffset = 0, TimesInv, CameraEnds \/ MicEnds
    PROVE  IsFiniteSet(tmp') /\ \A f \in tmp' : Timed(f)
<1>1. \A start \in Starts : Clock(start) \in Int
  BY SyncAssumption DEF Clock, TimesInv
<1>2. CASE CameraEnds
  <2>1. PICK S \in SUBSET Cams : \E first, start \in [S -> Starts] :
            tmp' = tmp \cup {Video(c, first[c], start[c]) : c \in S}
    BY <1>2 DEF CameraEnds
  <2>2. PICK first \in [S -> Starts], start \in [S -> Starts] :
            tmp' = tmp \cup {Video(c, first[c], start[c]) : c \in S}
    BY <2>1
  <2> DEFINE f == [c \in S |-> Video(c, first[c], start[c])]
  <2>3. IsFiniteSet(S)
    BY SyncAssumption, FS_Subset
  <2>4. IsFiniteSet({f[c] : c \in S})
    BY <2>3, FiniteImage
  <2>5. {f[c] : c \in S} = {Video(c, first[c], start[c]) : c \in S}
    OBVIOUS
  <2>6. IsFiniteSet(tmp')
    BY <2>2, <2>4, <2>5, FS_Union DEF TimesInv
  <2>7. \A c \in S : Timed(Video(c, first[c], start[c]))
    BY <1>1 DEF Timed, Video
  <2>8. QED
    BY <2>2, <2>6, <2>7 DEF TimesInv
<1>3. CASE MicEnds
  <2>1. tmp' = tmp \/ \E stamp, start \in Starts : tmp' = tmp \cup {Audio(stamp, start)}
    BY <1>3 DEF MicEnds
  <2>2. \A stamp, start \in Starts : Timed(Audio(stamp, start))
    BY <1>1 DEF Timed, Audio
  <2>3. QED
    BY <2>1, <2>2, FS_AddElement DEF TimesInv
<1>4. QED
  BY <1>2, <1>3

(* latest_start_time is the latest of the times in the names. *)
LEMMA ListedTimes ==
    ASSUME TimesInv, ListFiles
    PROVE  TimesInv'
<1>1. /\ audio' \in tmp /\ videos' \subseteq tmp /\ \A v \in videos' : v.kind = "video"
      /\ latest' = Max({f.stamp : f \in videos' \cup {audio'}})
      /\ UNCHANGED <<session, tmp>>
  BY DEF ListFiles, Of
<1> DEFINE files == videos' \cup {audio'}
           stamp == [f \in files |-> f.stamp]
           stamps == {f.stamp : f \in files}
<1>2. files \subseteq tmp /\ IsFiniteSet(files) /\ \A f \in files : Timed(f)
  BY <1>1, FS_Subset DEF TimesInv
<1>3. IsFiniteSet({stamp[f] : f \in files}) /\ {stamp[f] : f \in files} = stamps
  BY <1>2, FiniteImage
<1>4. stamps \in SUBSET Int /\ stamps # {}
  BY <1>2 DEF Timed
<1>5. latest' \in Int /\ \A f \in files : f.stamp <= latest'
  BY <1>1, <1>2, <1>3, <1>4, MaxIsGreatest DEF Timed
<1>6. QED
  BY <1>1, <1>2, <1>5 DEF TimesInv

LEMMA TimesStep == UtcOffset = 0 /\ TimesInv /\ [Next]_vars => TimesInv'
<1> SUFFICES ASSUME UtcOffset = 0, TimesInv, [Next]_vars PROVE TimesInv'
  OBVIOUS
<1>1. CASE CameraEnds \/ MicEnds
  BY <1>1, RecordingTimes DEF CameraEnds, MicEnds, TimesInv
<1>2. CASE ListFiles
  BY <1>2, ListedTimes
<1>3. CASE Start \/ CameraHangs \/ JoinCamera \/ JoinMic \/ UNCHANGED vars
  <2>1. session' \in Nat /\ tmp' = tmp
    <3>1. CASE Start
      <4>1. session' = session + 1 /\ tmp' = tmp
        BY <3>1 DEF Start
      <4>2. session \in Nat
        BY DEF TimesInv
      <4>3. QED
        BY <4>1, <4>2
    <3>2. CASE CameraHangs \/ JoinCamera \/ JoinMic \/ UNCHANGED vars
      BY <3>2 DEF CameraHangs, JoinCamera, JoinMic, vars, TimesInv
    <3>3. QED
      BY <1>3, <3>1, <3>2
  <2>2. pc' \in {"mux", "prompt"} => UNCHANGED <<pc, videos, audio, latest>>
    BY <1>3 DEF Start, CameraHangs, JoinCamera, JoinMic, vars
  <2>3. QED
    BY <2>1, <2>2 DEF TimesInv
<1>4. CASE ListRaises \/ Interrupt
  BY <1>4 DEF ListRaises, Interrupt, Over, TimesInv
<1>5. CASE Finish
  <2>1. tmp' \subseteq tmp /\ pc' = "off" /\ session' = session
    BY <1>5 DEF Finish, Over
  <2>2. QED
    BY <2>1, FS_Subset DEF TimesInv
<1>6. ASSUME NEW v \in videos, Mux(v) \/ Prompt(v) \/ Answer(v) PROVE TimesInv'
  <2>1. /\ UNCHANGED <<session, tmp, audio, latest>> /\ videos' \subseteq videos
        /\ pc \in {"mux", "prompt"}
    BY <1>6 DEF Mux, Prompt, Answer
  <2>2. QED
    BY <2>1 DEF TimesInv
<1>7. QED
  BY <1>1, <1>2, <1>3, <1>4, <1>5, <1>6 DEF Next, Sync

(* Where local time is UTC the picture of a joined file is behind its      *)
(* sound by what the video's first frame is behind the one it is named     *)
(* after, and by nothing else: for any number of cameras, any starting     *)
(* times and any frames lost.                                              *)
THEOREM StreamsAreAligned == UtcOffset = 0 => (Spec => []AlignedStreams)
<1> SUFFICES ASSUME UtcOffset = 0 PROVE Spec => []AlignedStreams
  OBVIOUS
<1>1. Init => TimesInv /\ AlignedStreams
  BY FS_EmptySet DEF Init, TimesInv, AlignedStreams, Outputs
<1>2. TimesInv /\ [Next]_vars => TimesInv'
  BY TimesStep
<1>3. FilesInv /\ TimesInv /\ AlignedStreams /\ [Next]_vars => AlignedStreams'
  <2> SUFFICES ASSUME FilesInv, TimesInv, AlignedStreams, [Next]_vars, NEW o \in Outputs',
                      o.audio.stamp = o.audio.start
               PROVE  o.video_from - o.audio_from = o.video.start - o.video.first
    BY DEF AlignedStreams
  <2>1. CASE o \in Outputs
    BY <2>1 DEF AlignedStreams
  <2>2. CASE o \notin Outputs
    <3>1. out' # out
      BY <2>2 DEF Outputs
    <3>2. PICK v \in videos : pc \in {"mux", "prompt"} /\ out' = [out EXCEPT ![v.cam] = Joined(v)]
      BY <3>1 DEF Next, Start, Sync, JoinCamera, JoinMic, ListFiles, ListRaises, Finish, Mux,
                  Prompt, Answer, CameraEnds, CameraHangs, MicEnds, Interrupt, Over, vars
    <3>3. o = Joined(v)
      BY <2>2, <3>2 DEF Outputs, FilesInv, ProcessInv
    <3>4. /\ latest \in Int /\ v.start \in Int /\ v.stamp = v.first /\ v.stamp <= latest
          /\ audio.stamp \in Int /\ audio.stamp <= latest
      BY <3>2 DEF TimesInv, Timed
    <3>5. Offset(v) = latest - v.stamp /\ Offset(audio) = latest - audio.stamp
      <4>1. PICK L \in Int, V \in Int, A \in Int :
                L = latest /\ V = v.stamp /\ A = audio.stamp
        BY <3>2, <3>4 DEF TimesInv, Timed
      <4>2. Max({0, L - V}) = L - V /\ Max({0, L - A}) = L - A
        BY <3>4, <4>1, CutToLatest
      <4>3. QED
        BY <4>1, <4>2, Zenon DEF Offset
    <3>6. /\ o.video_from = v.start + Offset(v) /\ o.audio_from = audio.start + Offset(audio)
          /\ o.audio = audio /\ o.video = v
      <4>1. /\ Joined(v).video_from = v.start + Offset(v) /\ Joined(v).video = v
            /\ Joined(v).audio_from = audio.start + Offset(audio) /\ Joined(v).audio = audio
        BY Zenon DEF Joined
      <4>2. QED
        BY <3>3, <4>1
    <3>7. audio.start = audio.stamp
      BY <3>6, Zenon
    <3>8. /\ o.video_from = v.start + (latest - v.first)
          /\ o.audio_from = audio.stamp + (latest - audio.stamp)
      BY <3>4, <3>5, <3>6, <3>7, Zenon
    <3>9. v.first \in Int
      <4>1. v.stamp \in Int
        BY <3>2 DEF TimesInv, Timed
      <4>2. QED
        BY <3>4, <4>1, Zenon
    <3>10. o.video_from - o.audio_from = v.start - v.first
      <4>1. PICK L \in Int, S \in Int, F \in Int, A \in Int :
                /\ L = latest /\ S = v.start /\ F = v.first /\ A = audio.stamp
        BY <3>4, <3>9, Zenon
      <4>2. o.video_from = S + (L - F) /\ o.audio_from = A + (L - A)
        BY <3>8, <4>1, Zenon
      <4>3. o.video_from - o.audio_from = (S + (L - F)) - (A + (L - A))
        BY <4>2, Zenon
      <4>4. (S + (L - F)) - (A + (L - A)) = S - F
        BY Z3
      <4>5. QED
        BY <4>1, <4>3, <4>4, Zenon
    <3>11. QED
      BY <3>6, <3>10, Zenon
  <2>3. QED
    BY <2>1, <2>2
<1>4. QED
  BY <1>1, <1>2, <1>3, FilesCorrect, PTL DEF Spec
=============================================================================
