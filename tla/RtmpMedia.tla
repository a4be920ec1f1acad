------------------------------ MODULE RtmpMedia ------------------------------
(***************************************************************************)
(* Media over an RTMP connection (internal/protocols/rtmp: from_stream.go  *)
(* and writer.go on the sending side, reader.go and to_stream.go on the    *)
(* receiving one).  The reader first listens for a while to find out which *)
(* tracks there are, and then hands every message to the track it names.   *)
(* The sender is either this program, whose writer announces its tracks    *)
(* once, when it starts, or another one, which sends what it likes         *)
(* (extended messages and several tracks included).                        *)
(***************************************************************************)
EXTENDS Integers

CONSTANTS MdTracks,       \* track identifiers, 0 among them
          AnalyzePeriod,  \* analyzePeriod, in ticks
          MaxMediaTime    \* bound: the clock of the sender

\* Who sends: another program, or FromStream with these tracks.  The configuration
\* of MPEG-4 audio may be unknown: LATM carries it in band.
Senders == {"other", "h264", "h264+aac", "h264+latm", "h264+mp3"}

ASSUME MediaBounds ==
    0 \in MdTracks /\ AnalyzePeriod \in Nat \ {0} /\ MaxMediaTime \in Nat

VARIABLES
    mdSender,    \* the sender: "other", or the tracks FromStream writes
    mdParams,    \* the sender's stream has the parameters of its H264 track
    mdSending,   \* FromStream: "closed", "open"; "idr" once a key frame was seen
    mdClock,     \* the sender's clock
    mdPhase,     \* the reader: "analyze", "serve", "failed" or "panicked"
    mdError,     \* why it failed
    mdVideo, mdAudio,   \* Reader.videoTracks and audioTracks
    mdStarts,    \* audioSequenceStarts
    mdTimes,     \* startTime and curTime, -1 before the first message
    mdUnit,      \* the last unit written to the stream: track's codec and its own
    mdBlind      \* media that nobody announced to the reader (history)

mdVars == <<mdSender, mdParams, mdSending, mdClock, mdPhase, mdError, mdVideo,
            mdAudio, mdStarts, mdTimes, mdUnit, mdBlind>>

senderVars == <<mdSender, mdParams, mdSending, mdClock, mdBlind>>

Absent == "absent"     \* no key in the map
NilTrack == "nil"      \* a key whose value is nil
NotSet == {Absent, NilTrack}
NoUnit == [as |-> Absent, codec |-> Absent]

VideoCodecs == {"h264", "h265"}    \* AV1 and VP9 are like H265
\* Messages.  A track other than 0 is named by a Multitrack message.
Plain(kind, codec) == [kind |-> kind, trk |-> 0, codec |-> codec, multi |-> FALSE]

Extended ==
    {m \in [kind: {"vStart", "vFrames"}, trk: MdTracks, codec: VideoCodecs,
            multi: BOOLEAN]
        \cup [kind: {"aStart", "aFrames"}, trk: MdTracks, codec: {"opus", "aac"},
              multi: BOOLEAN] : m.trk # 0 => m.multi}
OtherMessages ==
    Extended \cup
    {Plain("video", "h264"), Plain("videoConfig", "h264"), Plain("audio", "aac"),
     Plain("audioConfig", "aac"), Plain("audio", "mp3"), Plain("audio", "pcm"),
     Plain("data", Absent)}

MediaInit ==
    /\ mdSender \in Senders
    /\ mdParams \in (IF mdSender = "other" THEN {TRUE} ELSE BOOLEAN)
    /\ mdSending = "closed" /\ mdClock \in 0..MaxMediaTime   \* an old stream
    /\ mdPhase = "analyze" /\ mdError = "none"
    /\ mdVideo = [t \in MdTracks |-> Absent] /\ mdAudio = [t \in MdTracks |-> Absent]
    /\ mdStarts = [t \in MdTracks |-> Absent] /\ mdTimes = [first |-> -1, cur |-> -1]
    /\ mdUnit = NoUnit /\ mdBlind = FALSE

-----------------------------------------------------------------------------
\* NewReader: readTracks.

\* The messages that carry a time, and the clock after one of them.
Timed(m) == m.kind \in {"video", "videoConfig", "vFrames", "audio", "audioConfig",
                        "aFrames"}
\* The configurations of this program's writer have no time, that is zero.
DTS(m) ==
    IF mdSender # "other" /\ m.kind \in {"videoConfig", "audioConfig"} THEN 0 ELSE mdClock
TimesAfter(m) ==
    IF ~Timed(m) THEN mdTimes
    ELSE [first |-> IF mdTimes.first = -1 THEN DTS(m) ELSE mdTimes.first,
          cur |-> DTS(m)]

\* A Multitrack message makes the key of its track.
Keyed(tracks, m) ==
    IF m.multi /\ tracks[m.trk] = Absent THEN [tracks EXCEPT ![m.trk] = NilTrack]
    ELSE tracks

\* The cases of Video: the configuration message and VideoExSequenceStart,
\* which refuses a track that is set up already.
VideoTracksAfter(m) ==
    IF \/ m.kind = "vStart"
       \/ m.kind = "videoConfig" /\ mdVideo[0] \in NotSet
    THEN [mdVideo EXCEPT ![m.trk] = m.codec]
    ELSE IF m.kind \in {"vStart", "vFrames"} THEN Keyed(mdVideo, m) ELSE mdVideo

\* The cases of Audio: a configuration message or data of a codec that needs
\* none, and coded frames of a track whose sequence start came before.
AudioTracksAfter(m) ==
    IF \/ m.kind = "audioConfig" /\ mdAudio[0] \in NotSet
       \/ m.kind = "audio" /\ mdAudio[0] \in NotSet /\ m.codec # "aac"
       \/ m.kind = "aFrames" /\ mdAudio[m.trk] \in NotSet
    THEN [mdAudio EXCEPT ![m.trk] = m.codec]
    ELSE IF m.kind \in {"aStart", "aFrames"} THEN Keyed(mdAudio, m) ELSE mdAudio

\* The errors that end the analysis.
AnalysisError(m) ==
    CASE m.kind = "vStart" /\ mdVideo[m.trk] \notin NotSet -> "already set up"
      [] m.kind = "aStart" /\ mdStarts[m.trk] # Absent -> "already set up"
      [] m.kind = "aFrames" /\ mdAudio[m.trk] \in NotSet /\ mdStarts[m.trk] # m.codec ->
           "sequence start"
      [] OTHER -> "none"

AnalysisOver(m) == TimesAfter(m).cur - TimesAfter(m).first >= AnalyzePeriod

\* Once the period is over: no key at all is an error; ToStream then panics over
\* a key without a track.
AfterAnalysis(v, a) ==
    IF \A t \in MdTracks : v[t] = Absent /\ a[t] = Absent
    THEN mdPhase' = "failed" /\ mdError' = "no tracks found"
    ELSE /\ UNCHANGED mdError
         /\ mdPhase' = IF \E t \in MdTracks : NilTrack \in {v[t], a[t]}
                       THEN "panicked" ELSE "serve"

readTracks(m) ==
    /\ mdPhase = "analyze"
    /\ IF AnalysisError(m) # "none"
       THEN /\ mdPhase' = "failed" /\ mdError' = AnalysisError(m)
            /\ UNCHANGED <<mdVideo, mdAudio, mdStarts, mdTimes>>
       ELSE /\ mdVideo' = VideoTracksAfter(m) /\ mdAudio' = AudioTracksAfter(m)
            /\ mdStarts' = IF m.kind = "aStart" THEN [mdStarts EXCEPT ![m.trk] = m.codec]
                           ELSE mdStarts
            /\ mdTimes' = TimesAfter(m)
            /\ IF AnalysisOver(m) THEN AfterAnalysis(mdVideo', mdAudio')
               ELSE UNCHANGED <<mdPhase, mdError>>
    /\ UNCHANGED <<mdUnit>>

-----------------------------------------------------------------------------
\* Reader.Read, and the callbacks that ToStream has set.

\* OnDataH264 takes Video and extended messages, OnDataH265 (AV1, VP9) the
\* extended ones; nobody looks at the codec that a message names.
VideoUnit(m) ==
    IF \/ m.kind = "vFrames"
       \/ m.kind \in {"video", "videoConfig"} /\ mdVideo[0] = "h264"
    THEN [as |-> mdVideo[m.trk], codec |-> m.codec] ELSE mdUnit

\* OnDataMPEG4Audio takes both kinds but not configurations, OnDataOpus (AC3) the
\* extended ones, OnDataG711 (LPCM) the others, OnDataMPEG1Audio both.
AudioUnit(m) ==
    IF \/ m.kind = "aFrames" /\ mdAudio[m.trk] \in {"aac", "opus", "mp3"}
       \/ m.kind = "audio" /\ m.codec = "aac" /\ mdAudio[0] = "aac"
       \/ m.kind \in {"audio", "audioConfig"} /\ mdAudio[0] \in {"mp3", "pcm"}
    THEN [as |-> mdAudio[m.trk], codec |-> m.codec] ELSE mdUnit

ReadVideo(m) ==
    /\ mdPhase = "serve" /\ m.kind \in {"video", "videoConfig", "vFrames"}
    /\ IF mdVideo[m.trk] \in NotSet
       THEN mdPhase' = "failed" /\ mdError' = "not set up" /\ UNCHANGED mdUnit
       ELSE mdUnit' = VideoUnit(m) /\ UNCHANGED <<mdPhase, mdError>>
    /\ UNCHANGED <<mdVideo, mdAudio, mdStarts, mdTimes>>

ReadAudio(m) ==
    /\ mdPhase = "serve" /\ m.kind \in {"audio", "audioConfig", "aFrames"}
    /\ IF mdAudio[m.trk] \in NotSet
       THEN mdPhase' = "failed" /\ mdError' = "not set up" /\ UNCHANGED mdUnit
       ELSE mdUnit' = AudioUnit(m) /\ UNCHANGED <<mdPhase, mdError>>
    /\ UNCHANGED <<mdVideo, mdAudio, mdStarts, mdTimes>>

\* Everything else, sequence starts included, is passed over.
ReadOther(m) ==
    /\ mdPhase = "serve" /\ m.kind \in {"vStart", "aStart", "data"}
    /\ UNCHANGED <<mdPhase, mdError, mdVideo, mdAudio, mdStarts, mdTimes, mdUnit>>

Receive(m) == readTracks(m) \/ ReadVideo(m) \/ ReadAudio(m) \/ ReadOther(m)

-----------------------------------------------------------------------------
\* Senders.

OtherSends ==
    /\ mdSender = "other"
    /\ \E m \in OtherMessages : Receive(m)
    /\ UNCHANGED senderVars

\* A configuration or a payload that cannot be parsed.
OtherSendsInvalid ==
    /\ mdSender = "other" /\ mdPhase \in {"analyze", "serve"}
    /\ mdPhase' = "failed" /\ mdError' = "invalid"
    /\ UNCHANGED <<mdVideo, mdAudio, mdStarts, mdTimes, mdUnit>>
    /\ UNCHANGED senderVars

HasH264 == mdSender # "other"

\* NewWriter: writeTracks writes the metadata, the H264 configuration if the
\* parameters are known, and the configuration of MPEG-4 audio if GetConfig knows
\* it (one step each).
WriteMetadata ==
    /\ mdSender # "other" /\ mdSending = "closed"
    /\ Receive(Plain("data", Absent))
    /\ mdSending' = "video"
    /\ UNCHANGED <<mdSender, mdParams, mdClock, mdBlind>>

\* Mutant: the H264 configuration is left to the first key frame.
WriteVideoConfigLater ==
    /\ mdSending = "video" /\ mdSending' = "audio"
    /\ UNCHANGED <<mdPhase, mdError, mdVideo, mdAudio, mdStarts, mdTimes, mdUnit>>
    /\ mdBlind' = (mdBlind \/ (HasH264 /\ ~mdParams))
    /\ UNCHANGED <<mdSender, mdParams, mdClock>>

WriteVideoConfig ==
    /\ mdSending = "video" /\ mdSending' = "audio"
    /\ IF HasH264 /\ mdParams THEN Receive(Plain("videoConfig", "h264"))
       ELSE UNCHANGED <<mdPhase, mdError, mdVideo, mdAudio, mdStarts, mdTimes, mdUnit>>
    /\ mdBlind' = (mdBlind \/ (HasH264 /\ ~mdParams))
    /\ UNCHANGED <<mdSender, mdParams, mdClock>>

WriteAudioConfig ==
    /\ mdSending = "audio" /\ mdSending' = "open"
    /\ IF mdSender = "h264+aac" THEN Receive(Plain("audioConfig", "aac"))
       ELSE UNCHANGED <<mdPhase, mdError, mdVideo, mdAudio, mdStarts, mdTimes, mdUnit>>
    /\ UNCHANGED <<mdSender, mdParams, mdClock, mdBlind>>

\* setupVideo's callback: nothing before the first key frame, which brings the
\* parameters in its access unit but not as a configuration message.
SendH264 ==
    /\ HasH264 /\ mdSending \in {"open", "idr"}
    /\ \E idr \in BOOLEAN :
         /\ idr \/ mdSending = "idr"
         /\ mdParams' = (mdParams \/ idr)
    /\ Receive(Plain("video", "h264"))
    /\ mdSending' = "idr"
    /\ UNCHANGED <<mdSender, mdClock, mdBlind>>

\* setupAudio's callbacks.  MPEG-1 audio is not announced: its first frame tells.
\* Nor is MPEG-4 audio without a configuration, and none of its units tells.
SendAudio ==
    /\ mdSender \in {"h264+aac", "h264+latm", "h264+mp3"} /\ mdSending \in {"open", "idr"}
    /\ Receive(Plain("audio", IF mdSender = "h264+mp3" THEN "mp3" ELSE "aac"))
    /\ mdBlind' = (mdBlind \/ (mdPhase = "serve" /\ mdAudio[0] = Absent
                               /\ mdSender # "h264+aac"))
    /\ UNCHANGED <<mdSender, mdParams, mdSending, mdClock>>

MediaTick ==
    /\ mdClock < MaxMediaTime /\ mdClock' = mdClock + 1
    /\ UNCHANGED <<mdSender, mdParams, mdSending, mdPhase, mdError, mdVideo, mdAudio,
                   mdStarts, mdTimes, mdUnit, mdBlind>>

MediaNext ==
    \/ OtherSends \/ OtherSendsInvalid \/ WriteMetadata \/ WriteVideoConfig \/ WriteAudioConfig
    \/ SendH264 \/ SendAudio \/ MediaTick

MediaSpec == MediaInit /\ [][MediaNext]_mdVars

-----------------------------------------------------------------------------
MediaTypeOK ==
    /\ mdSender \in Senders
    /\ mdPhase \in {"analyze", "serve", "failed", "panicked"}
    /\ mdSending \in {"closed", "video", "audio", "open", "idr"}
    /\ mdVideo \in [MdTracks -> VideoCodecs \cup NotSet]
    /\ mdAudio \in [MdTracks -> {"opus", "aac", "mp3", "pcm"} \cup NotSet]
    /\ mdStarts \in [MdTracks -> {"opus", "aac", Absent}]
    /\ mdTimes \in [first : -1..MaxMediaTime, cur : -1..MaxMediaTime]
    /\ mdTimes.cur >= mdTimes.first /\ mdClock \in 0..MaxMediaTime
    /\ mdParams \in BOOLEAN /\ mdBlind \in BOOLEAN

\* The reader of this program takes what its writer sends: whatever the moment
\* at which the tracks start, it does not fail and writes every unit to the
\* track of its codec, but for H264 whose parameters were not known when the
\* writer started (no configuration message follows), MPEG-4 audio without a
\* configuration (its units are sent, to a track the reader never hears of) and
\* MPEG-1 audio that starts after the analysis, which the first unit ends if the
\* stream is older than the period: the configurations bear time zero.
OwnWriterUnderstood ==
    mdSender # "other" =>
      /\ mdPhase # "panicked" /\ mdUnit.as = mdUnit.codec
      /\ mdPhase = "failed" => mdBlind
=============================================================================
