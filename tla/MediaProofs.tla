----------------------------- MODULE MediaProofs -----------------------------
(***************************************************************************)
(* Proofs about what happens to media data: the tracks of an RTMP          *)
(* connection, the RTP flow of a format processor, the record cleaner and  *)
(* the chunks of RTMP messages, for any tracks, retention, times, chunk    *)
(* sizes, channels and clock width.  The recorder has a module of its own; *)
(* the last part puts the theorems of the components of MCMedia together.  *)
(***************************************************************************)
EXTENDS RecorderProofs

-----------------------------------------------------------------------------
(* The tracks of an RTMP connection.                                         *)

\* What the writer of this program has told the reader: nothing but tracks 0,
\* of its own codecs, before media is sent, all of it at time zero and so
\* within the analysis.
OwnAudio == IF mdSender = "h264+mp3" THEN "mp3" ELSE "aac"
WriterAnnounced ==
    mdSender # "other" =>
      /\ \A t \in MdTracks : /\ mdVideo[t] \in {Absent, "h264"} /\ mdAudio[t] \in {Absent, OwnAudio}
                             /\ t # 0 => mdVideo[t] = Absent /\ mdAudio[t] = Absent
      /\ mdSending \in {"closed", "video", "audio"} =>
           mdPhase = "analyze" /\ mdTimes.first \in {-1, 0} /\ mdTimes.cur = mdTimes.first
      /\ mdSending \in {"audio", "open", "idr"} => mdBlind \/ mdVideo[0] = "h264"
      /\ mdSending \in {"open", "idr"} /\ mdSender = "h264+aac" => mdAudio[0] = "aac"

\* The clock of the sender is not behind the first time the reader saw.
FirstTimePassed == mdTimes.first <= mdClock

\* Another program is not run by FromStream.
OtherIdle == mdSender = "other" => mdSending = "closed"

\* The inductive strengthening of OwnWriterUnderstood.
MdInv ==
    MediaTypeOK /\ WriterAnnounced /\ FirstTimePassed /\ OtherIdle /\ OwnWriterUnderstood

\* What is in a message.
LEMMA MessageFields ==
  ASSUME NEW m \in OtherMessages
  PROVE  /\ m.trk \in MdTracks
         /\ m.kind \in {"vStart", "vFrames", "video", "videoConfig"} => m.codec \in VideoCodecs
         /\ m.kind \in {"aStart", "aFrames"} => m.codec \in {"opus", "aac"}
         /\ m.kind \in {"audio", "audioConfig"} => m.codec \in {"aac", "mp3", "pcm"}
  BY MediaBounds DEF OtherMessages, Extended, Plain, VideoCodecs

\* The times after a message of a sender whose clock goes on, or of a writer
\* that announces its tracks at time zero.
LEMMA TimesKept ==
  ASSUME MdInv, NEW m, mdSender # "other" /\ mdSending \in {"open", "idr"} => m.kind \in {"video", "audio"}
  PROVE  /\ TimesAfter(m) \in [first : -1..MaxMediaTime, cur : -1..MaxMediaTime]
         /\ TimesAfter(m).cur >= TimesAfter(m).first /\ TimesAfter(m).first <= mdClock
  <1>1. DTS(m) \in {0, mdClock} /\ mdClock \in 0..MaxMediaTime
    BY DEF DTS, MdInv, MediaTypeOK
  <1>2. DTS(m) \in -1..MaxMediaTime /\ DTS(m) >= 0 /\ DTS(m) <= mdClock
    BY <1>1, MediaBounds
  <1>3. /\ mdTimes \in [first : -1..MaxMediaTime, cur : -1..MaxMediaTime]
        /\ mdTimes.cur >= mdTimes.first /\ mdTimes.first <= mdClock
    BY DEF MdInv, MediaTypeOK, FirstTimePassed
  <1>4. DTS(m) # mdClock => DTS(m) = 0 /\ mdTimes.first \in {-1, 0}
    <2> SUFFICES ASSUME DTS(m) # mdClock PROVE DTS(m) = 0 /\ mdTimes.first \in {-1, 0}
      OBVIOUS
    <2>1. mdSender # "other" /\ m.kind \in {"videoConfig", "audioConfig"}
      BY DEF DTS
    <2>2. mdSending \in {"closed", "video", "audio"}
      BY <2>1 DEF MdInv, MediaTypeOK
    <2>3. QED BY <1>1, <2>1, <2>2 DEF MdInv, WriterAnnounced
  <1>5. mdTimes.first \in -1..MaxMediaTime
    BY <1>3
  <1>6. mdTimes.first = -1 \/ DTS(m) >= mdTimes.first
    BY <1>1, <1>3, <1>4, <1>5, MediaBounds
  <1> DEFINE first == IF mdTimes.first = -1 THEN DTS(m) ELSE mdTimes.first
  <1>7. first \in -1..MaxMediaTime /\ DTS(m) >= first /\ first <= mdClock
    BY <1>1, <1>2, <1>3, <1>5, <1>6, MediaBounds
  <1>8. CASE ~Timed(m)
    BY <1>3, <1>8 DEF TimesAfter
  <1>9. CASE Timed(m)
    <2>1. TimesAfter(m) = [first |-> first, cur |-> DTS(m)]
      BY <1>9 DEF TimesAfter
    <2> HIDE DEF first
    <2>2. QED BY <1>2, <1>7, <2>1
  <1>10. QED BY <1>8, <1>9

\* The reader keeps its types whatever it receives.
LEMMA ReaderTypes ==
  ASSUME MdInv, NEW m \in OtherMessages, Receive(m),
         mdSender # "other" /\ mdSending \in {"open", "idr"} => m.kind \in {"video", "audio"}
  PROVE  /\ mdPhase' \in {"analyze", "serve", "failed", "panicked"}
         /\ mdVideo' \in [MdTracks -> VideoCodecs \cup NotSet]
         /\ mdAudio' \in [MdTracks -> {"opus", "aac", "mp3", "pcm"} \cup NotSet]
         /\ mdStarts' \in [MdTracks -> {"opus", "aac", Absent}]
         /\ mdTimes' \in [first : -1..MaxMediaTime, cur : -1..MaxMediaTime]
         /\ mdTimes'.cur >= mdTimes'.first /\ mdTimes'.first <= mdClock
  <1>1. /\ mdPhase \in {"analyze", "serve", "failed", "panicked"}
        /\ mdVideo \in [MdTracks -> VideoCodecs \cup NotSet]
        /\ mdAudio \in [MdTracks -> {"opus", "aac", "mp3", "pcm"} \cup NotSet]
        /\ mdStarts \in [MdTracks -> {"opus", "aac", Absent}]
        /\ mdTimes \in [first : -1..MaxMediaTime, cur : -1..MaxMediaTime]
        /\ mdTimes.cur >= mdTimes.first /\ mdTimes.first <= mdClock
    BY DEF MdInv, MediaTypeOK, FirstTimePassed
  <1>2. CASE readTracks(m)
    <2>1. VideoTracksAfter(m) \in [MdTracks -> VideoCodecs \cup NotSet]
      BY <1>1, MessageFields DEF VideoTracksAfter, Keyed, NotSet
    <2>2. AudioTracksAfter(m) \in [MdTracks -> {"opus", "aac", "mp3", "pcm"} \cup NotSet]
      BY <1>1, MessageFields DEF AudioTracksAfter, Keyed, NotSet
    <2>3. CASE AnalysisError(m) # "none"
      BY <1>1, <1>2, <2>3 DEF readTracks
    <2>4. CASE AnalysisError(m) = "none"
      <3>1. /\ mdVideo' = VideoTracksAfter(m) /\ mdAudio' = AudioTracksAfter(m)
            /\ mdStarts' = IF m.kind = "aStart" THEN [mdStarts EXCEPT ![m.trk] = m.codec] ELSE mdStarts
            /\ mdTimes' = TimesAfter(m)
        BY <1>2, <2>4 DEF readTracks
      <3>2. mdPhase' \in {"analyze", "serve", "failed", "panicked"}
        BY <1>1, <1>2, <2>4 DEF readTracks, AfterAnalysis
      <3>3. mdStarts' \in [MdTracks -> {"opus", "aac", Absent}]
        BY <1>1, <3>1, MessageFields
      <3>4. QED BY <2>1, <2>2, <3>1, <3>2, <3>3, TimesKept
    <2>5. QED BY <2>3, <2>4
  <1>3. CASE ReadVideo(m) \/ ReadAudio(m) \/ ReadOther(m)
    BY <1>1, <1>3 DEF ReadVideo, ReadAudio, ReadOther
  <1>4. QED BY <1>2, <1>3 DEF Receive

\* Another program sends what it likes.
LEMMA OtherKeeps ==
  ASSUME MdInv, OtherSends \/ OtherSendsInvalid
  PROVE  MdInv'
  <1>1. mdSender = "other" /\ UNCHANGED senderVars
    BY DEF OtherSends, OtherSendsInvalid
  <1>2. CASE OtherSends
    <2>1. PICK m \in OtherMessages : Receive(m)
      BY <1>2 DEF OtherSends
    <2>2. QED
      BY <1>1, <2>1, ReaderTypes DEF MdInv, MediaTypeOK, WriterAnnounced, FirstTimePassed,
         OtherIdle, OwnWriterUnderstood, senderVars
  <1>3. CASE OtherSendsInvalid
    BY <1>1, <1>3 DEF OtherSendsInvalid, MdInv, MediaTypeOK, WriterAnnounced, FirstTimePassed,
       OtherIdle, OwnWriterUnderstood, senderVars
  <1>4. QED BY <1>2, <1>3

\* The messages of this program's writer.
OwnMessages(codec) ==
    {Plain("data", Absent), Plain("videoConfig", "h264"), Plain("audioConfig", "aac"),
     Plain("video", "h264"), Plain("audio", codec)}

LEMMA OwnMessageFields ==
  ASSUME NEW codec \in {"aac", "mp3"}, NEW m \in OwnMessages(codec)
  PROVE  /\ m \in OtherMessages /\ m.trk = 0 /\ m.multi = FALSE
         /\ m.kind \in {"data", "videoConfig", "audioConfig", "video", "audio"}
         /\ m.kind \in {"videoConfig", "video"} => m.codec = "h264"
         /\ m.kind = "audioConfig" => m.codec = "aac"
         /\ m.kind = "audio" => m.codec = codec
  BY DEF OwnMessages, OtherMessages, Plain

\* The reader on a message of this program's writer: tracks are only added,
\* by a configuration or by MPEG-1 audio during the analysis.
LEMMA OwnReceived ==
  ASSUME MdInv, mdSender # "other", NEW m \in OwnMessages(OwnAudio), Receive(m),
         m.kind \in {"audioConfig", "videoConfig", "data"} => mdSending \in {"closed", "video", "audio"},
         m.kind = "audioConfig" => mdSender = "h264+aac",
         m.kind \in {"video", "audio"} => mdSending \in {"open", "idr"}
  PROVE  /\ \A t \in MdTracks : /\ mdVideo'[t] \in {Absent, "h264"} /\ mdAudio'[t] \in {Absent, OwnAudio}
                                /\ t # 0 => mdVideo'[t] = Absent /\ mdAudio'[t] = Absent
         /\ mdVideo[0] = "h264" \/ m.kind = "videoConfig" => mdVideo'[0] = "h264"
         /\ mdAudio[0] = "aac" \/ m.kind = "audioConfig" => mdAudio'[0] = "aac"
         /\ mdPhase' # "panicked" /\ mdUnit'.as = mdUnit'.codec
         /\ mdPhase' = "failed" => \/ mdPhase = "failed" \/ mdBlind
                                   \/ mdPhase = "serve" /\ m.kind = "audio" /\ mdAudio[0] = Absent
         /\ m.kind \in {"audioConfig", "videoConfig", "data"} =>
              /\ mdPhase' = "analyze"
              /\ mdTimes'.first \in {-1, 0} /\ mdTimes'.cur = mdTimes'.first
  <1>1. /\ m \in OtherMessages /\ m.trk = 0 /\ m.multi = FALSE
        /\ m.kind \in {"data", "videoConfig", "audioConfig", "video", "audio"}
        /\ m.kind \in {"videoConfig", "video"} => m.codec = "h264"
        /\ m.kind = "audioConfig" => m.codec = "aac"
        /\ m.kind = "audio" => m.codec = OwnAudio
        /\ OwnAudio \in {"aac", "mp3"}
    BY OwnMessageFields DEF OwnAudio
  <1>2. /\ mdVideo \in [MdTracks -> VideoCodecs \cup NotSet]
        /\ mdAudio \in [MdTracks -> {"opus", "aac", "mp3", "pcm"} \cup NotSet]
        /\ 0 \in MdTracks
    BY MediaBounds DEF MdInv, MediaTypeOK
  <1>3. /\ \A t \in MdTracks : /\ mdVideo[t] \in {Absent, "h264"} /\ mdAudio[t] \in {Absent, OwnAudio}
                               /\ t # 0 => mdVideo[t] = Absent /\ mdAudio[t] = Absent
        /\ mdPhase # "panicked" /\ mdUnit.as = mdUnit.codec /\ (mdPhase = "failed" => mdBlind)
    BY DEF MdInv, WriterAnnounced, OwnWriterUnderstood
  <1>4. /\ m.kind \in {"audioConfig", "videoConfig", "data"} =>
             mdPhase = "analyze" /\ mdTimes.first \in {-1, 0} /\ mdTimes.cur = mdTimes.first
        /\ mdBlind \/ mdVideo[0] = "h264" \/ m.kind \in {"audioConfig", "videoConfig", "data"}
        /\ mdSender = "h264+aac" /\ m.kind = "audio" => mdAudio[0] = "aac"
    BY <1>1 DEF MdInv, WriterAnnounced
  <1>5. CASE readTracks(m)
    <2>1. AnalysisError(m) = "none"
      BY <1>1 DEF AnalysisError
    <2>2. /\ mdVideo' = VideoTracksAfter(m) /\ mdAudio' = AudioTracksAfter(m)
          /\ mdTimes' = TimesAfter(m) /\ UNCHANGED mdUnit
          /\ IF AnalysisOver(m) THEN AfterAnalysis(mdVideo', mdAudio') ELSE UNCHANGED mdPhase
          /\ mdPhase = "analyze"
      BY <1>5, <2>1 DEF readTracks
    <2>3. VideoTracksAfter(m) = IF m.kind = "videoConfig" /\ mdVideo[0] \in NotSet
                                THEN [mdVideo EXCEPT ![0] = "h264"] ELSE mdVideo
      BY <1>1 DEF VideoTracksAfter
    <2>4. AudioTracksAfter(m) = IF \/ m.kind = "audioConfig" /\ mdAudio[0] \in NotSet
                                   \/ m.kind = "audio" /\ mdAudio[0] \in NotSet /\ m.codec # "aac"
                                THEN [mdAudio EXCEPT ![0] = m.codec] ELSE mdAudio
      BY <1>1 DEF AudioTracksAfter
    <2>5. m.kind = "audioConfig" => OwnAudio = "aac"
      BY DEF OwnAudio
    <2>6. /\ \A t \in MdTracks : /\ mdVideo'[t] \in {Absent, "h264"}
                                 /\ t # 0 => mdVideo'[t] = Absent
          /\ mdVideo[0] = "h264" \/ m.kind = "videoConfig" => mdVideo'[0] = "h264"
      BY <1>2, <1>3, <2>2, <2>3 DEF NotSet
    <2>7. /\ \A t \in MdTracks : /\ mdAudio'[t] \in {Absent, OwnAudio}
                                 /\ t # 0 => mdAudio'[t] = Absent
          /\ mdAudio[0] = "aac" \/ m.kind = "audioConfig" => mdAudio'[0] = "aac"
      BY <1>1, <1>2, <1>3, <2>2, <2>4, <2>5 DEF NotSet, Absent, NilTrack
    <2>8. \A t \in MdTracks : NilTrack \notin {mdVideo'[t], mdAudio'[t]}
      BY <1>1, <2>6, <2>7 DEF NilTrack, Absent
    <2>9. m.kind \in {"audioConfig", "videoConfig", "data"} =>
            /\ TimesAfter(m).first \in {-1, 0} /\ TimesAfter(m).cur = TimesAfter(m).first
            /\ ~AnalysisOver(m)
      <3> SUFFICES ASSUME m.kind \in {"audioConfig", "videoConfig", "data"}
                   PROVE  /\ TimesAfter(m).first \in {-1, 0} /\ TimesAfter(m).cur = TimesAfter(m).first
                          /\ ~AnalysisOver(m)
        OBVIOUS
      <3>1. m.kind # "data" => DTS(m) = 0
        BY DEF DTS
      <3>2. TimesAfter(m).first \in {-1, 0} /\ TimesAfter(m).cur = TimesAfter(m).first
        BY <1>4, <3>1 DEF TimesAfter, Timed
      <3>3. QED BY <3>2, MediaBounds DEF AnalysisOver
    <2>10. mdPhase' = "failed" => mdBlind
      <3> SUFFICES ASSUME mdPhase' = "failed" PROVE mdBlind
        OBVIOUS
      <3>1. AnalysisOver(m) /\ \A t \in MdTracks : mdVideo'[t] = Absent
        BY <2>2, <2>8 DEF AfterAnalysis
      <3>2. mdVideo'[0] = Absent /\ m.kind \notin {"audioConfig", "videoConfig", "data"}
        BY <1>2, <2>9, <3>1
      <3>3. QED BY <1>4, <2>6, <3>2 DEF Absent
    <2>11. mdPhase' # "panicked" /\ (~AnalysisOver(m) => mdPhase' = "analyze")
      BY <2>2, <2>8 DEF AfterAnalysis
    <2>12. QED BY <1>3, <2>2, <2>6, <2>7, <2>9, <2>10, <2>11
  <1>6. CASE ReadVideo(m)
    <2>1. /\ m.kind = "video" /\ mdPhase = "serve"
          /\ UNCHANGED <<mdVideo, mdAudio, mdTimes>>
      BY <1>1, <1>4, <1>6 DEF ReadVideo
    <2>2. CASE mdVideo[0] \in NotSet
      BY <1>1, <1>3, <1>4, <1>6, <2>1, <2>2 DEF ReadVideo, NotSet, Absent, NilTrack
    <2>3. CASE mdVideo[0] \notin NotSet
      <3>1. mdVideo[0] = "h264"
        BY <1>2, <1>3, <2>3 DEF NotSet
      <3>2. mdUnit' = VideoUnit(m) /\ UNCHANGED mdPhase
        BY <1>1, <1>6, <2>3 DEF ReadVideo
      <3>3. VideoUnit(m) = [as |-> "h264", codec |-> "h264"]
        BY <1>1, <2>1, <3>1 DEF VideoUnit
      <3>4. QED BY <1>3, <2>1, <3>2, <3>3
    <2>4. QED BY <2>2, <2>3
  <1>7. CASE ReadAudio(m)
    <2>1. /\ m.kind = "audio" /\ mdPhase = "serve"
          /\ UNCHANGED <<mdVideo, mdAudio, mdTimes>>
      BY <1>1, <1>4, <1>7 DEF ReadAudio
    <2>2. CASE mdAudio[0] \in NotSet
      <3>1. mdAudio[0] = Absent
        BY <1>1, <1>2, <1>3, <2>2 DEF NotSet, NilTrack
      <3>2. mdPhase' = "failed" /\ UNCHANGED mdUnit
        BY <1>1, <1>7, <2>2 DEF ReadAudio
      <3>3. QED BY <1>3, <2>1, <3>1, <3>2
    <2>3. CASE mdAudio[0] \notin NotSet
      <3>1. mdAudio[0] = OwnAudio
        BY <1>2, <1>3, <2>3 DEF NotSet
      <3>2. mdUnit' = AudioUnit(m) /\ UNCHANGED mdPhase
        BY <1>1, <1>7, <2>3 DEF ReadAudio
      <3>3. AudioUnit(m) = [as |-> OwnAudio, codec |-> OwnAudio]
        BY <1>1, <2>1, <3>1 DEF AudioUnit
      <3>4. QED BY <1>3, <2>1, <3>2, <3>3
    <2>4. QED BY <2>2, <2>3
  <1>8. CASE ReadOther(m)
    BY <1>1, <1>2, <1>3, <1>4, <1>8 DEF ReadOther
  <1>9. QED BY <1>5, <1>6, <1>7, <1>8 DEF Receive

\* The invariant again after a message of this program's writer.
LEMMA OwnSendKeeps ==
  ASSUME MdInv, mdSender # "other", NEW m \in OwnMessages(OwnAudio), Receive(m),
         m.kind \in {"audioConfig", "videoConfig", "data"} => mdSending \in {"closed", "video", "audio"},
         m.kind = "audioConfig" => mdSender = "h264+aac",
         m.kind \in {"video", "audio"} => mdSending \in {"open", "idr"},
         UNCHANGED <<mdSender, mdClock>>, mdParams' \in BOOLEAN,
         mdSending' \in {"video", "audio", "open", "idr"},
         m.kind = "data" => mdSending' = "video",
         m.kind = "videoConfig" => mdSending' = "audio",
         m.kind = "audioConfig" => mdSending = "audio" /\ mdSending' = "open",
         m.kind \in {"video", "audio"} => mdSending' \in {"open", "idr"},
         mdBlind' = (mdBlind \/ (mdPhase = "serve" /\ m.kind = "audio" /\ mdAudio[0] = Absent))
  PROVE  MdInv'
  <1>1. OwnAudio \in {"aac", "mp3"} /\ OwnAudio' = OwnAudio
    BY DEF OwnAudio
  <1>2. m \in OtherMessages /\ m.kind \in {"data", "videoConfig", "audioConfig", "video", "audio"}
    BY <1>1, OwnMessageFields
  <1>3. /\ mdPhase' \in {"analyze", "serve", "failed", "panicked"}
        /\ mdVideo' \in [MdTracks -> VideoCodecs \cup NotSet]
        /\ mdAudio' \in [MdTracks -> {"opus", "aac", "mp3", "pcm"} \cup NotSet]
        /\ mdStarts' \in [MdTracks -> {"opus", "aac", Absent}]
        /\ mdTimes' \in [first : -1..MaxMediaTime, cur : -1..MaxMediaTime]
        /\ mdTimes'.cur >= mdTimes'.first /\ mdTimes'.first <= mdClock
    <2>1. mdSender # "other" /\ mdSending \in {"open", "idr"} => m.kind \in {"video", "audio"}
      BY <1>2
    <2>2. QED BY <1>2, <2>1, ReaderTypes
  <1>4. mdSender' \in Senders /\ mdClock' \in 0..MaxMediaTime
        /\ mdBlind' \in BOOLEAN
    BY DEF MdInv, MediaTypeOK
  <1>5. MediaTypeOK'
    BY <1>3, <1>4 DEF MediaTypeOK
  <1>6. /\ \A t \in MdTracks : /\ mdVideo'[t] \in {Absent, "h264"} /\ mdAudio'[t] \in {Absent, OwnAudio}
                               /\ t # 0 => mdVideo'[t] = Absent /\ mdAudio'[t] = Absent
        /\ mdVideo[0] = "h264" \/ m.kind = "videoConfig" => mdVideo'[0] = "h264"
        /\ mdAudio[0] = "aac" \/ m.kind = "audioConfig" => mdAudio'[0] = "aac"
        /\ mdPhase' # "panicked" /\ mdUnit'.as = mdUnit'.codec
        /\ mdPhase' = "failed" => \/ mdPhase = "failed" \/ mdBlind
                                  \/ mdPhase = "serve" /\ m.kind = "audio" /\ mdAudio[0] = Absent
        /\ m.kind \in {"audioConfig", "videoConfig", "data"} =>
              /\ mdPhase' = "analyze"
              /\ mdTimes'.first \in {-1, 0} /\ mdTimes'.cur = mdTimes'.first
    BY OwnReceived
  <1>7. WriterAnnounced'
    <2>1. mdSending' \in {"closed", "video", "audio"} =>
            mdPhase' = "analyze" /\ mdTimes'.first \in {-1, 0} /\ mdTimes'.cur = mdTimes'.first
      BY <1>2, <1>6
    <2>2. mdSending' \in {"audio", "open", "idr"} => mdBlind' \/ mdVideo'[0] = "h264"
      BY <1>2, <1>6 DEF MdInv, WriterAnnounced
    <2>3. mdSending' \in {"open", "idr"} /\ mdSender' = "h264+aac" => mdAudio'[0] = "aac"
      BY <1>2, <1>6 DEF MdInv, WriterAnnounced
    <2>4. QED BY <1>1, <1>6, <2>1, <2>2, <2>3 DEF WriterAnnounced
  <1>8. OwnWriterUnderstood'
    BY <1>6 DEF MdInv, OwnWriterUnderstood
  <1>9. FirstTimePassed' /\ OtherIdle'
    BY <1>3 DEF FirstTimePassed, OtherIdle
  <1>10. QED BY <1>5, <1>7, <1>8, <1>9 DEF MdInv

\* Nothing is sent: a configuration that the writer does not have.
LEMMA SilentKeeps ==
  ASSUME MdInv, mdSender # "other",
         UNCHANGED <<mdPhase, mdError, mdVideo, mdAudio, mdStarts, mdTimes, mdUnit, mdSender,
                     mdParams, mdClock>>,
         \/ /\ mdSending = "video" /\ mdSending' = "audio" /\ mdBlind' = TRUE
         \/ /\ mdSending = "audio" /\ mdSending' = "open" /\ mdBlind' = mdBlind
            /\ mdSender # "h264+aac"
  PROVE  MdInv'
  <1>1. OwnAudio' = OwnAudio
    BY DEF OwnAudio
  <1>2. MediaTypeOK' /\ FirstTimePassed' /\ OtherIdle' /\ OwnWriterUnderstood'
    BY DEF MdInv, MediaTypeOK, FirstTimePassed, OtherIdle, OwnWriterUnderstood
  <1>3. WriterAnnounced'
    BY <1>1 DEF MdInv, WriterAnnounced
  <1>4. QED BY <1>2, <1>3 DEF MdInv

\* This program's writer starts, and announces its tracks.
LEMMA WriterStartsKeeps ==
  ASSUME MdInv, WriteMetadata \/ WriteVideoConfig \/ WriteAudioConfig
  PROVE  MdInv'
  <1>1. mdSender # "other" /\ HasH264 /\ mdParams \in BOOLEAN /\ mdBlind \in BOOLEAN
    BY DEF WriteMetadata, WriteVideoConfig, WriteAudioConfig, MdInv, MediaTypeOK, OtherIdle, HasH264
  <1>2. CASE WriteMetadata
    <2>1. Plain("data", Absent) \in OwnMessages(OwnAudio) /\ Plain("data", Absent).kind = "data"
      BY DEF OwnMessages, Plain
    <2>2. /\ Receive(Plain("data", Absent)) /\ mdSending = "closed" /\ mdSending' = "video"
          /\ UNCHANGED <<mdSender, mdParams, mdClock, mdBlind>>
      BY <1>2 DEF WriteMetadata
    <2>3. QED BY <1>1, <2>1, <2>2, OwnSendKeeps
  <1>3. CASE WriteVideoConfig
    <2>1. /\ mdSending = "video" /\ mdSending' = "audio"
          /\ UNCHANGED <<mdSender, mdParams, mdClock>> /\ mdBlind' = (mdBlind \/ ~mdParams)
      BY <1>1, <1>3 DEF WriteVideoConfig
    <2>2. CASE mdParams
      <3>1. /\ Plain("videoConfig", "h264") \in OwnMessages(OwnAudio)
            /\ Plain("videoConfig", "h264").kind = "videoConfig"
        BY DEF OwnMessages, Plain
      <3>2. Receive(Plain("videoConfig", "h264"))
        BY <1>1, <1>3, <2>2 DEF WriteVideoConfig
      <3>3. QED BY <1>1, <2>1, <2>2, <3>1, <3>2, OwnSendKeeps
    <2>3. CASE ~mdParams
      <3>1. UNCHANGED <<mdPhase, mdError, mdVideo, mdAudio, mdStarts, mdTimes, mdUnit>>
        BY <1>3, <2>3 DEF WriteVideoConfig
      <3>2. QED BY <1>1, <2>1, <2>3, <3>1, SilentKeeps
    <2>4. QED BY <2>2, <2>3
  <1>4. CASE WriteAudioConfig
    <2>1. /\ mdSending = "audio" /\ mdSending' = "open"
          /\ UNCHANGED <<mdSender, mdParams, mdClock, mdBlind>>
      BY <1>4 DEF WriteAudioConfig
    <2>2. CASE mdSender = "h264+aac"
      <3>1. /\ Plain("audioConfig", "aac") \in OwnMessages(OwnAudio)
            /\ Plain("audioConfig", "aac").kind = "audioConfig"
        BY DEF OwnMessages, Plain
      <3>2. Receive(Plain("audioConfig", "aac"))
        BY <1>4, <2>2 DEF WriteAudioConfig
      <3>3. QED BY <1>1, <2>1, <2>2, <3>1, <3>2, OwnSendKeeps
    <2>3. CASE mdSender # "h264+aac"
      <3>1. UNCHANGED <<mdPhase, mdError, mdVideo, mdAudio, mdStarts, mdTimes, mdUnit>>
        BY <1>4, <2>3 DEF WriteAudioConfig
      <3>2. QED BY <1>1, <2>1, <2>3, <3>1, SilentKeeps
    <2>4. QED BY <2>2, <2>3
  <1>5. QED BY <1>2, <1>3, <1>4

\* It sends its media.
LEMMA WriterSendsKeeps ==
  ASSUME MdInv, SendH264 \/ SendAudio
  PROVE  MdInv'
  <1>1. mdParams \in BOOLEAN /\ mdBlind \in BOOLEAN
    BY DEF MdInv, MediaTypeOK
  <1>2. CASE SendH264
    <2>1. /\ Plain("video", "h264") \in OwnMessages(OwnAudio)
          /\ Plain("video", "h264").kind = "video"
      BY DEF OwnMessages, Plain
    <2>2. /\ Receive(Plain("video", "h264")) /\ mdSending \in {"open", "idr"} /\ mdSending' = "idr"
          /\ mdSender # "other" /\ UNCHANGED <<mdSender, mdClock, mdBlind>> /\ mdParams' \in BOOLEAN
      BY <1>1, <1>2 DEF SendH264, HasH264
    <2>3. QED BY <1>1, <2>1, <2>2, OwnSendKeeps
  <1>3. CASE SendAudio
    <2>1. /\ Plain("audio", OwnAudio) \in OwnMessages(OwnAudio)
          /\ Plain("audio", OwnAudio).kind = "audio"
      BY DEF OwnMessages, Plain
    <2>2. /\ Receive(Plain("audio", OwnAudio)) /\ mdSending \in {"open", "idr"} /\ mdSending' = mdSending
          /\ mdSender # "other" /\ UNCHANGED <<mdSender, mdParams, mdClock>>
          /\ mdBlind' = (mdBlind \/ (mdPhase = "serve" /\ mdAudio[0] = Absent /\ mdSender # "h264+aac"))
      BY <1>3 DEF SendAudio, OwnAudio
    <2>3. mdAudio[0] = Absent => mdSender # "h264+aac"
      BY <2>2 DEF MdInv, WriterAnnounced, Absent
    <2>4. mdBlind' = (mdBlind \/ (mdPhase = "serve" /\ mdAudio[0] = Absent))
      BY <2>2, <2>3
    <2>5. QED BY <1>1, <2>1, <2>2, <2>4, OwnSendKeeps
  <1>4. QED BY <1>2, <1>3

LEMMA MediaNextKeeps ==
  ASSUME MdInv, [MediaNext]_mdVars
  PROVE  MdInv'
  <1>1. CASE UNCHANGED mdVars
    <2>1. OwnAudio' = OwnAudio
      BY <1>1 DEF OwnAudio, mdVars
    <2>2. QED
      BY <1>1, <2>1 DEF MdInv, MediaTypeOK, WriterAnnounced, FirstTimePassed, OtherIdle,
         OwnWriterUnderstood, mdVars
  <1>2. CASE MediaTick
    <2>1. OwnAudio' = OwnAudio
      BY <1>2 DEF OwnAudio, MediaTick
    <2>2. MediaTypeOK' /\ FirstTimePassed'
      BY <1>2, MediaBounds DEF MdInv, MediaTypeOK, FirstTimePassed, MediaTick
    <2>3. WriterAnnounced' /\ OtherIdle' /\ OwnWriterUnderstood'
      BY <1>2, <2>1 DEF MdInv, WriterAnnounced, OtherIdle, OwnWriterUnderstood, MediaTick
    <2>4. QED BY <2>2, <2>3 DEF MdInv
  <1>3. QED BY <1>1, <1>2, OtherKeeps, WriterStartsKeeps, WriterSendsKeeps DEF MediaNext

LEMMA MediaStarts ==
  ASSUME MediaInit
  PROVE  MdInv
  <1>1. MediaTypeOK /\ FirstTimePassed
    <2>1. mdTimes = [first |-> -1, cur |-> -1] /\ mdClock \in 0..MaxMediaTime
      BY DEF MediaInit
    <2>2. /\ mdTimes \in [first : -1..MaxMediaTime, cur : -1..MaxMediaTime]
          /\ mdTimes.cur >= mdTimes.first /\ mdTimes.first <= mdClock
      BY <2>1, MediaBounds
    <2>3. /\ mdSender \in Senders
          /\ mdVideo \in [MdTracks -> VideoCodecs \cup NotSet]
          /\ mdAudio \in [MdTracks -> {"opus", "aac", "mp3", "pcm"} \cup NotSet]
          /\ mdStarts \in [MdTracks -> {"opus", "aac", Absent}]
          /\ mdPhase = "analyze" /\ mdSending = "closed" /\ mdBlind = FALSE
      BY DEF MediaInit, NotSet
    <2>4. mdParams \in BOOLEAN
      BY DEF MediaInit
    <2>5. QED BY <2>1, <2>2, <2>3, <2>4 DEF MediaTypeOK, FirstTimePassed
  <1>2. WriterAnnounced /\ OtherIdle
    BY DEF MediaInit, WriterAnnounced, OtherIdle
  <1>3. OwnWriterUnderstood
    BY DEF MediaInit, OwnWriterUnderstood, NoUnit
  <1>4. QED BY <1>1, <1>2, <1>3 DEF MdInv

\* The inductive invariant of an RTMP connection's media, which the theorems
\* below follow from.
THEOREM MediaInvariant == MediaSpec => []MdInv
  <1>1. MediaInit => MdInv BY MediaStarts
  <1>2. MdInv /\ [MediaNext]_mdVars => MdInv' BY MediaNextKeeps
  <1>3. QED BY <1>1, <1>2, PTL DEF MediaSpec

\* The state of the reader and of the writer has its types whatever another
\* program sends: in particular the clock of the analysis never runs backwards.
THEOREM MediaTypeCorrect == MediaSpec => []MediaTypeOK
  <1>1. MdInv => MediaTypeOK BY DEF MdInv
  <1>2. QED BY <1>1, MediaInvariant, PTL

\* What this program's writer sends, its reader understands (from_stream.go and
\* writer.go against reader.go and to_stream.go), for any tracks, any length
\* of the analysis and any age of the stream.  It does fail over media nobody
\* announced: H264 without parameters, MPEG-4 audio without a configuration, and
\* MPEG-1 audio after the analysis.
THEOREM WriterUnderstood == MediaSpec => []OwnWriterUnderstood
  <1>1. MdInv => OwnWriterUnderstood BY DEF MdInv
  <1>2. QED BY <1>1, MediaInvariant, PTL

-----------------------------------------------------------------------------
(* The RTP flow of a format processor.                                       *)

SeqNumbers == 0..(SeqRange - 1)

\* Packets that are numbered one after the other from a number, the first
\* after the last of them being the one that the encoder goes on with.
Flows(pkts, from) ==
    /\ pkts # <<>> /\ pkts[1].seq = from /\ Last(pkts).seq \in SeqNumbers
    /\ Inc(from, Len(pkts)) = Inc(Last(pkts).seq, 1)
    /\ \A k \in DOMAIN pkts : /\ k > 1 => pkts[k].seq = Inc(pkts[k - 1].seq, 1)
                             /\ ~pkts[k].over

\* The inductive strengthening of RTPFlowUnbroken: unless something was lost,
\* the next number, of the encoder if there is one and of the source otherwise,
\* follows the last that was passed on.
FlowInv ==
    /\ fpIn \in SeqNumbers /\ fpLast \in SeqNumbers /\ fpEnc \in SeqNumbers \cup {NoEnc}
    /\ fpLost \in BOOLEAN
    /\ fpGen => fpEnc # NoEnc
    /\ ~fpLost => Inc(fpLast, 1) = IF fpEnc = NoEnc THEN fpIn ELSE fpEnc
    /\ fpFmt = "generic" => fpEnc = NoEnc

LEMMA NumbersWrap ==
  ASSUME NEW n \in SeqNumbers
  PROVE  /\ Inc(n, 0) = n /\ Inc(n, 1) \in SeqNumbers /\ Inc(n, 2) = Inc(Inc(n, 1), 1)
         /\ Inc(n, 2) \in SeqNumbers /\ n # NoEnc /\ Inc(n, 1) # NoEnc /\ Inc(n, 2) # NoEnc
  <1>1. Inc(n, 0) = n BY FpBounds DEF Inc, SeqNumbers
  <1>2. Inc(n, 1) \in SeqNumbers BY FpBounds DEF Inc, SeqNumbers
  <1>3. Inc(n, 2) = Inc(Inc(n, 1), 1) BY FpBounds DEF Inc, SeqNumbers
  <1>4. Inc(n, 2) \in SeqNumbers BY FpBounds DEF Inc, SeqNumbers
  <1>5. NoEnc \notin SeqNumbers BY FpBounds DEF NoEnc, SeqNumbers
  <1>6. QED BY <1>1, <1>2, <1>3, <1>4, <1>5

\* Numbered packets, one or two of them, are a flow.
LEMMA NumberedFlows ==
  ASSUME NEW from \in SeqNumbers, NEW n \in {1, 2}, NEW pkts, pkts = [k \in 1..n |-> pkts[k]],
         \A k \in 1..n : pkts[k].seq = Inc(from, k - 1) /\ ~pkts[k].over
  PROVE  Flows(pkts, from) /\ Inc(from, Len(pkts)) \in SeqNumbers
  <1>1. Len(pkts) = n /\ DOMAIN pkts = 1..n /\ pkts # <<>>
    OBVIOUS
  <1>2. Last(pkts) = pkts[n]
    BY <1>1 DEF Last
  <1>3. pkts[1].seq = from
    BY NumbersWrap
  <1>4. CASE n = 1
    BY <1>1, <1>2, <1>3, <1>4, NumbersWrap DEF Flows
  <1>5. CASE n = 2
    <2>1. pkts[2].seq = Inc(from, 1)
      BY <1>5
    <2>2. QED BY <1>1, <1>2, <1>3, <1>5, <2>1, NumbersWrap DEF Flows
  <1>6. QED BY <1>4, <1>5

\* What an encoder delivers is a flow.
LEMMA EncodedFlows ==
  ASSUME NEW from \in SeqNumbers, NEW frame, NEW ts
  PROVE  /\ Flows(Encoded(frame, from, ts), from)
         /\ Inc(from, Len(Encoded(frame, from, ts))) \in SeqNumbers
  <1> DEFINE n == IF Len(frame) > 2 THEN 2 ELSE 1
             pkts == Encoded(frame, from, ts)
  <1>1. n \in {1, 2}
    OBVIOUS
  <1>2. /\ pkts = [k \in 1..n |-> pkts[k]]
        /\ \A k \in 1..n : pkts[k].seq = Inc(from, k - 1) /\ pkts[k].over = FALSE
    BY DEF Encoded
  <1> HIDE DEF n, pkts
  <1>3. Flows(pkts, from) /\ Inc(from, Len(pkts)) \in SeqNumbers
    BY <1>1, <1>2, NumberedFlows
  <1>4. QED BY <1>3 DEF pkts

\* Passing a flow on that begins where the last one ended.
LEMMA PassFlows ==
  ASSUME FlowInv, NEW unit, NEW pkts, NEW from, Pass(unit, pkts), Flows(pkts, from),
         ~fpLost => from = Inc(fpLast, 1)
  PROVE  /\ FlowGoesOn /\ fpLost' = FALSE /\ fpLast' \in SeqNumbers
         /\ Inc(fpLast', 1) = Inc(from, Len(pkts))
  <1>1. /\ fpPkts' = pkts /\ pkts # <<>> /\ fpLast' = Last(pkts).seq
        /\ fpLost' = FALSE
    BY DEF Pass, Flows
  <1>2. FlowGoesOn
    BY <1>1 DEF FlowGoesOn, Flows
  <1>3. QED BY <1>1, <1>2 DEF Flows

LEMMA PassNothing ==
  ASSUME FlowInv, NEW unit, Pass(unit, <<>>)
  PROVE  FlowGoesOn /\ UNCHANGED <<fpLost, fpLast>>
  <1>1. fpLost \in BOOLEAN BY DEF FlowInv
  <1>2. QED BY <1>1 DEF Pass, FlowGoesOn

\* A processor whose encoder made the packets, or made none.
LEMMA EncodingKeeps ==
  ASSUME FlowInv, NEW unit, NEW pkts, NEW enc \in SeqNumbers, Pass(unit, pkts),
         ~fpLost => enc = Inc(fpLast, 1),
         pkts = <<>> \/ (Flows(pkts, enc) /\ Inc(enc, Len(pkts)) \in SeqNumbers),
         fpEnc' = Inc(enc, Len(pkts)),
         fpIn' \in SeqNumbers, fpFmt' # "generic"
  PROVE  FlowInv' /\ FlowGoesOn
  <1>1. CASE pkts = <<>>
    <2>1. Len(pkts) = 0 BY <1>1
    <2>2. fpEnc' = enc /\ enc # NoEnc BY <2>1, NumbersWrap
    <2>3. FlowGoesOn /\ UNCHANGED <<fpLost, fpLast>> BY <1>1, PassNothing
    <2>4. QED BY <2>2, <2>3 DEF FlowInv
  <1>2. CASE pkts # <<>>
    <2>1. Flows(pkts, enc) /\ Inc(enc, Len(pkts)) \in SeqNumbers BY <1>2
    <2>2. /\ FlowGoesOn /\ fpLost' = FALSE /\ fpLast' \in SeqNumbers
          /\ Inc(fpLast', 1) = fpEnc' /\ fpEnc' \in SeqNumbers
      BY <2>1, PassFlows
    <2>3. fpEnc' # NoEnc BY <2>2, FpBounds DEF NoEnc, SeqNumbers
    <2>4. QED BY <2>2, <2>3 DEF FlowInv
  <1>3. QED BY <1>1, <1>2

\* The frames of a source have one item or two.
LEMMA FrameLengths ==
  ASSUME NEW frame \in Frames
  PROVE  \E n \in {1, 2} : DOMAIN frame = 1..n
  BY DEF Frames

LEMMA ProcessUnitKeeps ==
  ASSUME FlowInv, ProcessUnit \/ ProcessOpusUnit
  PROVE  FlowInv' /\ FlowGoesOn
  <1>1. fpGen /\ UNCHANGED <<fpFmt, fpGen, fpIn>>
    BY DEF ProcessUnit, ProcessOpusUnit
  <1>2. /\ fpEnc \in SeqNumbers /\ (~fpLost => fpEnc = Inc(fpLast, 1))
        /\ fpIn' \in SeqNumbers /\ fpFmt' # "generic"
    BY <1>1 DEF FlowInv
  <1>3. CASE ProcessUnit
    <2>1. PICK out, pkts : /\ pkts = <<>> \/ \E ts : pkts = Encoded(out, fpEnc, ts)
                           /\ fpEnc' = Inc(fpEnc, Len(pkts)) /\ Pass(out, pkts)
      BY <1>3 DEF ProcessUnit
    <2>2. pkts = <<>> \/ (Flows(pkts, fpEnc) /\ Inc(fpEnc, Len(pkts)) \in SeqNumbers)
      <3> SUFFICES ASSUME pkts # <<>>
                   PROVE  Flows(pkts, fpEnc) /\ Inc(fpEnc, Len(pkts)) \in SeqNumbers
        OBVIOUS
      <3>1. PICK ts : pkts = Encoded(out, fpEnc, ts)
        BY <2>1
      <3>2. QED BY <1>2, <3>1, EncodedFlows
    <2>3. QED BY <1>2, <2>1, <2>2, EncodingKeeps
  <1>4. CASE ProcessOpusUnit
    <2> DEFINE packet(k, pts) ==
                 [seq |-> Inc(fpEnc, k - 1), ts |-> Inc(RandStart, pts + k - 1), over |-> FALSE]
    <2>1. PICK frame \in Frames, pts \in {2} :
               LET pkts == [k \in DOMAIN frame |-> packet(k, pts)]
               IN  fpEnc' = Inc(fpEnc, Len(pkts)) /\ Pass(frame, pkts)
      BY <1>4 DEF ProcessOpusUnit
    <2>2. PICK n \in {1, 2} : DOMAIN frame = 1..n
      BY FrameLengths
    <2> DEFINE pkts == [k \in 1..n |-> packet(k, pts)]
    <2>3. fpEnc' = Inc(fpEnc, Len(pkts)) /\ Pass(frame, pkts)
      BY <2>1, <2>2
    <2>4. /\ pkts = [k \in 1..n |-> pkts[k]]
          /\ \A k \in 1..n : pkts[k].seq = Inc(fpEnc, k - 1) /\ pkts[k].over = FALSE
      OBVIOUS
    <2> HIDE DEF pkts
    <2>5. Flows(pkts, fpEnc) /\ Inc(fpEnc, Len(pkts)) \in SeqNumbers
      BY <1>2, <2>4, NumberedFlows
    <2>6. QED BY <1>2, <2>3, <2>5, EncodingKeeps
  <1>5. QED BY <1>3, <1>4

\* An error: something is lost, and the numbers stay as they are.
LEMMA RefuseKeeps ==
  ASSUME FlowInv, Refuse, fpIn' \in SeqNumbers, UNCHANGED <<fpFmt, fpGen>>, ~fpGen,
         fpEnc' \in SeqNumbers \cup {NoEnc}, fpFmt = "generic" => fpEnc' = NoEnc
  PROVE  FlowInv' /\ FlowGoesOn
  BY DEF FlowInv, Refuse, FlowGoesOn

\* A packet goes on as it is.
LEMMA AsIsKeeps ==
  ASSUME FlowInv, NEW unit, NEW over, NEW pkts, pkts = <<[seq |-> fpIn, ts |-> 0, over |-> over]>>,
         ~over, Pass(unit, pkts), fpEnc = NoEnc, fpIn' = Inc(fpIn, 1),
         UNCHANGED <<fpFmt, fpGen, fpEnc>>, ~fpGen
  PROVE  FlowInv' /\ FlowGoesOn
  <1>1. fpIn \in SeqNumbers /\ (~fpLost => fpIn = Inc(fpLast, 1))
    BY DEF FlowInv
  <1>2. /\ pkts = [k \in 1..1 |-> pkts[k]]
        /\ \A k \in 1..1 : pkts[k].seq = fpIn /\ ~pkts[k].over
        /\ Len(pkts) = 1
    OBVIOUS
  <1>3. \A k \in 1..1 : Inc(fpIn, k - 1) = fpIn
    BY <1>1, NumbersWrap
  <1>4. Flows(pkts, fpIn) /\ Inc(fpIn, Len(pkts)) \in SeqNumbers
    BY <1>1, <1>2, <1>3, NumberedFlows
  <1>5. /\ FlowGoesOn /\ fpLost' = FALSE /\ fpLast' \in SeqNumbers
        /\ Inc(fpLast', 1) = fpIn' /\ fpIn' \in SeqNumbers
    BY <1>1, <1>2, <1>4, PassFlows
  <1>6. QED BY <1>5 DEF FlowInv

LEMMA ProcessRTPPacketKeeps ==
  ASSUME FlowInv, ProcessRTPPacket
  PROVE  FlowInv' /\ FlowGoesOn
  <1>1. ~fpGen /\ UNCHANGED <<fpFmt, fpGen>> /\ fpIn' = Inc(fpIn, 1)
    BY DEF ProcessRTPPacket
  <1>2. fpIn \in SeqNumbers /\ fpIn' \in SeqNumbers
    BY <1>1, NumbersWrap DEF FlowInv
  <1> DEFINE asIs(pkt) == <<[seq |-> fpIn, ts |-> 0, over |-> pkt.over]>>
             packets(pkt, out) ==
                 IF EncoderFor(pkt) = NoEnc THEN asIs(pkt)
                 ELSE IF Decode(pkt).res # "frame" \/ out = <<>> THEN <<>>
                 ELSE Encoded(out, EncoderFor(pkt), 0)
             decoded(pkt, out) ==
                 /\ fpEnc' = IF EncoderFor(pkt) = NoEnc \/ Decode(pkt).res = "error"
                             THEN EncoderFor(pkt)
                             ELSE Inc(EncoderFor(pkt), Len(packets(pkt, out)))
                 /\ CASE Decode(pkt).res = "error" -> Refuse
                      [] Decode(pkt).res = "frame" -> Pass(out, packets(pkt, out))
                      [] OTHER -> Pass(<<>>, packets(pkt, out))
  <1> DEFINE taken(pkt, nonRTSP, out) ==
                 IF pkt.over /\ EncoderFor(pkt) = NoEnc THEN Refuse /\ UNCHANGED fpEnc
                 ELSE IF ~Decodes(nonRTSP, EncoderFor(pkt))
                 THEN Pass(<<>>, asIs(pkt)) /\ UNCHANGED fpEnc
                 ELSE decoded(pkt, out)
  <1> DEFINE known(pkt) == UpdatedH264(fpKnown, IF Proc.params = {} \/ pkt.frag # "no"
                                                THEN [p \in {} |-> 0] ELSE Extracted(pkt.items))
             remuxed(pkt) == Remux(known(pkt), Decode(pkt).parts)
  <1>0. PICK pkt \in Packets, nonRTSP \in BOOLEAN : taken(pkt, nonRTSP, remuxed(pkt))
    BY Zenon DEF ProcessRTPPacket
  <1> HIDE DEF remuxed
  <1>3. PICK out : taken(pkt, nonRTSP, out)
    BY <1>0
  <1> DEFINE enc == EncoderFor(pkt)
  <1>4. /\ enc \in SeqNumbers \cup {NoEnc} /\ (enc = NoEnc => fpEnc = NoEnc)
        /\ fpFmt = "generic" => enc = NoEnc
        /\ ~fpLost /\ enc # NoEnc => enc = Inc(fpLast, 1)
    <2>1. fpFmt = "generic" => ~Proc.reencodes
      BY DEF Proc, ProcessorOf, Kind
    <2>2. QED BY <2>1, <1>2 DEF EncoderFor, FlowInv
  <1>5. enc # NoEnc => Decodes(nonRTSP, enc)
    BY <1>4 DEF Decodes
  <1> HIDE DEF enc, asIs
  <1>6. CASE enc = NoEnc
    <2>1. CASE Refuse
      BY <1>1, <1>2, <1>3, <1>4, <1>6, <2>1, RefuseKeeps DEF enc
    <2>2. CASE ~Refuse
      <3>1. ~pkt.over /\ fpEnc' = NoEnc /\ fpEnc = NoEnc /\ \E unit : Pass(unit, asIs(pkt))
        BY <1>3, <1>4, <1>6, <2>2 DEF enc
      <3>2. QED BY <1>1, <3>1, AsIsKeeps DEF asIs
    <2>3. QED BY <2>1, <2>2
  <1>7. CASE enc # NoEnc
    <2>1. enc \in SeqNumbers /\ fpFmt # "generic"
      BY <1>4, <1>7
    <2>2. decoded(pkt, out)
      BY <1>3, <1>5, <1>7 DEF enc
    <2>3. CASE Decode(pkt).res = "error"
      BY <1>1, <1>2, <1>4, <1>7, <2>1, <2>2, <2>3, RefuseKeeps DEF enc
    <2>4. CASE Decode(pkt).res # "error"
      <3>1. PICK unit : Pass(unit, packets(pkt, out))
        BY <2>2, <2>4
      <3>2. fpEnc' = Inc(enc, Len(packets(pkt, out)))
        BY <1>7, <2>2, <2>4 DEF enc
      <3>3. packets(pkt, out) = <<>> \/ packets(pkt, out) = Encoded(out, enc, 0)
        BY <1>7 DEF enc
      <3> HIDE DEF packets
      <3>4. \/ packets(pkt, out) = <<>>
            \/ /\ Flows(packets(pkt, out), enc)
               /\ Inc(enc, Len(packets(pkt, out))) \in SeqNumbers
        BY <2>1, <3>3, EncodedFlows
      <3>5. fpFmt' # "generic" /\ (~fpLost => enc = Inc(fpLast, 1))
        BY <1>1, <1>4, <1>7, <2>1
      <3> DEFINE pkts == packets(pkt, out)
      <3>6. /\ Pass(unit, pkts) /\ fpEnc' = Inc(enc, Len(pkts))
            /\ pkts = <<>> \/ (Flows(pkts, enc) /\ Inc(enc, Len(pkts)) \in SeqNumbers)
        BY <3>1, <3>2, <3>4
      <3> HIDE DEF pkts
      <3>7. QED BY <1>2, <2>1, <3>5, <3>6, EncodingKeeps
    <2>5. QED BY <2>3, <2>4
  <1>8. QED BY <1>6, <1>7

LEMMA FpNextKeeps ==
  ASSUME FlowInv, [FpNext]_fpVars
  PROVE  FlowInv' /\ [FlowGoesOn]_fpVars
  <1>1. CASE UNCHANGED fpVars
    BY <1>1 DEF FlowInv, fpVars
  <1>2. QED BY <1>1, ProcessUnitKeeps, ProcessRTPPacketKeeps DEF FpNext

LEMMA FpStarts ==
  ASSUME FpInit
  PROVE  FlowInv
  <1>1. 0 \in SeqNumbers /\ 1 \in SeqNumbers /\ SeqRange - 1 \in SeqNumbers /\ 0 # NoEnc
    BY FpBounds DEF SeqNumbers, NoEnc
  <1>2. Inc(SeqRange - 1, 1) = 0 /\ Inc(0, 1) = 1
    BY FpBounds DEF Inc
  <1>3. QED BY <1>1, <1>2 DEF FpInit, FlowInv

\* Unless an error dropped something, the next packet of the source, or of the
\* encoder once there is one, has the number after the last one passed on.
THEOREM FlowInvariant == FpSpec => []FlowInv
  <1>1. FpInit => FlowInv BY FpStarts
  <1>2. FlowInv /\ [FpNext]_fpVars => FlowInv' BY FpNextKeeps
  <1>3. QED BY <1>1, <1>2, PTL DEF FpSpec

\* The RTP flow that RTSP readers get is unbroken and within the maximum size,
\* also where the processor starts to encode (the RTP encoders of the format
\* processors begin with the number of the oversized packet), for any range
\* of sequence numbers and any set of formats.
THEOREM FlowsUnbroken == FpSpec => RTPFlowUnbroken
  <1>1. FlowInv /\ [FpNext]_fpVars => [FlowGoesOn]_fpVars BY FpNextKeeps
  <1>2. QED BY <1>1, FlowInvariant, PTL DEF FpSpec, RTPFlowUnbroken

-----------------------------------------------------------------------------
(* The parameters of a format processor.                                     *)

Kinds == AllParams \cup {"key", "slice", "aud"}
FpItems == {i \in [what: Kinds, ver: 0..2] : IsPar(i) => i.ver # 0}

\* A frame, or the items of a packet.
Short(items) == \E n \in {1, 2} : DOMAIN items = 1..n /\ \A k \in 1..n : items[k] \in FpItems

\* The places of a parameter in a short sequence, and its version there.
Holds(items, ks) == ks \subseteq DOMAIN items /\ \A k \in ks : IsPar(items[k])

LEMMA LastPlace ==
  ASSUME NEW items, Short(items), NEW ks, Holds(items, ks), ks # {}
  PROVE  Max(ks) \in ks
<1>1. PICK n \in {1, 2} : DOMAIN items = 1..n
  BY DEF Short
<1>2. \E m \in ks : \A k \in ks : m >= k
  BY <1>1 DEF Holds
<1> QED BY <1>2 DEF Max

LEMMA VersionGood ==
  ASSUME NEW items, Short(items), NEW ks, Holds(items, ks), NEW none
  PROVE  /\ ks = {} => VersionAt(items, ks, none) = none
         /\ ks # {} => VersionAt(items, ks, none) \in 1..2
<1>1. CASE ks # {}
  <2> DEFINE m == Max(ks)
  <2>1. m \in ks
    BY <1>1, LastPlace
  <2> HIDE DEF m
  <2>2. items[m] \in FpItems /\ IsPar(items[m])
    BY <2>1 DEF Short, Holds
  <2>3. items[m].ver \in 1..2
    BY <2>2 DEF FpItems
  <2> QED BY <1>1, <2>3 DEF VersionAt, m
<1>2. CASE ks = {}
  BY <1>2 DEF VersionAt
<1> QED BY <1>1, <1>2

LEMMA PlacesHold ==
  ASSUME NEW items, NEW p \in AllParams
  PROVE  Holds(items, Places(items, p))
  BY DEF Holds, Places, IsPar

LEMMA ParamsOfFormats ==
  Proc.params \subseteq AllParams
  BY DEF Proc, ProcessorOf, Kind, AllParams, H264, H265, MPEG4Video, AV1, VP8, VP9, MPEG1Video, MJPEG,
         MPEG1Audio, AC3, MPEG4Audio, Opus, G711, LPCM

\* A source sends short frames.
LEMMA FramesShort ==
  ASSUME NEW frame \in Frames
  PROVE  Short(frame)
<1> DEFINE ps == {Par(p, 1) : p \in Proc.params} \cup {Par(p, 2) : p \in Proc.params \cap {"sps"}}
           others == CASE fpFmt = "h265" -> {KeyPic}
                       [] Proc.params = {} -> Pictures
                       [] OTHER -> Pictures \cup {Item("aud")}
           items == ps \cup others
<1>1. frame \in {<<i>> : i \in items} \cup {<<i, j>> : i, j \in items}
  BY DEF Frames
<1>2. ps \subseteq FpItems
  <2>1. ASSUME NEW p \in AllParams, NEW v \in {1, 2} PROVE Par(p, v) \in FpItems
    <3>1. p \in Kinds
      BY DEF Kinds
    <3>2. Par(p, v) \in [what: Kinds, ver: 0..2] /\ Par(p, v).ver # 0
      BY <3>1 DEF Par
    <3> QED BY <3>2 DEF FpItems
  <2> QED BY <2>1, ParamsOfFormats
<1>3. others \subseteq FpItems
  <2>1. ASSUME NEW w \in {"key", "slice", "aud"} PROVE Item(w) \in FpItems
    <3>1. Item(w) \in [what: Kinds, ver: 0..2] /\ Item(w).what = w
      BY DEF Item, Kinds
    <3>2. ~IsPar(Item(w))
      BY <3>1 DEF IsPar, AllParams
    <3> QED BY <3>1, <3>2 DEF FpItems
  <2>2. others \subseteq {Item("key"), Item("slice"), Item("aud")}
    BY DEF Pictures, KeyPic
  <2> QED BY <2>1, <2>2
<1>4. items \subseteq FpItems
  BY <1>2, <1>3
<1> HIDE DEF items
<1>5. CASE frame \in {<<i>> : i \in items}
  BY <1>4, <1>5 DEF Short
<1>6. CASE frame \in {<<i, j>> : i, j \in items}
  BY <1>4, <1>6 DEF Short
<1> QED BY <1>1, <1>5, <1>6

\* A sequence of items that are no parameters.
Bare(rest) == \E c \in Nat : rest = [i \in 1..c |-> rest[i]] /\ \A i \in 1..c : ~IsPar(rest[i])

\* What remuxAccessUnit leaves of an access unit has no parameters.
LEMMA NoParamsLeft ==
  ASSUME NEW n \in Nat, NEW au, DOMAIN au = 1..n
  PROVE  Bare(WithoutParams(au))
<1> DEFINE ks == {k \in DOMAIN au : ~IsPar(au[k]) /\ au[k].what # "aud"}
           c == Cardinality(ks)
           before(k) == {j \in ks : j < k}
           rank == [k \in ks |-> Cardinality(before(k)) + 1]
           nth(i) == CHOOSE k \in ks : Cardinality(before(k)) = i - 1
<1>1. WithoutParams(au) = [i \in 1..c |-> au[nth(i)]]
  BY Zenon DEF WithoutParams
<1>2. ks \subseteq 1..n /\ \A k \in ks : ~IsPar(au[k])
  OBVIOUS
<1> HIDE DEF ks
<1>3. IsFiniteSet(ks) /\ c \in Nat
  <2>1. IsFiniteSet(1..n)
    BY FS_Interval
  <2>2. IsFiniteSet(ks)
    BY <1>2, <2>1, FS_Subset
  <2> QED BY <2>2, FS_CardinalityType
<1>4. ASSUME NEW k \in ks
      PROVE  IsFiniteSet(before(k)) /\ Cardinality(before(k)) \in Nat /\ Cardinality(before(k)) < c
  <2> DEFINE b == before(k)
  <2>1. b \subseteq ks /\ k \notin b
    BY <1>2
  <2> HIDE DEF b
  <2>2. IsFiniteSet(b) /\ Cardinality(b) <= c /\ (c = Cardinality(b) => ks = b)
    BY <1>3, <2>1, FS_Subset
  <2>3. Cardinality(b) \in Nat
    BY <2>2, FS_CardinalityType
  <2>4. Cardinality(b) # c
    BY <2>1, <2>2
  <2> QED BY <1>3, <2>2, <2>3, <2>4 DEF b
<1>5. ASSUME NEW k \in ks, NEW l \in ks, k < l
      PROVE  Cardinality(before(k)) < Cardinality(before(l))
  <2> DEFINE a == before(k)
             b == before(l)
  <2>4. k \in Int /\ l \in Int /\ \A j \in ks : j \in Int
    BY <1>2
  <2>1. a \subseteq b /\ k \in b /\ k \notin a
    <3>1. k \in b /\ k \notin a
      BY <1>5, <2>4
    <3>2. ASSUME NEW j \in a PROVE j \in b
      <4>1. j \in ks /\ j < k
        OBVIOUS
      <4>2. j < l
        BY <1>5, <2>4, <4>1
      <4> QED BY <4>1, <4>2
    <3> QED BY <3>1, <3>2
  <2>2. IsFiniteSet(a) /\ IsFiniteSet(b) /\ Cardinality(a) \in Nat /\ Cardinality(b) \in Nat
    BY <1>4
  <2> HIDE DEF a, b
  <2>3. Cardinality(a) <= Cardinality(b) /\ (Cardinality(b) = Cardinality(a) => b = a)
    BY <2>1, <2>2, FS_Subset
  <2> QED BY <2>1, <2>2, <2>3 DEF a, b
<1> HIDE DEF before, c
<1>6. rank \in Injection(ks, 1..c)
  <2>1. rank \in [ks -> 1..c]
    BY <1>3, <1>4
  <2>2. ASSUME NEW k \in ks, NEW l \in ks, rank[k] = rank[l] PROVE k = l
    <3>1. Cardinality(before(k)) = Cardinality(before(l))
      BY <1>4, <2>2
    <3>2. k \in Nat /\ l \in Nat
      BY <1>2
    <3> QED BY <1>4, <1>5, <3>1, <3>2
  <2> HIDE DEF rank
  <2>3. IsInjective(rank)
    BY <2>1, <2>2 DEF IsInjective
  <2> QED BY <2>1, <2>3 DEF Injection
<1>7. rank \in Surjection(ks, 1..c)
  <2>1. IsFiniteSet(1..c) /\ Cardinality(1..c) = c
    BY <1>3, FS_Interval
  <2> HIDE DEF rank
  <2> QED BY <1>6, <2>1, FS_Injection DEF c
<1>8. ASSUME NEW i \in 1..c PROVE nth(i) \in ks
  <2>1. PICK k \in ks : rank[k] = i
    BY <1>7 DEF Surjection
  <2>2. Cardinality(before(k)) = i - 1
    BY <1>3, <1>4, <2>1
  <2> QED BY <2>2
<1> HIDE DEF nth
<1>9. \A i \in 1..c : WithoutParams(au)[i] = au[nth(i)]
  BY <1>1
<1>10. \A i \in 1..c : ~IsPar(WithoutParams(au)[i])
  BY <1>2, <1>8, <1>9
<1> QED BY <1>1, <1>3, <1>10 DEF Bare

\* The unit begins with the parameters, once each, if all are known.
Fronted(unit, params, want) ==
  LET n == IF \A p \in params : want[p] # 0 THEN Cardinality(params) ELSE 0
  IN  Contains(unit, KeyPic) =>
        /\ n < Len(unit)
        /\ {unit[k] : k \in 1..n} = {Par(p, want[p]) : p \in {q \in params : n # 0}}
        /\ \A k \in DOMAIN unit : IsPar(unit[k]) => k <= n

\* The parameters, once each.
Listed(ps, params, want) ==
  \E m \in Nat : /\ ps = [k \in 1..m |-> ps[k]] /\ Cardinality(params) = m /\ m # 0
                 /\ {ps[k] : k \in 1..m} = {Par(p, want[p]) : p \in params}

\* Parameters in front of a unit without any.
LEMMA FrontedBy ==
  ASSUME NEW ps, NEW rest, NEW params, NEW want, Listed(ps, params, want), Bare(rest),
         \A p \in params : want[p] # 0, Contains(rest, KeyPic)
  PROVE  Fronted(ps \o rest, params, want)
<1> DEFINE u == ps \o rest
<1>8. PICK m \in Nat : /\ ps = [k \in 1..m |-> ps[k]] /\ Cardinality(params) = m /\ m # 0
                      /\ {ps[k] : k \in 1..m} = {Par(p, want[p]) : p \in params}
  BY DEF Listed
<1>9. PICK c \in Nat : rest = [k \in 1..c |-> rest[k]] /\ \A k \in 1..c : ~IsPar(rest[k])
  BY DEF Bare
<1>1. Len(ps) = m /\ Len(rest) = c /\ DOMAIN ps = 1..m /\ DOMAIN rest = 1..c
  BY <1>8, <1>9
<1>2. u = [k \in 1..(m + c) |-> IF k <= m THEN ps[k] ELSE rest[k - m]]
  BY <1>1, <1>8, <1>9
<1> HIDE DEF u
<1>3. Len(u) = m + c /\ DOMAIN u = 1..(m + c)
  BY <1>2
<1>4. \A k \in 1..m : u[k] = ps[k]
  BY <1>2
<1>5. \A k \in 1..(m + c) : IsPar(u[k]) => k <= m
  BY <1>2, <1>9
<1>6. {u[k] : k \in 1..m} = {Par(p, want[p]) : p \in {q \in params : m # 0}}
  <2>1. {u[k] : k \in 1..m} = {ps[k] : k \in 1..m}
    BY <1>4
  <2>2. {q \in params : m # 0} = params
    BY <1>8
  <2> QED BY <1>8, <2>1, <2>2
<1>7. m < Len(u)
  BY <1>1, <1>3 DEF Contains
<1> QED BY <1>3, <1>5, <1>6, <1>7, <1>8 DEF Fronted, u

\* A unit without parameters, which are not all known.
LEMMA NotFronted ==
  ASSUME NEW rest, NEW params, NEW want, Bare(rest),
         ~Contains(rest, KeyPic) \/ \E p \in params : want[p] = 0
  PROVE  Fronted(rest, params, want)
<1>4. PICK c \in Nat : rest = [k \in 1..c |-> rest[k]] /\ \A k \in 1..c : ~IsPar(rest[k])
  BY DEF Bare
<1>1. Len(rest) = c /\ DOMAIN rest = 1..c
  BY <1>4
<1>2. CASE ~Contains(rest, KeyPic)
  BY <1>2 DEF Fronted
<1>3. CASE Contains(rest, KeyPic) /\ \E p \in params : want[p] = 0
  <2>1. 0 < Len(rest)
    BY <1>1, <1>3 DEF Contains
  <2>2. {rest[k] : k \in 1..0} = {} /\ {Par(p, want[p]) : p \in {q \in params : 0 # 0}} = {}
    OBVIOUS
  <2> QED BY <1>1, <1>3, <1>4, <2>1, <2>2 DEF Fronted
<1> QED BY <1>2, <1>3

\* remuxAccessUnit of H264 and of H265.
LEMMA RemuxGood ==
  ASSUME NEW n \in Nat, NEW au, DOMAIN au = 1..n, NEW known
  PROVE  /\ Fronted(RemuxH264(known, au), {"sps", "pps"}, known)
         /\ Fronted(RemuxH265(known, au), {"vps", "sps", "pps"}, known)
<1> DEFINE rest == WithoutParams(au)
           two == <<Par("sps", known["sps"]), Par("pps", known["pps"])>>
           three == <<Par("vps", known["vps"]), Par("sps", known["sps"]), Par("pps", known["pps"])>>
<1>1. Bare(rest)
  BY NoParamsLeft
<1>2. /\ RemuxH264(known, au) =
           IF Contains(rest, KeyPic) /\ known["sps"] # 0 /\ known["pps"] # 0 THEN two \o rest ELSE rest
      /\ RemuxH265(known, au) =
           IF Contains(rest, KeyPic) /\ \A p \in {"vps", "sps", "pps"} : known[p] # 0
           THEN three \o rest ELSE rest
  BY DEF RemuxH264, RemuxH265
<1>3. Cardinality({"sps", "pps"}) = 2 /\ Cardinality({"vps", "sps", "pps"}) = 3
  <2> DEFINE a == {"sps"}
             b == a \cup {"pps"}
             d == b \cup {"vps"}
  <2>1. IsFiniteSet(a) /\ Cardinality(a) = 1
    BY FS_Singleton
  <2>2. "pps" \notin a /\ "vps" \notin b
    OBVIOUS
  <2>3. b = {"sps", "pps"} /\ d = {"vps", "sps", "pps"}
    OBVIOUS
  <2> HIDE DEF a
  <2>4. IsFiniteSet(b) /\ Cardinality(b) = 2
    BY <2>1, <2>2, FS_AddElement
  <2> HIDE DEF b
  <2>5. Cardinality(d) = 3
    BY <2>2, <2>4, FS_AddElement
  <2> QED BY <2>3, <2>4, <2>5
<1>4. /\ two = [k \in 1..2 |-> two[k]]
      /\ {two[k] : k \in 1..2} = {Par(p, known[p]) : p \in {"sps", "pps"}}
  OBVIOUS
<1>5. /\ three = [k \in 1..3 |-> three[k]]
      /\ {three[k] : k \in 1..3} = {Par(p, known[p]) : p \in {"vps", "sps", "pps"}}
  OBVIOUS
<1> HIDE DEF rest, two, three
<1>6. Fronted(RemuxH264(known, au), {"sps", "pps"}, known)
  <2> DEFINE ps == {"sps", "pps"}
  <2>1. (\A p \in ps : known[p] # 0) <=> (known["sps"] # 0 /\ known["pps"] # 0)
    OBVIOUS
  <2>2. Cardinality(ps) = 2 /\ {two[k] : k \in 1..2} = {Par(p, known[p]) : p \in ps}
    BY <1>3, <1>4
  <2>6. Listed(two, ps, known)
    BY <1>4, <2>2 DEF Listed
  <2> HIDE DEF ps
  <2>3. CASE Contains(rest, KeyPic) /\ \A p \in ps : known[p] # 0
    <3>1. Fronted(two \o rest, ps, known)
      BY <1>1, <2>3, <2>6, FrontedBy
    <3> QED BY <1>2, <2>1, <2>3, <3>1 DEF ps
  <2>4. CASE ~(Contains(rest, KeyPic) /\ \A p \in ps : known[p] # 0)
    <3>1. Fronted(rest, ps, known)
      BY <1>1, <2>4, NotFronted
    <3> QED BY <1>2, <2>1, <2>4, <3>1 DEF ps
  <2> QED BY <2>3, <2>4
<1>7. Fronted(RemuxH265(known, au), {"vps", "sps", "pps"}, known)
  <2> DEFINE ps == {"vps", "sps", "pps"}
  <2>2. Cardinality(ps) = 3 /\ {three[k] : k \in 1..3} = {Par(p, known[p]) : p \in ps}
    BY <1>3, <1>5
  <2>5. RemuxH265(known, au) =
          IF Contains(rest, KeyPic) /\ \A p \in ps : known[p] # 0 THEN three \o rest ELSE rest
    BY <1>2
  <2>6. Listed(three, ps, known)
    BY <1>5, <2>2 DEF Listed
  <2> HIDE DEF ps
  <2>3. CASE Contains(rest, KeyPic) /\ \A p \in ps : known[p] # 0
    <3>1. Fronted(three \o rest, ps, known)
      BY <1>1, <2>3, <2>6, FrontedBy
    <3> QED BY <2>3, <2>5, <3>1 DEF ps
  <2>4. CASE ~(Contains(rest, KeyPic) /\ \A p \in ps : known[p] # 0)
    <3>1. Fronted(rest, ps, known)
      BY <1>1, <2>4, NotFronted
    <3> QED BY <2>4, <2>5, <3>1 DEF ps
  <2> QED BY <2>3, <2>4
<1> QED BY <1>6, <1>7

\* Nothing is fronted in an empty unit.
LEMMA EmptyFronted ==
  ASSUME NEW params, NEW want PROVE Fronted(<<>>, params, want)
  BY DEF Fronted, Contains

\* Only the parameters matter.
LEMMA FrontedSame ==
  ASSUME NEW unit, NEW params, NEW want, NEW w, \A p \in params : want[p] = w[p],
         Fronted(unit, params, want)
  PROVE  Fronted(unit, params, w)
<1> DEFINE n == IF \A p \in params : want[p] # 0 THEN Cardinality(params) ELSE 0
<1>1. n = IF \A p \in params : w[p] # 0 THEN Cardinality(params) ELSE 0
  OBVIOUS
<1>2. Contains(unit, KeyPic) =>
        /\ n < Len(unit)
        /\ {unit[k] : k \in 1..n} = {Par(p, want[p]) : p \in {q \in params : n # 0}}
        /\ \A k \in DOMAIN unit : IsPar(unit[k]) => k <= n
  BY DEF Fronted
<1> HIDE DEF n
<1>3. {Par(p, want[p]) : p \in {q \in params : n # 0}} = {Par(p, w[p]) : p \in {q \in params : n # 0}}
  OBVIOUS
<1> QED BY <1>1, <1>2, <1>3 DEF Fronted

Versions == [AllParams -> 0..2]

\* The versions that items bring are those that the source knows to have sent.
LEMMA UpdateGood ==
  ASSUME NEW known \in Versions, NEW new, \A p \in DOMAIN new : new[p] \in 0..2
  PROVE  UpdatedH264(known, new) \in Versions
  BY DEF UpdatedH264, Versions

LEMMA ExtractedGood ==
  ASSUME NEW items, Short(items)
  PROVE  \A p \in DOMAIN Extracted(items) : Extracted(items)[p] \in 0..2
<1>1. \A p \in DOMAIN ExtractedH264(items) : ExtractedH264(items)[p] \in 0..2
  <2> SUFFICES ASSUME NEW p \in Proc.params PROVE VersionAt(items, Places(items, p), 0) \in 0..2
    BY DEF ExtractedH264
  <2>1. Holds(items, Places(items, p))
    BY ParamsOfFormats, PlacesHold
  <2> QED BY <2>1, VersionGood
<1>2. \A p \in DOMAIN ExtractedMPEG4(items) : ExtractedMPEG4(items)[p] \in 0..2
  <2>1. items[1] \in FpItems
    BY DEF Short
  <2>2. items[1].ver \in 0..2
    BY <2>1 DEF FpItems
  <2> QED BY <2>2 DEF ExtractedMPEG4
<1> QED BY <1>1, <1>2 DEF Extracted, ExtractedH265

LEMMA LatestGood ==
  ASSUME NEW items, Short(items), NEW seen \in Versions
  PROVE  Latest(seen, items) \in Versions
<1> SUFFICES ASSUME NEW p \in AllParams
             PROVE  VersionAt(items, Places(items, p), seen[p]) \in 0..2
  BY DEF Latest, Versions
<1>1. Holds(items, Places(items, p)) /\ seen[p] \in 0..2
  BY PlacesHold DEF Versions
<1> QED BY <1>1, VersionGood

LEMMA UpdateFollows ==
  ASSUME NEW items, Short(items), NEW known \in Versions, NEW seen \in Versions,
         NEW p \in Proc.params, known[p] = seen[p]
  PROVE  UpdatedH264(known, ExtractedH264(items))[p] = Latest(seen, items)[p]
<1> DEFINE ks == Places(items, p)
<1>1. p \in AllParams /\ Holds(items, ks)
  BY ParamsOfFormats, PlacesHold
<1>2. ExtractedH264(items)[p] = VersionAt(items, ks, 0) /\ p \in DOMAIN ExtractedH264(items)
  BY DEF ExtractedH264
<1>3. Latest(seen, items)[p] = VersionAt(items, ks, seen[p])
  BY <1>1 DEF Latest
<1>4. UpdatedH264(known, ExtractedH264(items))[p] =
        IF VersionAt(items, ks, 0) # 0 THEN VersionAt(items, ks, 0) ELSE known[p]
  BY <1>1, <1>2 DEF UpdatedH264
<1> HIDE DEF ks
<1>5. CASE ks = {}
  <2>1. VersionAt(items, ks, 0) = 0 /\ VersionAt(items, ks, seen[p]) = seen[p]
    BY <1>1, <1>5, VersionGood
  <2> QED BY <1>3, <1>4, <2>1
<1>6. CASE ks # {}
  <2>1. VersionAt(items, ks, 0) = VersionAt(items, ks, seen[p])
    BY <1>6 DEF VersionAt
  <2>2. VersionAt(items, ks, 0) \in 1..2
    BY <1>1, <1>6, VersionGood
  <2> QED BY <1>3, <1>4, <2>1, <2>2
<1> QED BY <1>5, <1>6

\* The parameters of an H265 unit.
LEMMA UnitParamsH265 ==
  ASSUME NEW au, Short(au), NEW known \in Versions
  PROVE  AUParamsH265(known, au) \in Versions
<1> DEFINE differing(p) == {k \in Places(au, p) : au[k].ver # known[p]}
           new == [p \in Proc.params |-> VersionAt(au, differing(p), 0)]
<1>1. AUParamsH265(known, au) = UpdatedH264(known, new)
  BY Zenon DEF AUParamsH265, UpdatedH265
<1>2. ASSUME NEW p \in Proc.params PROVE VersionAt(au, differing(p), 0) \in 0..2
  <2> DEFINE ks == differing(p)
  <2>1. Holds(au, Places(au, p))
    BY ParamsOfFormats, PlacesHold
  <2>2. Holds(au, ks)
    BY <2>1 DEF Holds
  <2> HIDE DEF ks
  <2>3. VersionAt(au, ks, 0) \in 0..2
    BY <2>2, VersionGood
  <2> QED BY <2>3 DEF ks
<1> HIDE DEF differing
<1>3. \A p \in DOMAIN new : new[p] \in 0..2
  BY <1>2
<1> HIDE DEF new
<1> QED BY <1>1, <1>3, UpdateGood

Tracked == fpFmt = "h264" \/ (fpFmt = "h265" /\ ~fpGen)
Framed == fpFmt \in {"h264", "h265"}

\* The inductive strengthening of KeyFramesDecodable: but for H265 units, the
\* processor knows the versions that the source sent last.
KnownInv ==
  /\ fpKnown \in Versions /\ fpSeen \in Versions /\ fpDec \in BOOLEAN /\ fpFrag \in BOOLEAN
  /\ fpParts \in Seq(FpItems)
  /\ Tracked => \A p \in Proc.params : fpKnown[p] = fpSeen[p]
  /\ Framed => Fronted(fpUnit, Proc.params, fpKnown)

LEMMA ParamsOfH26x ==
  /\ fpFmt = "h264" => Proc.params = {"sps", "pps"}
  /\ fpFmt = "h265" => Proc.params = {"vps", "sps", "pps"}
  BY DEF Proc, ProcessorOf, Kind, H264, H265

\* What Remux makes of an access unit is fronted by what is known.
LEMMA RemuxFronts ==
  ASSUME NEW n \in Nat, NEW au, DOMAIN au = 1..n, NEW known, Framed
  PROVE  Fronted(Remux(known, au), Proc.params, known)
<1>1. /\ Fronted(RemuxH264(known, au), {"sps", "pps"}, known)
      /\ Fronted(RemuxH265(known, au), {"vps", "sps", "pps"}, known)
  BY RemuxGood
<1>2. CASE fpFmt = "h264"
  <2>1. Remux(known, au) = RemuxH264(known, au)
    BY <1>2 DEF Remux
  <2> QED BY <1>1, <1>2, <2>1, ParamsOfH26x
<1>3. CASE fpFmt = "h265"
  <2>1. Remux(known, au) = RemuxH265(known, au)
    BY <1>3 DEF Remux
  <2> QED BY <1>1, <1>3, <2>1, ParamsOfH26x
<1> QED BY <1>2, <1>3 DEF Framed

\* A step that leaves the format alone.
LEMMA KnownKept ==
  ASSUME UNCHANGED <<fpFmt, fpGen>>, NEW known \in Versions, NEW seen \in Versions, NEW unit,
         fpKnown' = known, fpSeen' = seen, fpUnit' = unit,
         fpDec' \in BOOLEAN, fpFrag' \in BOOLEAN, fpParts' \in Seq(FpItems),
         Tracked => \A p \in Proc.params : known[p] = seen[p],
         Framed => Fronted(unit, Proc.params, known)
  PROVE  KnownInv'
<1>1. Proc' = Proc /\ Tracked' = Tracked /\ Framed' = Framed
  BY DEF Proc, ProcessorOf, Tracked, Framed
<1> QED BY <1>1 DEF KnownInv

LEMMA ProcessUnitKnows ==
  ASSUME KnownInv, ProcessUnit
  PROVE  KnownInv'
<1>1. PICK frame \in Frames :
        LET known == CASE fpFmt = "h265" -> AUParamsH265(fpKnown, frame)
                       [] fpFmt = "h264" -> AUParamsH264(fpKnown, frame)
                       [] OTHER -> UpdatedH264(fpKnown, Extracted(frame))
        IN  /\ fpGen /\ fpKnown' = known /\ fpUnit' = Remux(known, frame)
            /\ fpSeen' = Latest(fpSeen, frame)
            /\ UNCHANGED <<fpFmt, fpGen, fpDec, fpParts, fpFrag>>
  BY DEF ProcessUnit, Pass
<1> DEFINE known == CASE fpFmt = "h265" -> AUParamsH265(fpKnown, frame)
                      [] fpFmt = "h264" -> AUParamsH264(fpKnown, frame)
                      [] OTHER -> UpdatedH264(fpKnown, Extracted(frame))
           seen == Latest(fpSeen, frame)
<1>2. /\ fpGen /\ fpKnown' = known /\ fpUnit' = Remux(known, frame) /\ fpSeen' = seen
      /\ UNCHANGED <<fpFmt, fpGen>>
      /\ fpDec' \in BOOLEAN /\ fpFrag' \in BOOLEAN /\ fpParts' \in Seq(FpItems)
  BY <1>1 DEF KnownInv
<1>3. Short(frame) /\ fpKnown \in Versions /\ fpSeen \in Versions
  BY FramesShort DEF KnownInv
<1>4. seen \in Versions
  BY <1>3, LatestGood
<1>5. AUParamsH264(fpKnown, frame) = UpdatedH264(fpKnown, ExtractedH264(frame))
  BY DEF AUParamsH264
<1>6. known \in Versions
  <2>1. AUParamsH265(fpKnown, frame) \in Versions
    BY <1>3, UnitParamsH265
  <2>2. UpdatedH264(fpKnown, Extracted(frame)) \in Versions
    BY <1>3, ExtractedGood, UpdateGood
  <2>3. fpFmt = "h264" => Extracted(frame) = ExtractedH264(frame)
    BY DEF Extracted
  <2> QED BY <1>5, <2>1, <2>2, <2>3
<1>7. Tracked => \A p \in Proc.params : known[p] = seen[p]
  <2> SUFFICES ASSUME Tracked, NEW p \in Proc.params PROVE known[p] = seen[p]
    OBVIOUS
  <2>1. fpFmt = "h264" /\ fpKnown[p] = fpSeen[p]
    BY <1>2 DEF Tracked, KnownInv
  <2>2. known = UpdatedH264(fpKnown, ExtractedH264(frame))
    BY <1>5, <2>1
  <2> QED BY <1>3, <2>1, <2>2, UpdateFollows
<1> HIDE DEF known, seen
<1>8. Framed => Fronted(Remux(known, frame), Proc.params, known)
  <2>1. PICK n \in {1, 2} : DOMAIN frame = 1..n
    BY <1>3 DEF Short
  <2>2. n \in Nat
    BY <2>1
  <2> QED BY <2>1, <2>2, RemuxFronts
<1> DEFINE unit == Remux(known, frame)
<1>9. fpUnit' = unit /\ (Framed => Fronted(unit, Proc.params, known))
  BY <1>2, <1>8
<1> HIDE DEF unit
<1> QED BY <1>2, <1>4, <1>6, <1>7, <1>9, KnownKept

LEMMA ProcessOpusUnitKnows ==
  ASSUME KnownInv, ProcessOpusUnit
  PROVE  KnownInv'
<1>1. Proc.timed /\ UNCHANGED <<fpFmt, fpGen, fpDec, fpParts, fpFrag, fpKnown, fpSeen>>
  BY DEF ProcessOpusUnit
<1>2. ~Framed
  BY <1>1 DEF Framed, Proc, ProcessorOf, Kind, H264, H265
<1>3. Proc' = Proc /\ Tracked' = Tracked /\ Framed' = Framed
  BY <1>1 DEF Proc, ProcessorOf, Tracked, Framed
<1> QED BY <1>1, <1>2, <1>3 DEF KnownInv

\* The packets of a source, and what the decoder makes of them.
LEMMA PacketsShort ==
  ASSUME NEW pkt \in Packets
  PROVE  /\ pkt.items \in Seq(FpItems)
         /\ pkt.frag = "no" => Short(pkt.items)
<1>1. KeyPic \in FpItems
  BY DEF KeyPic, Item, FpItems, Kinds, IsPar, AllParams
<1>2. <<KeyPic>> \in Seq(FpItems) /\ <<>> \in Seq(FpItems)
  BY <1>1
<1>3. CASE pkt.frag # "no"
  <2>1. pkt.items = <<KeyPic>> \/ pkt.items = <<>>
    BY <1>3 DEF Packets, Packet
  <2> QED BY <1>2, <1>3, <2>1
<1>4. CASE pkt.frag = "no"
  <2>1. pkt.items \in Frames
    BY <1>4 DEF Packets, Packet
  <2>2. Short(pkt.items)
    BY <2>1, FramesShort
  <2>3. \E s, t : pkt.items = <<s>> \/ pkt.items = <<s, t>>
    BY <2>1 DEF Frames
  <2> QED BY <2>2, <2>3 DEF Short
<1> QED BY <1>3, <1>4

LEMMA DecodeGood ==
  ASSUME KnownInv, NEW pkt \in Packets
  PROVE  Decode(pkt).parts \in Seq(FpItems) /\ Decode(pkt).frag \in BOOLEAN
<1>1. fpParts \in Seq(FpItems) /\ pkt.items \in Seq(FpItems)
  BY PacketsShort DEF KnownInv
<1>2. fpParts \o pkt.items \in Seq(FpItems) /\ <<>> \in Seq(FpItems)
  BY <1>1
<1> QED BY <1>1, <1>2 DEF Decode

LEMMA ProcessRTPPacketKnows ==
  ASSUME KnownInv, ProcessRTPPacket
  PROVE  KnownInv'
<1> DEFINE new(pkt) == IF Proc.params = {} \/ pkt.frag # "no" THEN [p \in {} |-> 0]
                       ELSE Extracted(pkt.items)
           known(pkt) == UpdatedH264(fpKnown, new(pkt))
           seen(pkt) == IF pkt.frag = "no" THEN Latest(fpSeen, pkt.items) ELSE fpSeen
           out(pkt) == Remux(known(pkt), Decode(pkt).parts)
<1>1. PICK pkt \in Packets :
        /\ fpKnown' = known(pkt) /\ fpSeen' = seen(pkt)
        /\ fpUnit' \in {<<>>, out(pkt)}
        /\ \/ UNCHANGED <<fpDec, fpParts, fpFrag>>
           \/ /\ fpDec' = TRUE /\ fpFrag' = Decode(pkt).frag
              /\ fpParts' = IF Decode(pkt).res = "more" THEN Decode(pkt).parts ELSE <<>>
        /\ UNCHANGED <<fpFmt, fpGen>>
  <2> DEFINE asIs(pkt) == <<[seq |-> fpIn, ts |-> 0, over |-> pkt.over]>>
             pkts(pkt) == IF EncoderFor(pkt) = NoEnc THEN asIs(pkt)
                          ELSE IF Decode(pkt).res # "frame" \/ out(pkt) = <<>> THEN <<>>
                          ELSE Encoded(out(pkt), EncoderFor(pkt), 0)
             passed(pkt) == CASE Decode(pkt).res = "error" -> Refuse
                              [] Decode(pkt).res = "frame" -> Pass(out(pkt), pkts(pkt))
                              [] OTHER -> Pass(<<>>, pkts(pkt))
             taken(pkt, nonRTSP) ==
                 IF pkt.over /\ EncoderFor(pkt) = NoEnc
                 THEN Refuse /\ UNCHANGED <<fpEnc, fpDec, fpParts, fpFrag>>
                 ELSE IF ~Decodes(nonRTSP, EncoderFor(pkt))
                 THEN Pass(<<>>, asIs(pkt)) /\ UNCHANGED <<fpEnc, fpDec, fpParts, fpFrag>>
                 ELSE /\ fpDec' = TRUE /\ fpFrag' = Decode(pkt).frag
                      /\ fpParts' = IF Decode(pkt).res = "more" THEN Decode(pkt).parts ELSE <<>>
                      /\ passed(pkt)
  <2>1. PICK pkt \in Packets, nonRTSP \in BOOLEAN :
          /\ fpKnown' = known(pkt) /\ fpSeen' = seen(pkt) /\ taken(pkt, nonRTSP)
          /\ UNCHANGED <<fpFmt, fpGen>>
    BY Zenon DEF ProcessRTPPacket
  <2> HIDE DEF known, seen, out, pkts, asIs
  <2>2. fpUnit' \in {<<>>, out(pkt)}
    BY <2>1 DEF Refuse, Pass
  <2>3. \/ UNCHANGED <<fpDec, fpParts, fpFrag>>
        \/ /\ fpDec' = TRUE /\ fpFrag' = Decode(pkt).frag
           /\ fpParts' = IF Decode(pkt).res = "more" THEN Decode(pkt).parts ELSE <<>>
    BY <2>1
  <2> QED BY <2>1, <2>2, <2>3
<1> DEFINE kn == known(pkt)
           sn == seen(pkt)
           n == new(pkt)
           parts == Decode(pkt).parts
<1>2. pkt.items \in Seq(FpItems) /\ (pkt.frag = "no" => Short(pkt.items))
  BY PacketsShort
<1>3. fpKnown \in Versions /\ fpSeen \in Versions
  BY DEF KnownInv
<1>4. sn \in Versions
  BY <1>2, <1>3, LatestGood
<1>5. kn \in Versions
  <2>1. CASE Proc.params = {} \/ pkt.frag # "no"
    BY <1>3, <2>1, UpdateGood
  <2>2. CASE ~(Proc.params = {} \/ pkt.frag # "no")
    BY <1>2, <1>3, <2>2, ExtractedGood, UpdateGood
  <2> QED BY <2>1, <2>2
<1>6. Tracked => \A p \in Proc.params : kn[p] = sn[p]
  <2> SUFFICES ASSUME Tracked, NEW p \in Proc.params PROVE kn[p] = sn[p]
    OBVIOUS
  <2>1. fpKnown[p] = fpSeen[p] /\ p \in AllParams
    BY ParamsOfFormats DEF KnownInv
  <2>2. CASE pkt.frag = "no"
    <3>1. n = ExtractedH264(pkt.items)
      BY <2>2 DEF Tracked, Extracted, ExtractedH265
    <3>2. sn = Latest(fpSeen, pkt.items)
      BY <2>2
    <3> QED BY <1>2, <1>3, <2>1, <2>2, <3>1, <3>2, UpdateFollows
  <2>3. CASE pkt.frag # "no"
    <3>1. sn = fpSeen /\ n = [q \in {} |-> 0]
      BY <2>3
    <3>2. UpdatedH264(fpKnown, n)[p] = fpKnown[p]
      BY <2>1, <3>1 DEF UpdatedH264
    <3> QED BY <2>1, <3>1, <3>2
  <2> QED BY <2>2, <2>3
<1>7. parts \in Seq(FpItems) /\ Decode(pkt).frag \in BOOLEAN
  BY DecodeGood
<1>8. fpUnit' \in {<<>>, Remux(kn, parts)}
  BY <1>1
<1>9. /\ fpDec' \in BOOLEAN /\ fpFrag' \in BOOLEAN /\ fpParts' \in Seq(FpItems)
  <2>1. <<>> \in Seq(FpItems)
    OBVIOUS
  <2>2. fpDec \in BOOLEAN /\ fpFrag \in BOOLEAN /\ fpParts \in Seq(FpItems)
    BY DEF KnownInv
  <2> HIDE DEF known, seen, out
  <2> QED BY <1>1, <1>7, <2>1, <2>2
<1>10. fpKnown' = kn /\ fpSeen' = sn /\ UNCHANGED <<fpFmt, fpGen>>
  BY <1>1
<1> HIDE DEF kn, sn, n, parts, known, seen, out, new
<1>11. Framed => Fronted(fpUnit', Proc.params, kn)
  <2>1. Framed => Fronted(Remux(kn, parts), Proc.params, kn)
    <3>1. DOMAIN parts = 1..Len(parts) /\ Len(parts) \in Nat
      BY <1>7
    <3> QED BY <3>1, RemuxFronts
  <2>2. Fronted(<<>>, Proc.params, kn)
    BY EmptyFronted
  <2> QED BY <1>8, <2>1, <2>2
<1> DEFINE unit == fpUnit'
<1>12. fpUnit' = unit /\ (Framed => Fronted(unit, Proc.params, kn))
  BY <1>11
<1> HIDE DEF unit
<1> QED BY <1>4, <1>5, <1>6, <1>9, <1>10, <1>12, KnownKept

LEMMA KnownBegins ==
  ASSUME FpInit PROVE KnownInv
<1> DEFINE zero == [p \in AllParams |-> 0]
<1>1. fpKnown = zero /\ fpSeen = zero /\ fpDec = FALSE /\ fpFrag = FALSE /\ fpParts = <<>> /\ fpUnit = <<>>
  BY DEF FpInit
<1>2. zero \in Versions /\ <<>> \in Seq(FpItems)
  BY DEF Versions
<1> HIDE DEF zero
<1>3. Fronted(fpUnit, Proc.params, fpKnown)
  BY <1>1, EmptyFronted
<1> QED BY <1>1, <1>2, <1>3 DEF KnownInv

\* But for units of H265, the processor knows the versions that the source
\* sent last, and the frame last passed on is fronted by them.
LEMMA KnownInvariant == FpSpec => []KnownInv
<1>1. KnownInv /\ UNCHANGED fpVars => KnownInv'
  <2> SUFFICES ASSUME KnownInv, UNCHANGED fpVars PROVE KnownInv'
    OBVIOUS
  <2>1. UNCHANGED <<fpFmt, fpGen, fpKnown, fpSeen, fpUnit, fpDec, fpFrag, fpParts>>
    BY DEF fpVars
  <2>2. Proc' = Proc /\ Tracked' = Tracked /\ Framed' = Framed
    BY <2>1 DEF Proc, ProcessorOf, Tracked, Framed
  <2> QED BY <2>1, <2>2 DEF KnownInv
<1>2. KnownInv /\ [FpNext]_fpVars => KnownInv'
  BY <1>1, ProcessUnitKnows, ProcessOpusUnitKnows, ProcessRTPPacketKnows DEF FpNext
<1> QED BY <1>2, KnownBegins, PTL DEF FpSpec

\* A frame with a key picture is passed on with the parameters that the source
\* sent last in front of it, once each and in order, as soon as all of them are
\* known (updateTrackParameters and remuxAccessUnit of H264 and H265), for any
\* number of packets that the frame comes in.
THEOREM KeyFramesStayDecodable == FpSpec => []KeyFramesDecodable
<1>1. ASSUME KnownInv PROVE KeyFramesDecodable
  <2> DEFINE want == IF fpFmt = "h265" /\ fpGen THEN fpKnown ELSE fpSeen
  <2>1. Framed => Fronted(fpUnit, Proc.params, want)
    <3> SUFFICES ASSUME Framed PROVE Fronted(fpUnit, Proc.params, want)
      OBVIOUS
    <3>1. Fronted(fpUnit, Proc.params, fpKnown)
      BY <1>1 DEF KnownInv
    <3>2. \A p \in Proc.params : fpKnown[p] = want[p]
      BY <1>1 DEF KnownInv, Framed, Tracked
    <3> HIDE DEF want
    <3> QED BY <3>1, <3>2, FrontedSame
  <2> QED BY Zenon, <2>1 DEF Framed, Fronted, KeyFramesDecodable
<1> QED BY <1>1, KnownInvariant, PTL

\* The state of a format processor stays in its types.
THEOREM ProcessorTypeCorrect == FpSpec => []FpTypeOK
<1>1. FlowInv /\ KnownInv => FpTypeOK
  BY FpBounds DEF FlowInv, KnownInv, Versions, FpTypeOK, SeqNumbers, NoEnc
<1> QED BY <1>1, FlowInvariant, KnownInvariant, PTL

-----------------------------------------------------------------------------
(* The record cleaner.                                                       *)

\* A segment that was recorded in the past.
Segments == [start : Nat, len : Nat, init : 1..2, gop : 1..2, hdr : BOOLEAN]
Recorded(f) == f \in Segments /\ f.start + f.len <= pbNow

\* What the cleaner has still to delete was old enough when its run began, by
\* a retention time that cannot change before the run ends.
RunIsDue(run) ==
    pbConf # 0 /\ \A s \in run : s \in Nat /\ s + pbConf <= pbNow

\* The inductive strengthening of RetentionRespected.
PbInv ==
    /\ pbNow \in 0..MaxNow /\ pbKeep \in Retentions /\ pbConf \in Retentions
    /\ \A f \in pbFiles : Recorded(f) /\ f.len >= 1
    /\ pbOpen = <<>> \/ \E f : pbOpen = <<f>> /\ Recorded(f)
    /\ pbRun = <<>> \/ \E run : pbRun = <<run>> /\ RunIsDue(run)

\* Time passes.
LEMMA LaterStill ==
  ASSUME pbNow \in Nat, pbNow' \in Nat, pbNow' >= pbNow, UNCHANGED pbConf, pbConf \in Nat
  PROVE  /\ \A f : Recorded(f) => Recorded(f)'
         /\ \A run : RunIsDue(run) => RunIsDue(run)'
  <1>1. ASSUME NEW f, Recorded(f) PROVE Recorded(f)'
    <2>1. f.start \in Nat /\ f.len \in Nat /\ f.start + f.len <= pbNow
      BY <1>1 DEF Recorded, Segments
    <2>2. f.start + f.len <= pbNow'
      BY <2>1
    <2>3. QED BY <1>1, <2>2 DEF Recorded
  <1>2. ASSUME NEW run, RunIsDue(run) PROVE RunIsDue(run)'
    <2>1. ASSUME NEW s \in run PROVE s \in Nat /\ s + pbConf <= pbNow'
      BY <1>2, <2>1 DEF RunIsDue
    <2>2. QED BY <1>2, <2>1 DEF RunIsDue
  <1>3. QED BY <1>1, <1>2

\* A segment grows by a sample, or gets its header.
LEMMA SegmentChanged ==
  ASSUME NEW f \in Segments
  PROVE  /\ [f EXCEPT !.len = @ + 1] \in Segments
         /\ [f EXCEPT !.len = @ + 1].start = f.start /\ [f EXCEPT !.len = @ + 1].len = f.len + 1
         /\ [f EXCEPT !.hdr = TRUE] \in Segments
         /\ [f EXCEPT !.hdr = TRUE].start = f.start /\ [f EXCEPT !.hdr = TRUE].len = f.len
         /\ f.start \in Nat /\ f.len \in Nat
  <1>1. /\ f = [start |-> f.start, len |-> f.len, init |-> f.init, gop |-> f.gop, hdr |-> f.hdr]
        /\ f.start \in Nat /\ f.len \in Nat /\ f.init \in 1..2 /\ f.gop \in 1..2
    BY DEF Segments
  <1>2. [f EXCEPT !.len = @ + 1] =
          [start |-> f.start, len |-> f.len + 1, init |-> f.init, gop |-> f.gop, hdr |-> f.hdr]
    BY <1>1
  <1>3. [f EXCEPT !.hdr = TRUE].start = f.start /\ [f EXCEPT !.hdr = TRUE].len = f.len
    BY <1>1
  <1>4. f.hdr \in BOOLEAN
    BY DEF Segments
  <1>5. [f EXCEPT !.len = @ + 1] \in Segments
    BY <1>1, <1>2, <1>4 DEF Segments
  <1>6. [f EXCEPT !.hdr = TRUE] \in Segments
    BY Zenon DEF Segments
  <1>7. QED BY <1>1, <1>2, <1>3, <1>5, <1>6

LEMMA StartSegmentKeeps ==
  ASSUME PbInv, StartSegment
  PROVE  PbInv' /\ OnlyOldDeleted
  <1>1. UNCHANGED <<pbFiles, pbNow, pbKeep, pbConf, pbRun>>
    BY DEF StartSegment
  <1>2. PICK init \in 1..2, gop \in 1..2 : pbOpen' = <<Segment(pbNow, 0, init, gop, FALSE)>>
    BY DEF StartSegment
  <1>3. pbNow \in Nat
    BY PbBounds DEF PbInv
  <1> DEFINE begun == Segment(pbNow, 0, init, gop, FALSE)
  <1>4. begun \in Segments /\ begun.start = pbNow /\ begun.len = 0
    BY <1>3 DEF Segment, Segments
  <1> HIDE DEF begun
  <1>5. PICK new : new = begun /\ new \in Segments /\ new.start = pbNow /\ new.len = 0
    BY <1>4
  <1>6. Recorded(new)' /\ pbOpen' = <<new>>
    <2>1. new.start + new.len <= pbNow' BY <1>1, <1>3, <1>5
    <2>2. pbOpen' = <<new>> BY <1>2, <1>5 DEF begun
    <2>3. QED BY <1>5, <2>1, <2>2 DEF Recorded
  <1>7. /\ \A f : Recorded(f) => Recorded(f)'
        /\ \A run : RunIsDue(run) => RunIsDue(run)'
    BY <1>1 DEF Recorded, RunIsDue
  <1>8. PbInv'
    <2>1. pbRun' = <<>> \/ \E run : pbRun' = <<run>> /\ RunIsDue(run)'
      BY <1>1, <1>7 DEF PbInv
    <2>2. /\ pbNow' \in 0..MaxNow /\ pbKeep' \in Retentions /\ pbConf' \in Retentions
          /\ \A f \in pbFiles' : Recorded(f)' /\ f.len >= 1
      BY <1>1, <1>7 DEF PbInv
    <2>3. QED BY <1>6, <2>1, <2>2 DEF PbInv
  <1>9. OnlyOldDeleted
    BY <1>1 DEF OnlyOldDeleted
  <1>10. QED BY <1>8, <1>9

LEMMA ElapseKeeps ==
  ASSUME PbInv, Elapse
  PROVE  PbInv' /\ OnlyOldDeleted
  <1>1. UNCHANGED <<pbKeep, pbConf, pbRun>> /\ pbNow < MaxNow /\ pbNow' = pbNow + 1
    BY DEF Elapse
  <1>2. /\ pbNow \in Nat /\ pbNow' \in Nat /\ pbNow' >= pbNow /\ pbNow' \in 0..MaxNow
        /\ pbConf \in Nat
    BY <1>1, PbBounds DEF PbInv
  <1>3. /\ \A f : Recorded(f) => Recorded(f)'
        /\ \A run : RunIsDue(run) => RunIsDue(run)'
    BY <1>1, <1>2, LaterStill
  <1>4. CASE pbOpen = <<>>
    <2>1. UNCHANGED <<pbOpen, pbFiles>>
      BY <1>4 DEF Elapse
    <2>2. QED BY <1>1, <1>2, <1>3, <2>1 DEF PbInv, OnlyOldDeleted
  <1>5. CASE pbOpen # <<>>
    <2>1. PICK old : pbOpen = <<old>> /\ Recorded(old)
      BY <1>5 DEF PbInv
    <2> DEFINE new == [old EXCEPT !.len = @ + 1]
    <2>2. /\ pbOpen' = <<new>>
          /\ pbFiles' = IF old.len = 0 \/ old \in pbFiles
                        THEN (pbFiles \ {old}) \cup {new} ELSE pbFiles
      BY <1>5, <2>1 DEF Elapse
    <2>3. /\ old.start + old.len <= pbNow
          /\ new \in Segments /\ new.start = old.start /\ new.len = old.len + 1
          /\ old.start \in Nat /\ old.len \in Nat
      BY <2>1, SegmentChanged DEF Recorded
    <2> HIDE DEF new
    <2>4. Recorded(new)' /\ new.len >= 1
      BY <1>1, <1>2, <2>3 DEF Recorded
    <2>5. PbInv'
      BY <1>1, <1>2, <1>3, <2>2, <2>4 DEF PbInv
    <2>6. OnlyOldDeleted
      BY <2>2, <2>3 DEF OnlyOldDeleted
    <2>7. QED BY <2>5, <2>6
  <1>6. QED BY <1>4, <1>5

LEMMA EndSegmentKeeps ==
  ASSUME PbInv, EndSegment
  PROVE  PbInv' /\ OnlyOldDeleted
  <1>1. UNCHANGED <<pbNow, pbKeep, pbConf, pbRun>> /\ pbOpen # <<>> /\ pbOpen' = <<>>
    BY DEF EndSegment
  <1>2. PICK old : pbOpen = <<old>> /\ Recorded(old)
    BY <1>1 DEF PbInv
  <1> DEFINE new == [old EXCEPT !.hdr = TRUE]
  <1>3. /\ old.len > 0
        /\ pbFiles' = IF old \notin pbFiles THEN pbFiles ELSE (pbFiles \ ToSet(pbOpen)) \cup {new}
    BY <1>2 DEF EndSegment
  <1>4. ToSet(pbOpen) = {old}
    BY <1>2 DEF ToSet
  <1>5. /\ old.start + old.len <= pbNow
        /\ new \in Segments /\ new.start = old.start /\ new.len = old.len /\ old.len \in Nat
    BY <1>2, SegmentChanged DEF Recorded
  <1> HIDE DEF new
  <1>6. Recorded(new)' /\ new.len >= 1
    BY <1>1, <1>3, <1>5 DEF Recorded
  <1>7. /\ \A f : Recorded(f) => Recorded(f)'
        /\ \A run : RunIsDue(run) => RunIsDue(run)'
    BY <1>1 DEF Recorded, RunIsDue
  <1>8. PbInv'
    BY <1>1, <1>3, <1>6, <1>7 DEF PbInv
  <1>9. OnlyOldDeleted
    BY <1>3, <1>4, <1>5 DEF OnlyOldDeleted
  <1>10. QED BY <1>8, <1>9

LEMMA CleanKeeps ==
  ASSUME PbInv, Clean
  PROVE  PbInv' /\ OnlyOldDeleted
  <1> DEFINE run == {f.start : f \in Found(pbFiles, None, pbNow - pbConf)}
  <1>1. /\ UNCHANGED <<pbFiles, pbOpen, pbNow, pbKeep, pbConf>> /\ pbConf # 0 /\ pbNow >= pbConf
        /\ pbRun' = <<run>>
    BY DEF Clean
  <1>2. pbNow \in Nat /\ pbConf \in Nat
    BY PbBounds DEF PbInv
  <1>3. ASSUME NEW f \in Found(pbFiles, None, pbNow - pbConf)
        PROVE  f.start \in Nat /\ f.start + pbConf <= pbNow
    <2>1. f \in pbFiles /\ f.start <= pbNow - pbConf
      BY <1>1, <1>2, <1>3 DEF Found, None
    <2>2. f.start \in Nat
      BY <2>1, SegmentChanged DEF PbInv, Recorded
    <2>3. QED BY <1>2, <2>1, <2>2
  <1>4. \A s \in run : s \in Nat /\ s + pbConf <= pbNow
    BY <1>3
  <1> HIDE DEF run
  <1>5. PICK due : pbRun' = <<due>> /\ \A s \in due : s \in Nat /\ s + pbConf <= pbNow
    BY <1>1, <1>4
  <1>6. RunIsDue(due)'
    BY <1>1, <1>5 DEF RunIsDue
  <1>7. \A f : Recorded(f) => Recorded(f)'
    BY <1>1 DEF Recorded
  <1>8. PbInv'
    <2>1. pbOpen' = <<>> \/ \E f : pbOpen' = <<f>> /\ Recorded(f)'
      BY <1>1, <1>7 DEF PbInv
    <2>2. /\ pbNow' \in 0..MaxNow /\ pbKeep' \in Retentions /\ pbConf' \in Retentions
          /\ \A f \in pbFiles' : Recorded(f)' /\ f.len >= 1
      BY <1>1, <1>7 DEF PbInv
    <2>3. QED BY <1>6, <1>5, <2>1, <2>2 DEF PbInv
  <1>9. QED BY <1>1, <1>8 DEF OnlyOldDeleted

LEMMA CleanNextKeeps ==
  ASSUME PbInv, CleanNext
  PROVE  PbInv' /\ OnlyOldDeleted
  <1>1. UNCHANGED <<pbOpen, pbNow, pbKeep, pbConf>> /\ pbRun # <<>>
    BY DEF CleanNext
  <1>2. PICK run : pbRun = <<run>> /\ RunIsDue(run)
    BY <1>1 DEF PbInv
  <1>3. /\ \A f : Recorded(f) => Recorded(f)'
        /\ \A r : RunIsDue(r) => RunIsDue(r)'
    BY <1>1 DEF Recorded, RunIsDue
  <1>4. CASE run = {}
    <2>1. pbRun' = <<>> /\ UNCHANGED pbFiles
      BY <1>2, <1>4 DEF CleanNext
    <2>2. QED BY <1>1, <1>3, <2>1 DEF PbInv, OnlyOldDeleted
  <1>5. CASE run # {}
    <2>1. PICK s \in run : pbRun' = <<run \ {s}>> /\ pbFiles' = {f \in pbFiles : f.start # s}
      BY <1>2, <1>5 DEF CleanNext
    <2>2. RunIsDue(run \ {s}) /\ pbConf # 0 /\ s + pbConf <= pbNow
      BY <1>2, <2>1 DEF RunIsDue
    <2>3. PbInv'
      BY <1>1, <1>3, <2>1, <2>2 DEF PbInv
    <2>4. OnlyOldDeleted
      BY <2>1, <2>2 DEF OnlyOldDeleted
    <2>5. QED BY <2>3, <2>4
  <1>6. QED BY <1>4, <1>5

LEMMA PbReloadKeeps ==
  ASSUME PbInv, PbReload \/ CleanerReload
  PROVE  PbInv' /\ OnlyOldDeleted
  <1>1. UNCHANGED <<pbFiles, pbOpen, pbNow, pbRun>>
    BY DEF PbReload, CleanerReload
  <1>2. pbKeep' \in Retentions /\ pbConf' \in Retentions
    BY DEF PbReload, CleanerReload, PbInv
  <1>3. \A f : Recorded(f) => Recorded(f)'
    BY <1>1 DEF Recorded
  <1>4. pbRun' = <<>> \/ \E run : pbRun' = <<run>> /\ RunIsDue(run)'
    <2>1. CASE PbReload
      BY <2>1 DEF PbReload, PbInv, RunIsDue
    <2>2. CASE CleanerReload
      BY <2>2 DEF CleanerReload
    <2>3. QED BY <2>1, <2>2
  <1>5. PbInv'
    BY <1>1, <1>2, <1>3, <1>4 DEF PbInv
  <1>6. QED BY <1>1, <1>5 DEF OnlyOldDeleted

LEMMA PbNextKeeps ==
  ASSUME PbInv, [PbNext]_pbVars
  PROVE  PbInv' /\ [OnlyOldDeleted]_pbVars
  <1>1. CASE UNCHANGED pbVars
    BY <1>1 DEF PbInv, Recorded, RunIsDue, pbVars
  <1>2. QED
    BY <1>1, StartSegmentKeeps, ElapseKeeps, EndSegmentKeeps, CleanKeeps, CleanNextKeeps,
       PbReloadKeeps DEF PbNext

\* The inductive invariant of the record store: what a run of the cleaner has
\* still to delete stays due while segments grow and configurations are loaded.
THEOREM StoreInvariant == PbSpec => []PbInv
  <1>1. PbInit => PbInv BY PbBounds DEF PbInit, PbInv
  <1>2. PbInv /\ [PbNext]_pbVars => PbInv' BY PbNextKeeps
  <1>3. QED BY <1>1, <1>2, PTL DEF PbSpec

\* The state of the record store has its types; no segment reaches into the future.
THEOREM StoreTypeCorrect == PbSpec => []PbTypeOK
  <1>1. PbInv => PbTypeOK
    <2> SUFFICES ASSUME PbInv PROVE PbTypeOK
      OBVIOUS
    <2>1. Len(pbOpen) <= 1 /\ Len(pbRun) <= 1
      <3>0. Len(<<>>) <= 1 /\ \A x : Len(<<x>>) <= 1
        OBVIOUS
      <3>1. pbOpen = <<>> \/ \E f : pbOpen = <<f>>
        BY DEF PbInv
      <3>2. pbRun = <<>> \/ \E run : pbRun = <<run>>
        BY DEF PbInv
      <3>3. Len(pbOpen) <= 1
        BY <3>0, <3>1
      <3>4. Len(pbRun) <= 1
        BY <3>0, <3>2
      <3>5. QED BY <3>3, <3>4
    <2>2. ASSUME NEW f \in pbFiles PROVE f.start \in 0..MaxNow /\ f.len \in 1..MaxNow
      <3>1. f \in Segments /\ f.start + f.len <= pbNow /\ f.len >= 1 /\ pbNow \in 0..MaxNow
        BY <2>2 DEF PbInv, Recorded
      <3>2. f.start \in Nat /\ f.len \in Nat
        BY <3>1, SegmentChanged
      <3>3. QED BY <3>1, <3>2, PbBounds
    <2>3. QED BY <2>1, <2>2 DEF PbInv, PbTypeOK
  <1>2. QED BY <1>1, StoreInvariant, PTL

\* The cleaner (recordcleaner: doRun and processPath) deletes only what the
\* retention time in force lets it delete, for any retention times, with
\* segments recorded and configurations reloaded while it runs.
THEOREM RetentionKept == PbSpec => RetentionRespected
  <1>1. PbInv /\ [PbNext]_pbVars => [OnlyOldDeleted]_pbVars BY PbNextKeeps
  <1>2. QED BY <1>1, StoreInvariant, PTL DEF PbSpec, RetentionRespected

-----------------------------------------------------------------------------
(* The chunks of an RTMP connection.                                         *)

LEMMA Quotient ==
    ASSUME NEW a \in Nat, NEW w \in Nat \ {0}
    PROVE  a = (a \div w) * w + (a % w) /\ (a \div w) \in Nat /\ (a % w) \in 0..(w - 1)
  OBVIOUS

LEMMA RemainderUnique ==
    ASSUME NEW a \in Nat, NEW w \in Nat \ {0}, NEW q \in Int, NEW r \in 0..(w - 1), a = q * w + r
    PROVE  a % w = r
  OBVIOUS

\* A clock of 32 bits that adds reduced steps is the reduced clock.
LEMMA ClockWraps ==
    ASSUME NEW a \in Nat, NEW b \in Nat, NEW w \in Nat \ {0}
    PROVE  ((a % w) + (b % w)) % w = (a + b) % w
<1> DEFINE ra == a % w
           rb == b % w
           p == a \div w
           q == b \div w
<1>1. /\ ra \in 0..(w - 1) /\ a = p * w + ra /\ p \in Nat
      /\ rb \in 0..(w - 1) /\ b = q * w + rb /\ q \in Nat
  BY Quotient
<1> HIDE DEF ra, rb, p, q
<1> DEFINE s == ra + rb
           t == s % w
           k == s \div w
<1>4. s \in Nat
  BY <1>1
<1>5. s = k * w + t /\ k \in Nat /\ t \in 0..(w - 1)
  BY <1>4, Quotient
<1> HIDE DEF t, k
<1>7. a + b = (p + q + k) * w + t
  <2>1. (p + q + k) * w = p * w + q * w + k * w /\ p * w \in Int /\ q * w \in Int /\ k * w \in Int
    BY <1>1, <1>5
  <2>2. ASSUME NEW x \in Int, NEW y \in Int, NEW z \in Int, a = x + ra, b = y + rb, ra + rb = z + t
        PROVE  a + b = x + y + z + t
    BY <1>1, <1>5, <2>2
  <2>3. a + b = p * w + q * w + k * w + t
    BY <1>1, <1>5, <2>1, <2>2
  <2> QED BY <2>1, <2>3
<1>8. (a + b) % w = t
  BY <1>1, <1>5, <1>7, RemainderUnique, p + q + k \in Int, a + b \in Nat
<1> QED BY <1>8 DEF s, t, ra, rb

\* How many chunks follow the first one: none of them but the last ends the body.
LEMMA ChunkCount ==
    ASSUME NEW len \in Nat, NEW w \in Nat \ {0}, len > w
    PROVE  LET n == (len - 1) \div w
           IN  /\ n \in Nat \ {0}
               /\ n * w < len /\ len - n * w <= w
               /\ \A i \in 1..n : i * w <= n * w /\ i * w \in Nat \ {0}
               /\ \A i \in 1..n : i < n => (i + 1) * w <= n * w
               /\ \A i \in 1..n : (i + 1) * w = i * w + w
<1> DEFINE n == (len - 1) \div w
<1>1. len - 1 = n * w + ((len - 1) % w) /\ n \in Nat /\ ((len - 1) % w) \in 0..(w - 1)
  BY Quotient, len - 1 \in Nat
<1> DEFINE r == (len - 1) % w
<1>2. len - 1 = n * w + r /\ r \in 0..(w - 1)
  BY <1>1
<1> HIDE DEF n, r
<1>3. n * w \in Nat
  BY <1>1
<1>4. n * w < len /\ len - n * w <= w
  BY <1>2, <1>3
<1>5. n # 0
  <2>1. 0 * w = 0
    OBVIOUS
  <2> QED BY <1>4, <2>1
<1>6. ASSUME NEW i \in Nat, NEW j \in Nat, i <= j PROVE i * w <= j * w
  BY <1>6
<1>7. \A i \in 1..n : (i + 1) * w = i * w + w
  BY <1>1
<1>8. ASSUME NEW i \in 1..n PROVE i * w \in Nat \ {0}
  <2>1. 1 * w <= i * w
    BY <1>1, <1>6
  <2> QED BY <1>1, <2>1
<1>9. \A i \in 1..n : i * w <= n * w
  BY <1>1, <1>6
<1>10. \A i \in 1..n : i < n => (i + 1) * w <= n * w
  BY <1>1, <1>6
<1> QED BY <1>1, <1>4, <1>5, <1>7, <1>8, <1>9, <1>10 DEF n

MessageTypes == MsgTypes \cup {"setChunkSize", ""}
MessageOwners == MessageStreams \cup {"0"}

ReaderStreams ==
    [ts: 0..(TsMod - 1), tsKnown: BOOLEAN, typ: MessageTypes, ms: MessageOwners, len: Nat,
     recv: Nat, delta: Nat, deltaKnown: BOOLEAN, ext: BOOLEAN]
WriterStreams ==
    [used: BOOLEAN, ms: MessageOwners, typ: MessageTypes, len: Nat, ts: Nat,
     delta: Nat \cup {Nil}, ext: BOOLEAN]
Chunks ==
    [fmt: 0..3, cs: Streams, time: 0..(TsMod - 1), typ: MessageTypes, ms: MessageOwners,
     len: Nat, ext: BOOLEAN, body: Nat]
ReadMessages ==
    [cs: Streams, typ: MessageTypes, ms: MessageOwners, len: Nat, ts: 0..(TsMod - 1)]

ChunkTypes ==
    /\ wcs \in [Streams -> WriterStreams] /\ rcs \in [Streams -> ReaderStreams]
    /\ wSize \in Nat \ {0} /\ rSize \in Nat \ {0}
    /\ wire \in Seq(Chunks) /\ written \in Seq(Messages) /\ read \in Seq(ReadMessages)
    /\ rErr \in {"none", "expected type 3", "no previous chunk", "no previous delta", "garbled"}
    /\ restarted \subseteq Streams

\* A message as the reader sees it.
Reduced(m) == [m EXCEPT !.ts = @ % TsMod]

\* A reader that has taken some of the chunks on the wire, n messages in all,
\* or that has refused one of them.
ReaderStates ==
    [cs: [Streams -> ReaderStreams], size: Nat \ {0}, n: Nat, refused: BOOLEAN]

\* The reader r takes the chunk c and is q then: it understands it, the
\* message it completes is the next one that was written, or it refuses it
\* because it knows no delta.  (sent and again stand for written and restarted.)
Follows(r, c, q, sent, again) ==
    LET rc == r.cs[c.cs]
        rc2 == AfterChunk(rc, c)
    IN  /\ r.refused => q.refused
        /\ ~r.refused /\ Refusal(rc, c) # "none" =>
             q.refused /\ Refusal(rc, c) = "no previous delta" /\ again # {}
        /\ ~r.refused /\ Refusal(rc, c) = "none" =>
             /\ ~q.refused
             /\ c.body = ExpectedLen(rc, c, r.size) /\ c.ext = ExpectedExt(rc, c)
             /\ q.cs = [r.cs EXCEPT ![c.cs] = rc2]
             /\ rc2.recv # 0 => q.n = r.n /\ q.size = r.size
             /\ rc2.recv = 0 =>
                  /\ q.n = r.n + 1 /\ q.n <= Len(sent)
                  /\ Complete(rc, c) = Reduced(sent[q.n])
                  /\ q.size = IF Complete(rc, c).typ = "setChunkSize" THEN NewChunkSize ELSE r.size

\* Both ends of a chunk stream hold the same: what the writer leaves out, the
\* reader knows, but for a delta from before a repeated type 0 chunk.
SameStream(s, wc, rc, again) ==
    /\ rc.recv = 0
    /\ ~wc.used => wc.delta = Nil
    /\ wc.used =>
         /\ rc.tsKnown /\ rc.ts = wc.ts % TsMod
         /\ rc.typ = wc.typ /\ rc.ms = wc.ms /\ rc.len = wc.len /\ rc.ext = wc.ext
         /\ wc.delta # Nil /\ rc.deltaKnown => rc.delta = wc.delta % TsMod
         /\ wc.delta # Nil /\ ~rc.deltaKnown => s \in again

Agrees(r) ==
    ~r.refused => /\ r.size = wSize /\ r.n = Len(written)
                  /\ \A s \in Streams : SameStream(s, wcs[s], r.cs[s], restarted)

\* rs[j] is what the reader will be after j of the chunks on the wire: after
\* all of them it agrees with the writer.
Ahead(rs) ==
    /\ rs \in [0..Len(wire) -> ReaderStates]
    /\ rs[0] = [cs |-> rcs, size |-> rSize, n |-> Len(read), refused |-> FALSE]
    /\ \A j \in 1..Len(wire) : Follows(rs[j - 1], wire[j], rs[j], written, restarted)
    /\ Agrees(rs[Len(wire)])

ChunksInv ==
    /\ ChunkTypes /\ ReadIsWritten
    /\ rErr = "none" => \E rs : Ahead(rs)

LEMMA MessageTyped ==
    ASSUME NEW m \in Messages
    PROVE  /\ m.cs \in Streams /\ m.typ \in MessageTypes /\ m.ms \in MessageOwners
           /\ m.len \in Nat /\ m.ts \in Nat
           /\ m.typ = "setChunkSize" <=> m = SetChunkSize
           /\ Reduced(m) = [cs |-> m.cs, typ |-> m.typ, ms |-> m.ms, len |-> m.len,
                            ts |-> m.ts % TsMod]
<1>1. CASE m = SetChunkSize
  BY <1>1 DEF SetChunkSize, Streams, MessageTypes, MessageOwners, Reduced
<1>2. CASE m \in [cs: ChunkStreams, typ: MsgTypes, ms: MessageStreams, len: BodyLens, ts: MsgTimes]
  <2>1. /\ m.cs \in ChunkStreams /\ m.typ \in MsgTypes /\ m.ms \in MessageStreams
        /\ m.len \in BodyLens /\ m.ts \in MsgTimes
    BY <1>2
  <2>2. Reduced(m) = [cs |-> m.cs, typ |-> m.typ, ms |-> m.ms, len |-> m.len,
                      ts |-> m.ts % TsMod]
    BY <1>2 DEF Reduced
  <2>3. m # SetChunkSize /\ m.typ # "setChunkSize"
    BY <2>1, RtmpChunksAssumption DEF SetChunkSize
  <2> QED BY <2>1, <2>2, <2>3, RtmpChunksAssumption DEF Streams, MessageTypes, MessageOwners
<1> QED BY <1>1, <1>2 DEF Messages

\* The writer's choice of the type of the first chunk.
LEMMA FirstTypeIs ==
    ASSUME NEW wc \in WriterStreams, NEW m \in Messages
    PROVE  LET t == FirstChunkType(wc, m)
               d == DeltaOf(wc, m)
           IN  /\ t \in 0..3
               /\ d = Nil \/ (wc.used /\ wc.ts <= m.ts /\ d = m.ts - wc.ts /\ d \in Nat)
               /\ t # 0 => d # Nil /\ wc.ms = m.ms
               /\ t \in {2, 3} => wc.typ = m.typ /\ wc.len = m.len
               /\ t = 3 => wc.delta = d
               /\ TimeField(wc, m) \in 0..(TsMod - 1)
               /\ HasExtended(wc, m) \in BOOLEAN
<1> DEFINE t == FirstChunkType(wc, m)
           d == DeltaOf(wc, m)
<1>1. wc.ts \in Nat /\ m.ts \in Nat /\ wc.used \in BOOLEAN /\ wc.ext \in BOOLEAN
  BY MessageTyped DEF WriterStreams
<1>2. d = Nil \/ (wc.used /\ wc.ts <= m.ts /\ d = m.ts - wc.ts /\ d \in Nat)
  BY <1>1 DEF DeltaOf, Nil
<1> HIDE DEF d
<1>3. /\ t \in 0..3
      /\ t # 0 => d # Nil /\ wc.ms = m.ms
      /\ t \in {2, 3} => wc.typ = m.typ /\ wc.len = m.len
      /\ t = 3 => wc.delta = d
  BY DEF FirstChunkType, d
<1>4. TimeField(wc, m) \in 0..(TsMod - 1)
  <2>1. CASE t = 0
    BY <1>1, <2>1, RtmpChunksAssumption, Quotient DEF TimeField
  <2>2. CASE t # 0
    BY <1>2, <1>3, <2>2, RtmpChunksAssumption, Quotient DEF TimeField, d
  <2> QED BY <2>1, <2>2
<1>5. HasExtended(wc, m) \in BOOLEAN
  <2>1. CASE t = 3
    BY Zenon, <1>1, <2>1 DEF HasExtended
  <2>2. CASE t # 3
    <3>1. (TimeField(wc, m) >= ExtTs) \in BOOLEAN
      OBVIOUS
    <3> QED BY Zenon, <3>1, <2>2 DEF HasExtended
  <2> QED BY <2>1, <2>2
<1> QED BY <1>2, <1>3, <1>4, <1>5 DEF d

\* What the reader holds of a chunk stream while it takes the chunks of m.
Held(rc, c, m, recv) ==
    [ts |-> m.ts % TsMod, tsKnown |-> TRUE, typ |-> m.typ, ms |-> m.ms, len |-> m.len,
     recv |-> recv,
     delta |-> IF c.fmt \in {1, 2} THEN c.time ELSE rc.delta,
     deltaKnown |-> IF c.fmt = 3 THEN rc.deltaKnown ELSE c.fmt # 0,
     ext |-> c.ext]


\* The reader takes the first chunk of a message, or refuses it for want of a delta.
LEMMA FirstChunkRead ==
    ASSUME NEW s \in Streams, NEW wc \in WriterStreams, NEW rc \in ReaderStreams,
           NEW m \in Messages, m.cs = s, wSize \in Nat \ {0}, SameStream(s, wc, rc, restarted)
    PROVE  LET c == FirstChunk(wc, m)
           IN  /\ c \in Chunks /\ c.cs = s
               /\ Refusal(rc, c) # "none" => Refusal(rc, c) = "no previous delta" /\ s \in restarted
               /\ Refusal(rc, c) = "none" =>
                    /\ c.body = ExpectedLen(rc, c, wSize) /\ c.ext = ExpectedExt(rc, c)
                    /\ AfterChunk(rc, c) = Held(rc, c, m, IF m.len <= wSize THEN 0 ELSE wSize)
<1> DEFINE t == FirstChunkType(wc, m)
           d == DeltaOf(wc, m)
           c == FirstChunk(wc, m)
<1>1. /\ m.typ \in MessageTypes /\ m.ms \in MessageOwners /\ m.len \in Nat /\ m.ts \in Nat
      /\ m.cs = s
  BY MessageTyped
<1>2. /\ t \in 0..3
      /\ d = Nil \/ (wc.used /\ wc.ts <= m.ts /\ d = m.ts - wc.ts /\ d \in Nat)
      /\ t # 0 => d # Nil /\ wc.ms = m.ms
      /\ t \in {2, 3} => wc.typ = m.typ /\ wc.len = m.len
      /\ t = 3 => wc.delta = d
      /\ TimeField(wc, m) \in 0..(TsMod - 1)
      /\ HasExtended(wc, m) \in BOOLEAN
  BY FirstTypeIs
<1>3. /\ c.fmt = t /\ c.cs = s /\ c.typ = m.typ /\ c.ms = m.ms /\ c.len = m.len
      /\ c.ext = HasExtended(wc, m) /\ c.body = Least(m.len, wSize)
      /\ c.time = IF t = 3 THEN 0 ELSE TimeField(wc, m)
  BY <1>1 DEF FirstChunk
<1>4. /\ rc.ts \in 0..(TsMod - 1) /\ rc.len \in Nat /\ rc.recv = 0 /\ rc.delta \in Nat
      /\ rc.deltaKnown \in BOOLEAN /\ rc.tsKnown \in BOOLEAN /\ rc.ext \in BOOLEAN
      /\ wc.ts \in Nat /\ wc.delta \in Nat \cup {Nil} /\ TsMod \in Nat \ {0} /\ ExtTs \in Nat
  BY RtmpChunksAssumption DEF ReaderStreams, WriterStreams, SameStream
<1>5. c \in Chunks
  <2>1. Least(m.len, wSize) \in Nat
    BY <1>1 DEF Least
  <2>2. (IF t = 3 THEN 0 ELSE TimeField(wc, m)) \in 0..(TsMod - 1)
    BY <1>2, <1>4
  <2> HIDE DEF t
  <2>3. c = [fmt |-> t, cs |-> m.cs, time |-> IF t = 3 THEN 0 ELSE TimeField(wc, m),
             typ |-> m.typ, ms |-> m.ms, len |-> m.len, ext |-> HasExtended(wc, m),
             body |-> Least(m.len, wSize)]
    BY DEF FirstChunk, t
  <2> QED BY <1>1, <1>2, <2>1, <2>2, <2>3 DEF Chunks
<1>6. t # 0 => wc.used
  BY <1>2
<1> HIDE DEF t, d, c
<1>7. Refusal(rc, c) # "none" => Refusal(rc, c) = "no previous delta" /\ s \in restarted
  <2>1. ~(c.fmt # 3 /\ rc.recv # 0) /\ ~(c.fmt \in {1, 2} /\ ~rc.tsKnown)
    BY <1>3, <1>4, <1>6 DEF SameStream
  <2>2. CASE c.fmt = 3 /\ ~rc.deltaKnown
    <3>1. Refusal(rc, c) = "no previous delta"
      BY <1>4, <2>1, <2>2 DEF Refusal
    <3>2. wc.used /\ wc.delta # Nil
      BY <1>2, <1>3, <1>6, <2>2
    <3> QED BY <3>1, <3>2, <2>2 DEF SameStream
  <2>3. CASE ~(c.fmt = 3 /\ ~rc.deltaKnown)
    BY <2>1, <2>3 DEF Refusal
  <2> QED BY <2>2, <2>3
<1>8. ASSUME Refusal(rc, c) = "none"
      PROVE  /\ c.body = ExpectedLen(rc, c, wSize) /\ c.ext = ExpectedExt(rc, c)
             /\ AfterChunk(rc, c) = Held(rc, c, m, IF m.len <= wSize THEN 0 ELSE wSize)
  <2>1. c.fmt \in {2, 3} => rc.len = m.len /\ rc.typ = m.typ
    BY <1>2, <1>3, <1>6 DEF SameStream
  <2>2. c.fmt # 0 => rc.ms = m.ms
    BY <1>2, <1>3, <1>6 DEF SameStream
  <2>3. c.fmt = 3 => rc.deltaKnown /\ rc.delta = d % TsMod /\ rc.ext = wc.ext
    <3> SUFFICES ASSUME c.fmt = 3 PROVE rc.deltaKnown /\ rc.delta = d % TsMod /\ rc.ext = wc.ext
      OBVIOUS
    <3>1. rc.deltaKnown
      BY <1>4, <1>8 DEF Refusal
    <3> QED BY <3>1, <1>2, <1>3, <1>6 DEF SameStream
  <2>4. c.body = ExpectedLen(rc, c, wSize)
    <3>1. (IF c.fmt \in {0, 1} THEN c.len ELSE rc.len) - (IF c.fmt = 3 THEN rc.recv ELSE 0) = m.len
      BY <1>1, <1>2, <1>3, <1>4, <2>1
    <3> QED BY <1>3, <3>1 DEF ExpectedLen
  <2>5. c.ext = ExpectedExt(rc, c)
    <3>1. CASE c.fmt = 3
      BY <1>3, <2>3, <3>1 DEF HasExtended, ExpectedExt, t
    <3>2. CASE c.fmt # 3
      BY Zenon, <1>3, <3>2 DEF HasExtended, ExpectedExt, t
    <3> QED BY <3>1, <3>2
  <2>6. (IF c.fmt = 0 THEN c.time
         ELSE AddTime(rc.ts, IF c.fmt \in {1, 2} THEN c.time
                             ELSE IF rc.recv = 0 THEN rc.delta ELSE 0)) = m.ts % TsMod
    <3>1. CASE c.fmt = 0
      BY <1>3, <3>1 DEF TimeField, t
    <3>2. CASE c.fmt # 0
      <4>1. d \in Nat /\ m.ts = wc.ts + d /\ rc.ts = wc.ts % TsMod
        BY <1>1, <1>2, <1>3, <1>4, <1>6, <3>2 DEF SameStream, Nil
      <4>2. (IF c.fmt \in {1, 2} THEN c.time ELSE rc.delta) = d % TsMod
        <5>1. CASE c.fmt = 3
          BY <2>3, <5>1
        <5>2. CASE c.fmt # 3
          BY <1>2, <1>3, <3>2, <5>2 DEF TimeField, t, d
        <5> QED BY <5>1, <5>2
      <4>3. AddTime(rc.ts, d % TsMod) = m.ts % TsMod
        BY <1>4, <4>1, ClockWraps DEF AddTime
      <4> QED BY <1>4, <3>2, <4>2, <4>3
    <3> QED BY <3>1, <3>2
  <2>7. (IF c.fmt \in {0, 1} THEN c.len ELSE rc.len) = m.len
    BY <1>2, <1>3, <2>1
  <2>8. (IF rc.recv + c.body = m.len THEN 0 ELSE rc.recv + c.body)
          = (IF m.len <= wSize THEN 0 ELSE wSize)
    BY <1>1, <1>3, <1>4 DEF Least
  <2>9. (IF c.fmt \in {0, 1} THEN c.typ ELSE rc.typ) = m.typ
        /\ (IF c.fmt = 0 THEN c.ms ELSE rc.ms) = m.ms
    BY <1>2, <1>3, <2>1, <2>2
  <2>10. (IF c.fmt = 3 THEN rc.ext ELSE c.time >= ExtTs) = c.ext
    BY Zenon, <2>5 DEF ExpectedExt
  <2>11. AfterChunk(rc, c) = Held(rc, c, m, IF m.len <= wSize THEN 0 ELSE wSize)
    BY Zenon, <2>6, <2>7, <2>8, <2>9, <2>10 DEF AfterChunk, Held
  <2> QED BY <2>4, <2>5, <2>11
<1> QED BY <1>3, <1>5, <1>7, <1>8 DEF c

LEMMA FirstChunkRefused ==
    ASSUME NEW wc \in WriterStreams, NEW rc \in ReaderStreams, NEW m \in Messages,
           m.cs \in Streams, wSize \in Nat \ {0}, SameStream(m.cs, wc, rc, restarted),
           Refusal(rc, FirstChunk(wc, m)) # "none"
    PROVE  /\ Refusal(rc, FirstChunk(wc, m)) = "no previous delta" /\ m.cs \in restarted
           /\ FirstChunk(wc, m).cs = m.cs
<1>1. FirstChunk(wc, m).cs = m.cs
  BY FirstChunkRead
<1>2. Refusal(rc, FirstChunk(wc, m)) = "no previous delta"
  BY FirstChunkRead
<1>3. m.cs \in restarted
  BY FirstChunkRead
<1> QED BY <1>1, <1>2, <1>3

\* How many chunks follow the first one.
RestCount(m) == IF m.len <= wSize THEN 0 ELSE (m.len - 1) \div wSize

\* The reader takes the i-th of the chunks that follow.
LEMMA RestChunkRead ==
    ASSUME NEW wc \in WriterStreams, NEW rc \in ReaderStreams, NEW m \in Messages,
           wSize \in Nat \ {0}, NEW i \in 1..RestCount(m)
    PROVE  LET c == RestChunks(wc, m)[i]
               f == FirstChunk(wc, m)
               h == Held(rc, f, m, i * wSize)
           IN  /\ c \in Chunks /\ c.cs = m.cs
               /\ Refusal(h, c) = "none"
               /\ c.body = ExpectedLen(h, c, wSize) /\ c.ext = ExpectedExt(h, c)
               /\ AfterChunk(h, c) =
                    Held(rc, f, m, IF i = RestCount(m) THEN 0 ELSE (i + 1) * wSize)
               /\ (i + 1) * wSize \in Nat \ {0}
<1> DEFINE n == RestCount(m)
           c == RestChunks(wc, m)[i]
           f == FirstChunk(wc, m)
           h == Held(rc, f, m, i * wSize)
<1>1. /\ m.typ \in MessageTypes /\ m.ms \in MessageOwners /\ m.len \in Nat /\ m.ts \in Nat
      /\ m.cs \in Streams /\ HasExtended(wc, m) \in BOOLEAN
  BY MessageTyped, FirstTypeIs
<1>2. m.len > wSize /\ n = (m.len - 1) \div wSize
  BY <1>1 DEF RestCount
<1>3. /\ n \in Nat \ {0} /\ n * wSize < m.len /\ m.len - n * wSize <= wSize
      /\ i * wSize <= n * wSize /\ i * wSize \in Nat \ {0}
      /\ i < n => (i + 1) * wSize <= n * wSize
      /\ (i + 1) * wSize = i * wSize + wSize
  BY <1>1, <1>2, ChunkCount
<1>4. c = [fmt |-> 3, cs |-> m.cs, time |-> 0, typ |-> m.typ, ms |-> m.ms,
           len |-> m.len, ext |-> HasExtended(wc, m),
           body |-> Least(m.len - i * wSize, wSize)]
  <2>1. RestChunks(wc, m) =
          [j \in 1..RestCount(m) |->
             [fmt |-> 3, cs |-> m.cs, time |-> 0, typ |-> m.typ, ms |-> m.ms,
              len |-> m.len, ext |-> HasExtended(wc, m),
              body |-> Least(m.len - j * wSize, wSize)]]
    BY Zenon DEF RestChunks, RestCount
  <2> QED BY <2>1
<1> DEFINE a == i * wSize
           b == (i + 1) * wSize
           z == n * wSize
<1>5. /\ a \in Nat \ {0} /\ a <= z /\ z < m.len /\ m.len - z <= wSize /\ b = a + wSize
      /\ i < n => b <= z
      /\ z \in Int
  BY <1>3
<1>6. c = [fmt |-> 3, cs |-> m.cs, time |-> 0, typ |-> m.typ, ms |-> m.ms,
           len |-> m.len, ext |-> HasExtended(wc, m), body |-> Least(m.len - a, wSize)]
  BY <1>4
<1>7. i = n => a = z
  OBVIOUS
<1>8. i \in 1..n /\ n \in Nat
  BY <1>3
<1> HIDE DEF a, b, z, c, n
<1>9. c \in Chunks
  <2>1. Least(m.len - a, wSize) \in Nat
    BY <1>1, <1>5 DEF Least
  <2>2. 0 \in 0..(TsMod - 1)
    BY RtmpChunksAssumption
  <2> QED BY <1>1, <1>6, <2>1, <2>2 DEF Chunks
<1>10. /\ h.recv = a /\ h.len = m.len /\ h.typ = m.typ /\ h.ms = m.ms /\ h.ext = f.ext
       /\ h.ts = m.ts % TsMod /\ f.ext = HasExtended(wc, m)
  BY DEF Held, FirstChunk, a
<1>11. Refusal(h, c) = "none"
  <2>1. c.fmt = 3 /\ h.recv # 0
    BY <1>5, <1>6, <1>10
  <2> HIDE DEF h
  <2> QED BY <2>1 DEF Refusal
<1>12. c.body = ExpectedLen(h, c, wSize) /\ c.ext = ExpectedExt(h, c)
  <2> HIDE DEF h, f
  <2> QED BY <1>6, <1>10 DEF ExpectedLen, ExpectedExt
<1>13. (IF a + Least(m.len - a, wSize) = m.len THEN 0 ELSE a + Least(m.len - a, wSize))
         = (IF i = n THEN 0 ELSE b)
  <2>1. CASE i = n
    BY <1>1, <1>5, <1>7, <2>1 DEF Least
  <2>2. CASE i # n
    BY <1>1, <1>5, <1>8, <2>2 DEF Least
  <2> QED BY <2>1, <2>2
<1>14. AddTime(m.ts % TsMod, 0) = m.ts % TsMod
  <2>1. (m.ts % TsMod) \in 0..(TsMod - 1)
    BY <1>1, Quotient, RtmpChunksAssumption
  <2>2. \A r \in 0..(TsMod - 1) : (r + 0) % TsMod = r
    BY RtmpChunksAssumption, RemainderUnique
  <2> QED BY <2>1, <2>2 DEF AddTime
<1>15. AfterChunk(h, c) = Held(rc, f, m, IF i = n THEN 0 ELSE b)
  <2>1. /\ c.fmt = 3 /\ c.body = Least(m.len - a, wSize) /\ a # 0
    BY <1>5, <1>6
  <2>2. h = [ts |-> m.ts % TsMod, tsKnown |-> TRUE, typ |-> m.typ, ms |-> m.ms, len |-> m.len,
             recv |-> a, delta |-> h.delta, deltaKnown |-> h.deltaKnown, ext |-> f.ext]
    BY DEF Held, a
  <2>3. Held(rc, f, m, IF i = n THEN 0 ELSE b) =
           [ts |-> m.ts % TsMod, tsKnown |-> TRUE, typ |-> m.typ, ms |-> m.ms, len |-> m.len,
            recv |-> IF i = n THEN 0 ELSE b, delta |-> h.delta, deltaKnown |-> h.deltaKnown,
            ext |-> f.ext]
    BY DEF Held
  <2> HIDE DEF h, f
  <2>4. AfterChunk(h, c) =
           [ts |-> AddTime(h.ts, 0), tsKnown |-> TRUE, typ |-> h.typ, ms |-> h.ms, len |-> h.len,
            recv |-> IF h.recv + c.body = h.len THEN 0 ELSE h.recv + c.body,
            delta |-> h.delta, deltaKnown |-> h.deltaKnown, ext |-> h.ext]
    BY <1>10, <2>1 DEF AfterChunk
  <2> QED BY <1>10, <1>13, <1>14, <2>1, <2>3, <2>4
<1>16. b \in Nat \ {0}
  BY <1>5
<1> QED BY <1>1, <1>6, <1>9, <1>11, <1>12, <1>15, <1>16 DEF c, n, b


\* The chunks of a message at the end of the wire.
LEMMA ChunksAppended ==
    ASSUME NEW S, NEW w \in Seq(S), NEW c \in S, NEW t \in Seq(S)
    PROVE  LET u == w \o <<c>> \o t
           IN  /\ u \in Seq(S) /\ Len(u) = Len(w) + 1 + Len(t)
               /\ \A j \in 1..Len(w) : u[j] = w[j]
               /\ u[Len(w) + 1] = c
               /\ \A i \in 1..Len(t) : u[Len(w) + 1 + i] = t[i]
  OBVIOUS

LEMMA RestTyped ==
    ASSUME NEW wc \in WriterStreams, NEW m \in Messages, wSize \in Nat \ {0}
    PROVE  RestCount(m) \in Nat /\ RestChunks(wc, m) \in Seq(Chunks)
           /\ Len(RestChunks(wc, m)) = RestCount(m)
<1>1. RestCount(m) \in Nat
  <2>1. m.len \in Nat
    BY MessageTyped
  <2>2. CASE m.len <= wSize
    BY <2>2 DEF RestCount
  <2>3. CASE ~(m.len <= wSize)
    <3>1. m.len - 1 \in Nat
      BY <2>1, <2>3
    <3> QED BY <2>3, <3>1, Quotient DEF RestCount
  <2> QED BY <2>2, <2>3
<1>2. ReaderStream \in ReaderStreams
  BY RtmpChunksAssumption DEF ReaderStream, ReaderStreams, MessageTypes, MessageOwners
<1>3. \A i \in 1..RestCount(m) : RestChunks(wc, m)[i] \in Chunks
  BY <1>2, RestChunkRead
<1>4. DOMAIN RestChunks(wc, m) = 1..RestCount(m)
      /\ RestChunks(wc, m) = [i \in 1..RestCount(m) |-> RestChunks(wc, m)[i]]
  BY Zenon DEF RestChunks, RestCount
<1> QED BY <1>1, <1>3, <1>4

\* What follows still follows when more was written.
LEMMA FollowsLater ==
    ASSUME NEW a \in ReaderStates, NEW c, NEW b \in ReaderStates,
           NEW sent \in Seq(Messages), NEW sent2 \in Seq(Messages), Len(sent) <= Len(sent2),
           \A i \in 1..Len(sent) : sent2[i] = sent[i],
           NEW again, NEW again2, again \subseteq again2, Follows(a, c, b, sent, again)
    PROVE  Follows(a, c, b, sent2, again2)
<1> DEFINE rc == a.cs[c.cs]
           rc2 == AfterChunk(rc, c)
<1>1. a.n \in Nat /\ b.n \in Nat
  BY DEF ReaderStates
<1>2. /\ a.refused => b.refused
      /\ ~a.refused /\ Refusal(rc, c) # "none" =>
           b.refused /\ Refusal(rc, c) = "no previous delta" /\ again # {}
      /\ ~a.refused /\ Refusal(rc, c) = "none" =>
           /\ ~b.refused
           /\ c.body = ExpectedLen(rc, c, a.size) /\ c.ext = ExpectedExt(rc, c)
           /\ b.cs = [a.cs EXCEPT ![c.cs] = rc2]
           /\ rc2.recv # 0 => b.n = a.n /\ b.size = a.size
           /\ rc2.recv = 0 =>
                /\ b.n = a.n + 1 /\ b.n <= Len(sent)
                /\ Complete(rc, c) = Reduced(sent[b.n])
                /\ b.size = IF Complete(rc, c).typ = "setChunkSize" THEN NewChunkSize ELSE a.size
  BY Zenon DEF Follows
<1>3. again # {} => again2 # {}
  OBVIOUS
<1>4. b.n = a.n + 1 /\ b.n <= Len(sent) => b.n <= Len(sent2) /\ sent2[b.n] = sent[b.n]
  BY <1>1
<1> HIDE DEF rc, rc2
<1>5. rc2.recv = 0 /\ ~a.refused /\ Refusal(rc, c) = "none" =>
         b.n <= Len(sent2) /\ Complete(rc, c) = Reduced(sent2[b.n])
  BY Zenon, <1>2, <1>4
<1> QED BY Zenon, <1>2, <1>3, <1>5 DEF Follows, rc, rc2

\* Where chunks are appended to the wire and the reader, ahead of them, can
\* follow on, there are states for all of the new wire.
\* The states q[1..n] of a reader that is r and takes the chunks w[k + 1..k + n].
Takes(q, n, r, w, k, sent, again) ==
    /\ q \in [0..n -> ReaderStates] /\ q[0] = r
    /\ \A j \in 1..n : Follows(q[j - 1], w[k + j], q[j], sent, again)

\* More was sent.
Later(sent, again, sent2, again2) ==
    /\ sent \in Seq(Messages) /\ sent2 \in Seq(Messages) /\ Len(sent) <= Len(sent2)
    /\ \A i \in 1..Len(sent) : sent2[i] = sent[i]
    /\ again \subseteq again2

\* The first k elements are the same.
SameUpTo(k, w, w2) == \A j \in 1..k : w2[j] = w[j]

LEMMA TakesExtends ==
    ASSUME NEW k \in Nat, NEW n \in Nat, NEW rs, NEW q, NEW r, NEW w, NEW w2,
           NEW sent, NEW again, NEW sent2, NEW again2, Later(sent, again, sent2, again2),
           SameUpTo(k, w, w2),
           Takes(rs, k, r, w, 0, sent, again), Takes(q, n, rs[k], w2, k, sent2, again2)
    PROVE  \E rs2 : Takes(rs2, k + n, r, w2, 0, sent2, again2) /\ rs2[k + n] = q[n]
<1>a. /\ sent \in Seq(Messages) /\ sent2 \in Seq(Messages) /\ Len(sent) <= Len(sent2)
      /\ \A i \in 1..Len(sent) : sent2[i] = sent[i]
      /\ again \subseteq again2
  BY DEF Later
<1>e. \A j \in 1..k : w2[j] = w[j]
  BY DEF SameUpTo
<1>b. \A j \in 1..(k + n) : 0 + j = j
  OBVIOUS
<1>c. /\ rs \in [0..k -> ReaderStates] /\ rs[0] = r
      /\ \A j \in 1..k : Follows(rs[j - 1], w[j], rs[j], sent, again)
  BY <1>b DEF Takes
<1>d. /\ q \in [0..n -> ReaderStates] /\ q[0] = rs[k]
      /\ \A j \in 1..n : Follows(q[j - 1], w2[k + j], q[j], sent2, again2)
  BY DEF Takes
<1> USE <1>a, <1>c, <1>d, <1>e
<1> DEFINE rs2 == [j \in 0..(k + n) |-> IF j <= k THEN rs[j] ELSE q[j - k]]
<1>1. rs2 \in [0..(k + n) -> ReaderStates]
  OBVIOUS
<1>2. ASSUME NEW j \in 0..n PROVE rs2[k + j] = q[j]
  <2>1. CASE j = 0
    BY <2>1
  <2>2. CASE j # 0
    BY <2>2
  <2> QED BY <2>1, <2>2
<1>3. \A j \in 0..k : rs2[j] = rs[j]
  OBVIOUS
<1> HIDE DEF rs2
<1>4. ASSUME NEW j \in 1..(k + n) PROVE Follows(rs2[j - 1], w2[j], rs2[j], sent2, again2)
  <2>1. CASE j <= k
    <3>1. j \in 1..k /\ j - 1 \in 0..k /\ j \in 0..k
      BY <2>1
    <3>2. rs2[j - 1] = rs[j - 1] /\ rs2[j] = rs[j] /\ w2[j] = w[j]
      BY <1>3, <3>1
    <3>3. Follows(rs[j - 1], w[j], rs[j], sent, again)
      BY <3>1
    <3>4. rs[j - 1] \in ReaderStates /\ rs[j] \in ReaderStates
      BY <3>1
    <3>5. Follows(rs[j - 1], w[j], rs[j], sent2, again2)
      BY <3>3, <3>4, FollowsLater
    <3> QED BY <3>2, <3>5
  <2>2. CASE j > k
    <3>1. PICK i \in 1..n : j = k + i
      <4>1. j - k \in 1..n /\ j = k + (j - k)
        BY <2>2
      <4> QED BY <4>1
    <3>2. i - 1 \in 0..n /\ i \in 0..n /\ j - 1 = k + (i - 1)
      BY <3>1
    <3>3. rs2[j - 1] = q[i - 1] /\ rs2[j] = q[i]
      BY <1>2, <3>1, <3>2
    <3>4. Follows(q[i - 1], w2[k + i], q[i], sent2, again2)
      OBVIOUS
    <3> QED BY <3>1, <3>3, <3>4
  <2> QED BY <2>1, <2>2
<1>5. rs2[0] = rs[0] /\ rs2[k + n] = q[n]
  BY <1>2, <1>3
<1>6. Takes(rs2, k + n, r, w2, 0, sent2, again2)
  BY <1>b, <1>1, <1>4, <1>5 DEF Takes
<1> QED BY <1>5, <1>6


LEMMA HeldTyped ==
    ASSUME NEW rc \in ReaderStreams, NEW c \in Chunks, NEW m \in Messages, NEW recv \in Nat
    PROVE  Held(rc, c, m, recv) \in ReaderStreams
<1>1. /\ m.typ \in MessageTypes /\ m.ms \in MessageOwners /\ m.len \in Nat
      /\ (m.ts % TsMod) \in 0..(TsMod - 1)
  BY MessageTyped, Quotient, RtmpChunksAssumption
<1>2. /\ c.fmt \in 0..3 /\ c.time \in 0..(TsMod - 1) /\ c.ext \in BOOLEAN
      /\ rc.delta \in Nat /\ rc.deltaKnown \in BOOLEAN
  BY DEF Chunks, ReaderStreams
<1>3. (IF c.fmt \in {1, 2} THEN c.time ELSE rc.delta) \in Nat
  BY <1>2, RtmpChunksAssumption
<1>4. (IF c.fmt = 3 THEN rc.deltaKnown ELSE c.fmt # 0) \in BOOLEAN
  BY <1>2
<1> QED BY Zenon, <1>1, <1>2, <1>3, <1>4 DEF Held, ReaderStreams

\* After the last chunk of a message both ends of its chunk stream agree again.
LEMMA AgreeAgain ==
    ASSUME NEW s \in Streams, NEW wc \in WriterStreams, NEW rc \in ReaderStreams,
           NEW m \in Messages, m.cs = s, NEW again, SameStream(s, wc, rc, again),
           Refusal(rc, FirstChunk(wc, m)) = "none",
           NEW again2, again \subseteq again2,
           wc.used /\ FirstChunkType(wc, m) = 0 => s \in again2
    PROVE  /\ Remembered(wc, m) \in WriterStreams
           /\ SameStream(s, Remembered(wc, m), Held(rc, FirstChunk(wc, m), m, 0), again2)
<1> DEFINE t == FirstChunkType(wc, m)
           d == DeltaOf(wc, m)
           c == FirstChunk(wc, m)
           w2 == Remembered(wc, m)
           r2 == Held(rc, c, m, 0)
<1>1. /\ t \in 0..3
      /\ d = Nil \/ (wc.used /\ wc.ts <= m.ts /\ d = m.ts - wc.ts /\ d \in Nat)
      /\ t # 0 => d # Nil
      /\ t = 3 => wc.delta = d
      /\ HasExtended(wc, m) \in BOOLEAN
  BY FirstTypeIs
<1>2. /\ m.typ \in MessageTypes /\ m.ms \in MessageOwners /\ m.len \in Nat /\ m.ts \in Nat
  BY MessageTyped
<1>3. c.fmt = t /\ c.ext = HasExtended(wc, m) /\ c.time = IF t = 3 THEN 0 ELSE TimeField(wc, m)
  BY DEF FirstChunk
<1>4. wc.delta \in Nat \cup {Nil} /\ wc.used \in BOOLEAN /\ rc.deltaKnown \in BOOLEAN /\ rc.recv = 0
  BY DEF WriterStreams, ReaderStreams, SameStream
<1>5. /\ w2.used /\ w2.ms = m.ms /\ w2.typ = m.typ /\ w2.len = m.len /\ w2.ts = m.ts
      /\ w2.delta = (IF d = Nil THEN wc.delta ELSE d) /\ w2.ext = HasExtended(wc, m)
  BY DEF Remembered
<1>6. w2 \in WriterStreams
  <2>1. (IF d = Nil THEN wc.delta ELSE d) \in Nat \cup {Nil}
    BY <1>1, <1>4
  <2> QED BY Zenon, <1>1, <1>2, <2>1 DEF Remembered, WriterStreams
<1>7. /\ r2.ts = m.ts % TsMod /\ r2.tsKnown /\ r2.typ = m.typ /\ r2.ms = m.ms /\ r2.len = m.len
      /\ r2.recv = 0 /\ r2.ext = c.ext
      /\ r2.delta = (IF c.fmt \in {1, 2} THEN c.time ELSE rc.delta)
      /\ r2.deltaKnown = (IF c.fmt = 3 THEN rc.deltaKnown ELSE c.fmt # 0)
  BY DEF Held
<1>8. t = 3 => rc.deltaKnown
  <2> HIDE DEF c
  <2> QED BY <1>3, <1>4 DEF Refusal, c
<1>9. t = 3 => rc.delta = d % TsMod
  BY <1>1, <1>8 DEF SameStream
<1>10. t \in {1, 2} => c.time = d % TsMod
  BY <1>3 DEF TimeField
<1>11. ~wc.used => wc.delta = Nil
  BY DEF SameStream
<1>16. t = 0 => ~r2.deltaKnown
  <2> SUFFICES ASSUME t = 0 PROVE ~r2.deltaKnown
    OBVIOUS
  <2> HIDE DEF c, t, r2
  <2>1. c.fmt # 3 /\ ~(c.fmt # 0)
    BY <1>3
  <2> QED BY Zenon, <1>7, <2>1
<1>12. wc.used /\ t = 0 => s \in again2
  OBVIOUS
<1> HIDE DEF t, d, c, w2, r2
<1>13. w2.delta # Nil /\ r2.deltaKnown => r2.delta = w2.delta % TsMod
  <2>1. CASE t = 0
    BY <1>16, <2>1
  <2>2. CASE t # 0
    BY <1>1, <1>3, <1>5, <1>7, <1>9, <1>10, <2>2
  <2> QED BY <2>1, <2>2
<1>14. w2.delta # Nil /\ ~r2.deltaKnown => s \in again2
  <2>1. CASE t = 0
    BY <1>1, <1>5, <1>11, <1>12, <2>1
  <2>2. CASE t # 0
    BY <1>1, <1>3, <1>7, <1>8, <2>2
  <2> QED BY <2>1, <2>2
<1>15. SameStream(s, w2, r2, again2)
  BY Zenon, <1>3, <1>5, <1>7, <1>13, <1>14 DEF SameStream
<1> QED BY <1>6, <1>15 DEF w2, r2, c

\* A reader that agrees with the writer follows the chunks of the next message
\* and agrees with the writer again, unless it refuses the first one.
\* The chunks cs[1..n] are those of the message m, the last one that was sent.
Sends(m, cs, n, sent, again) ==
    /\ sent = Append(written, m) /\ restarted \subseteq again
    /\ wcs[m.cs].used /\ FirstChunkType(wcs[m.cs], m) = 0 => m.cs \in again
    /\ n \in Nat /\ n = 1 + RestCount(m)
    /\ cs[1] = FirstChunk(wcs[m.cs], m)
    /\ \A i \in 1..RestCount(m) : cs[i + 1] = RestChunks(wcs[m.cs], m)[i]

\* The reader r agrees with what the writer will be after m.
AgreesAfter(m, r, sent, again) ==
    ~r.refused =>
      /\ r.size = IF m = SetChunkSize THEN NewChunkSize ELSE wSize
      /\ r.n = Len(sent)
      /\ \A s \in Streams :
           SameStream(s, [wcs EXCEPT ![m.cs] = Remembered(wcs[m.cs], m)][s], r.cs[s], again)

LEMMA MessageTaken ==
    ASSUME NEW m \in Messages, ChunkTypes, NEW r \in ReaderStates, Agrees(r),
           NEW cs, NEW n, NEW sent2, NEW again2, Sends(m, cs, n, sent2, again2)
    PROVE  \E q : Takes(q, n, r, cs, 0, sent2, again2) /\ AgreesAfter(m, q[n], sent2, again2)
<1>a. /\ sent2 = Append(written, m) /\ restarted \subseteq again2
      /\ wcs[m.cs].used /\ FirstChunkType(wcs[m.cs], m) = 0 => m.cs \in again2
      /\ n \in Nat /\ n = 1 + RestCount(m)
      /\ cs[1] = FirstChunk(wcs[m.cs], m)
      /\ \A i \in 1..RestCount(m) : cs[i + 1] = RestChunks(wcs[m.cs], m)[i]
  BY Zenon DEF Sends
<1> USE <1>a
<1> SUFFICES \E q \in [0..n -> ReaderStates] :
             /\ q[0] = r
             /\ \A j \in 1..n : Follows(q[j - 1], cs[j], q[j], sent2, again2)
             /\ ~q[n].refused =>
                  /\ q[n].size = IF m = SetChunkSize THEN NewChunkSize ELSE wSize
                  /\ q[n].n = Len(sent2)
                  /\ \A s \in Streams :
                       SameStream(s, [wcs EXCEPT ![m.cs] = Remembered(wcs[m.cs], m)][s],
                                  q[n].cs[s], again2)
  <2>1. \A j \in 1..n : 0 + j = j
    OBVIOUS
  <2>2. ASSUME NEW q \in [0..n -> ReaderStates], q[0] = r,
               \A j \in 1..n : Follows(q[j - 1], cs[j], q[j], sent2, again2)
        PROVE  Takes(q, n, r, cs, 0, sent2, again2)
    BY <2>1, <2>2 DEF Takes
  <2> QED BY Zenon, <2>2 DEF AgreesAfter
<1> DEFINE wc == wcs[m.cs]
           rc == r.cs[m.cs]
           f == FirstChunk(wc, m)
           x == RestCount(m)
<1>1. /\ m.cs \in Streams /\ m.len \in Nat /\ wc \in WriterStreams /\ rc \in ReaderStreams
      /\ wSize \in Nat \ {0} /\ x \in Nat /\ n = 1 + x
      /\ r.refused \in BOOLEAN /\ r.n \in Nat /\ r.size \in Nat \ {0}
      /\ r.cs \in [Streams -> ReaderStreams]
  BY MessageTyped, RestTyped DEF ChunkTypes, ReaderStates
<1>2. CASE r.refused
  <2> DEFINE q == [j \in 0..n |-> r]
  <2>1. q \in [0..n -> ReaderStates] /\ q[0] = r /\ \A j \in 0..n : q[j] = r
    OBVIOUS
  <2>2. \A j \in 1..n : q[j - 1] = r /\ q[j] = r
    OBVIOUS
  <2> HIDE DEF q
  <2>3. \A j \in 1..n : Follows(q[j - 1], cs[j], q[j], sent2, again2)
    BY <1>2, <2>2 DEF Follows
  <2>4. q[n].refused
    BY <1>2, <2>1
  <2> QED BY <2>1, <2>3, <2>4
<1>3. CASE ~r.refused /\ Refusal(rc, f) # "none"
  <2> DEFINE e == [r EXCEPT !.refused = TRUE]
             q == [j \in 0..n |-> IF j = 0 THEN r ELSE e]
  <2>1. e \in ReaderStates /\ e.refused
    BY DEF ReaderStates
  <2> HIDE DEF e
  <2>2. q \in [0..n -> ReaderStates] /\ q[0] = r /\ \A j \in 1..n : q[j] = e
    BY <2>1
  <2>3. \A j \in 1..n : q[j - 1] = IF j = 1 THEN r ELSE e
    BY <2>2
  <2> HIDE DEF q
  <2>4. SameStream(m.cs, wc, rc, restarted)
    BY <1>1, <1>3 DEF Agrees
  <2>5. Refusal(rc, f) = "no previous delta" /\ m.cs \in restarted /\ f.cs = m.cs
    <3> HIDE DEF wc, rc, q
    <3> QED BY <1>1, <1>3, <2>4, FirstChunkRefused
  <2>6. Follows(r, f, e, sent2, again2)
    <3>1. r.cs[f.cs] = rc /\ again2 # {}
      BY <2>5
    <3> HIDE DEF rc, f
    <3> QED BY <1>3, <2>1, <2>5, <3>1 DEF Follows
  <2>7. \A j \in 1..n : Follows(q[j - 1], cs[j], q[j], sent2, again2)
    <3> SUFFICES ASSUME NEW j \in 1..n PROVE Follows(q[j - 1], cs[j], q[j], sent2, again2)
      OBVIOUS
    <3>1. CASE j = 1
      BY <2>2, <2>3, <2>6, <3>1
    <3>2. CASE j # 1
      BY <2>1, <2>2, <2>3, <3>2 DEF Follows
    <3> QED BY <3>1, <3>2
  <2>8. q[n].refused
    BY <1>1, <2>1, <2>2
  <2> QED BY <2>2, <2>7, <2>8
<1>4. CASE ~r.refused /\ Refusal(rc, f) = "none"
  <2> DEFINE size2 == IF m = SetChunkSize THEN NewChunkSize ELSE wSize
             recv(j) == IF j = n THEN 0 ELSE j * wSize
             state(j) == [cs |-> [r.cs EXCEPT ![m.cs] = Held(rc, f, m, recv(j))],
                          size |-> IF j = n THEN size2 ELSE wSize,
                          n |-> IF j = n THEN Len(written) + 1 ELSE Len(written),
                          refused |-> FALSE]
             q == [j \in 0..n |-> IF j = 0 THEN r ELSE state(j)]
  <2>1. /\ r.size = wSize /\ r.n = Len(written)
        /\ \A s \in Streams : SameStream(s, wcs[s], r.cs[s], restarted)
    BY <1>4 DEF Agrees
  <2>2. /\ Len(written) \in Nat /\ Len(sent2) = Len(written) + 1
        /\ sent2[Len(written) + 1] = m /\ size2 \in Nat \ {0}
    <3>1. written \in Seq(Messages) /\ wSize \in Nat \ {0} /\ NewChunkSize \in Nat \ {0}
      BY RtmpChunksAssumption DEF ChunkTypes
    <3>2. Len(written) \in Nat
      BY <3>1
    <3>3. Len(sent2) = Len(written) + 1 /\ sent2[Len(written) + 1] = m
      BY <3>1
    <3> QED BY <3>1, <3>2, <3>3
  <2>3. /\ f \in Chunks /\ f.cs = m.cs
        /\ f.body = ExpectedLen(rc, f, wSize) /\ f.ext = ExpectedExt(rc, f)
        /\ AfterChunk(rc, f) = Held(rc, f, m, IF m.len <= wSize THEN 0 ELSE wSize)
    <3>1. SameStream(m.cs, wc, rc, restarted)
      BY <1>1, <2>1
    <3> HIDE DEF wc, rc
    <3> QED BY <1>1, <1>4, <3>1, FirstChunkRead
  <2>4. \A i \in 1..x :
           LET c == RestChunks(wc, m)[i]
               h == Held(rc, f, m, i * wSize)
           IN  /\ c.cs = m.cs /\ Refusal(h, c) = "none"
               /\ c.body = ExpectedLen(h, c, wSize) /\ c.ext = ExpectedExt(h, c)
               /\ AfterChunk(h, c) = Held(rc, f, m, IF i = x THEN 0 ELSE (i + 1) * wSize)
               /\ (i + 1) * wSize \in Nat \ {0}
    <3>1. wc \in WriterStreams /\ rc \in ReaderStreams /\ wSize \in Nat \ {0}
      BY <1>1
    <3> HIDE <1>a
    <3> HIDE DEF wc, rc
    <3> QED BY <3>1, RestChunkRead
  <2>5. (m.len <= wSize) <=> (x = 0)
    <3>1. m.len > wSize => (m.len - 1) \div wSize \in Nat \ {0}
      BY <1>1, ChunkCount
    <3> QED BY <1>1, <3>1 DEF RestCount
  <2>6. Reduced(m) = [cs |-> m.cs, typ |-> m.typ, ms |-> m.ms, len |-> m.len, ts |-> m.ts % TsMod]
        /\ (m.typ = "setChunkSize" <=> m = SetChunkSize)
    BY MessageTyped
  <2>7. \A j \in 1..n : recv(j) \in Nat /\ (recv(j) = 0 <=> j = n)
    <3>1. \A j \in 1..n : j # n => j * wSize \in Nat \ {0}
      <4> SUFFICES ASSUME NEW j \in 1..n, j # n PROVE j * wSize \in Nat \ {0}
        OBVIOUS
      <4>1. CASE j = 1
        BY <1>1, <4>1
      <4>2. CASE j # 1
        <5>1. j - 1 \in 1..x /\ (j - 1) + 1 = j
          BY <1>1, <4>2
        <5> QED BY <2>4, <5>1
      <4> QED BY <4>1, <4>2
    <3> QED BY <1>1, <3>1
  <2> HIDE DEF wc, rc, f, x, size2
  <2>8. ASSUME NEW j \in 1..n PROVE state(j) \in ReaderStates
    <3>1. Held(rc, f, m, recv(j)) \in ReaderStreams
      BY <1>1, <2>3, <2>7, HeldTyped
    <3> HIDE DEF recv
    <3>2. [r.cs EXCEPT ![m.cs] = Held(rc, f, m, recv(j))] \in [Streams -> ReaderStreams]
      BY <1>1, <3>1
    <3>3. (IF j = n THEN size2 ELSE wSize) \in Nat \ {0}
          /\ (IF j = n THEN Len(written) + 1 ELSE Len(written)) \in Nat
      BY <1>1, <2>2
    <3> QED BY Zenon, <3>2, <3>3 DEF ReaderStates
  <2> HIDE DEF recv
  <2>9. /\ q \in [0..n -> ReaderStates] /\ q[0] = r
        /\ \A j \in 1..n : q[j] = state(j)
    <3> HIDE DEF state
    <3> QED BY <2>8
  \* A chunk after which the stream holds h2 is followed by the state after it.
  <2>11. ASSUME NEW a \in ReaderStates, NEW c, NEW h, NEW j \in 1..n,
                c.cs = m.cs, a.cs[m.cs] = h, ~a.refused, a.size = wSize, a.n = Len(written),
                Refusal(h, c) = "none", c.body = ExpectedLen(h, c, wSize),
                c.ext = ExpectedExt(h, c), AfterChunk(h, c) = Held(rc, f, m, recv(j)),
                [a.cs EXCEPT ![m.cs] = Held(rc, f, m, recv(j))]
                  = [r.cs EXCEPT ![m.cs] = Held(rc, f, m, recv(j))]
         PROVE  Follows(a, c, state(j), sent2, again2)
    <3> DEFINE b == state(j)
    <3>1. /\ ~b.refused /\ b.cs = [r.cs EXCEPT ![m.cs] = Held(rc, f, m, recv(j))]
          /\ b.size = (IF j = n THEN size2 ELSE wSize)
          /\ b.n = (IF j = n THEN Len(written) + 1 ELSE Len(written))
      OBVIOUS
    <3>2. AfterChunk(h, c).recv = recv(j)
      BY <2>11 DEF Held
    <3>3. Complete(h, c) = Reduced(m)
      BY <2>6, <2>11 DEF Complete, Held
    <3>4. Complete(h, c).typ = "setChunkSize" <=> m = SetChunkSize
      BY <2>6, <3>3
    <3>5. ASSUME j = n PROVE /\ b.n = a.n + 1 /\ b.n <= Len(sent2) /\ Complete(h, c) = Reduced(sent2[b.n])
                             /\ b.size = IF Complete(h, c).typ = "setChunkSize"
                                         THEN NewChunkSize ELSE a.size
      <4> HIDE DEF b
      <4> QED BY <2>2, <2>11, <3>1, <3>3, <3>4, <3>5 DEF size2
    <3>6. AfterChunk(h, c).recv = 0 <=> j = n
      BY <2>7, <3>2
    <3>7. b.cs = [a.cs EXCEPT ![c.cs] = AfterChunk(a.cs[c.cs], c)]
      BY <2>11, <3>1
    <3>8. a.cs[c.cs] = h
      BY <2>11
    <3> HIDE DEF b
    <3>9. j # n => b.n = a.n /\ b.size = a.size
      BY <2>11, <3>1
    <3>10. Follows(a, c, b, sent2, again2)
      BY Zenon, <2>11, <3>1, <3>5, <3>6, <3>7, <3>8, <3>9 DEF Follows
    <3> QED BY <3>10 DEF b
  <2>12. ASSUME NEW j \in 1..n PROVE Follows(q[j - 1], cs[j], q[j], sent2, again2)
    <3>1. CASE j = 1
      <4>1. q[j - 1] = r /\ q[j] = state(j) /\ cs[j] = f
        BY <2>9, <3>1 DEF f, wc
      <4>2. recv(1) = IF m.len <= wSize THEN 0 ELSE wSize
        BY <1>1, <2>5 DEF recv
      <4>3. AfterChunk(rc, f) = Held(rc, f, m, recv(1))
        BY <2>3, <4>2
      <4>4. r.cs[m.cs] = rc
        BY DEF rc
      <4> HIDE DEF state, q
      <4>5. Follows(r, f, state(j), sent2, again2)
        BY <1>4, <2>1, <2>3, <2>11, <3>1, <4>3, <4>4
      <4> QED BY <4>1, <4>5
    <3>2. CASE j # 1
      <4> DEFINE i == j - 1
                 c == RestChunks(wc, m)[i]
                 h == Held(rc, f, m, i * wSize)
      <4>1. i \in 1..x /\ i \in 1..n /\ i + 1 = j /\ i # n /\ (i = x <=> j = n)
        BY <1>1, <3>2
      <4>2. q[j - 1] = state(i) /\ q[j] = state(j)
        BY <2>9, <4>1
      <4>3. cs[j] = c
        <5>1. cs[i + 1] = RestChunks(wcs[m.cs], m)[i]
          BY <4>1 DEF x
        <5> QED BY <4>1, <5>1 DEF wc
      <4>4. /\ c.cs = m.cs /\ Refusal(h, c) = "none"
            /\ c.body = ExpectedLen(h, c, wSize) /\ c.ext = ExpectedExt(h, c)
            /\ AfterChunk(h, c) = Held(rc, f, m, IF i = x THEN 0 ELSE (i + 1) * wSize)
        BY <2>4, <4>1
      <4>5. recv(i) = i * wSize /\ recv(j) = IF i = x THEN 0 ELSE (i + 1) * wSize
        BY <4>1 DEF recv
      <4>6. /\ state(i).cs = [r.cs EXCEPT ![m.cs] = h] /\ ~state(i).refused
            /\ state(i).size = wSize /\ state(i).n = Len(written)
        BY <4>1, <4>5
      <4>7. state(i) \in ReaderStates
        BY <2>8, <4>1
      <4> HIDE DEF state, q, c, h, i
      <4>8. state(i).cs[m.cs] = h
        BY <1>1, <4>6
      <4>9. [state(i).cs EXCEPT ![m.cs] = Held(rc, f, m, recv(j))]
              = [r.cs EXCEPT ![m.cs] = Held(rc, f, m, recv(j))]
        BY <1>1, <4>6
      <4>10. AfterChunk(h, c) = Held(rc, f, m, recv(j))
        BY <4>4, <4>5
      <4>11. Follows(state(i), c, state(j), sent2, again2)
        BY <2>11, <4>4, <4>6, <4>7, <4>8, <4>9, <4>10
      <4> QED BY <4>2, <4>3, <4>11
    <3> QED BY <3>1, <3>2
  <2>13. q[n].size = size2 /\ q[n].n = Len(sent2)
    BY <1>1, <2>2, <2>9
  <2>14. ASSUME NEW s \in Streams
         PROVE SameStream(s, [wcs EXCEPT ![m.cs] = Remembered(wcs[m.cs], m)][s], q[n].cs[s], again2)
    <3>1. q[n].cs = [r.cs EXCEPT ![m.cs] = Held(rc, f, m, 0)]
      BY <1>1, <2>9 DEF recv
    <3>2. wcs \in [Streams -> WriterStreams]
      BY DEF ChunkTypes
    <3> HIDE DEF q, state
    <3>3. CASE s = m.cs
      <4>1. SameStream(s, Remembered(wc, m), Held(rc, f, m, 0), again2)
        BY <1>1, <1>4, <2>1, <3>3, AgreeAgain DEF f, wc, rc
      <4>2. q[n].cs[s] = Held(rc, f, m, 0)
            /\ [wcs EXCEPT ![m.cs] = Remembered(wcs[m.cs], m)][s] = Remembered(wc, m)
        BY <1>1, <3>1, <3>2, <3>3 DEF wc
      <4> QED BY <4>1, <4>2
    <3>4. CASE s # m.cs
      <4>1. q[n].cs[s] = r.cs[s] /\ [wcs EXCEPT ![m.cs] = Remembered(wcs[m.cs], m)][s] = wcs[s]
        BY <1>1, <3>1, <3>2, <3>4
      <4>2. SameStream(s, wcs[s], r.cs[s], again2)
        BY <2>1 DEF SameStream
      <4> QED BY <4>1, <4>2
    <3> QED BY <3>3, <3>4
  <2> HIDE DEF q, state
  <2> QED BY <2>9, <2>12, <2>13, <2>14 DEF size2
<1> QED BY <1>1, <1>2, <1>3, <1>4


LEMMA ChunksInitInv == ChunksInit => ChunksInv
<1> SUFFICES ASSUME ChunksInit PROVE ChunksInv
  OBVIOUS
<1>1. /\ wcs = [s \in Streams |-> WriterStream] /\ rcs = [s \in Streams |-> ReaderStream]
      /\ wSize = 2 /\ rSize = 2 /\ wire = <<>> /\ rErr = "none" /\ written = <<>> /\ read = <<>>
      /\ restarted = {}
  BY DEF ChunksInit
<1>2. WriterStream \in WriterStreams /\ WriterStream.delta = Nil /\ ~WriterStream.used
  BY DEF WriterStream, WriterStreams, MessageTypes, MessageOwners
<1>3. ReaderStream \in ReaderStreams /\ ReaderStream.recv = 0
  BY RtmpChunksAssumption DEF ReaderStream, ReaderStreams, MessageTypes, MessageOwners
<1>4. ChunkTypes
  BY <1>1, <1>2, <1>3 DEF ChunkTypes
<1>5. ReadIsWritten
  BY <1>1 DEF ReadIsWritten
<1> DEFINE r == [cs |-> rcs, size |-> rSize, n |-> Len(read), refused |-> FALSE]
           rs == [j \in 0..0 |-> r]
<1>6. r \in ReaderStates /\ r.size = 2 /\ r.n = 0 /\ r.cs = rcs
  BY <1>1, <1>3 DEF ReaderStates
<1>7. Agrees(r)
  <2>1. \A s \in Streams : SameStream(s, wcs[s], r.cs[s], restarted)
    BY <1>1, <1>2, <1>3, <1>6 DEF SameStream
  <2> QED BY <1>1, <1>6, <2>1 DEF Agrees
<1>8. Len(wire) = 0
  BY <1>1
<1>9. rs \in [0..0 -> ReaderStates] /\ rs[0] = r
  <2> HIDE DEF r
  <2> QED BY <1>6
<1>10. Ahead(rs)
  <2> HIDE DEF rs
  <2> QED BY <1>7, <1>8, <1>9 DEF Ahead
<1> QED BY <1>4, <1>5, <1>10 DEF ChunksInv

LEMMA WriteInv == ASSUME ChunksInv, NEW m \in Messages, WriteMessage(m) PROVE ChunksInv'
<1> DEFINE wc == wcs[m.cs]
           f == FirstChunk(wc, m)
           t == RestChunks(wc, m)
           x == RestCount(m)
<1>1. /\ wire' = wire \o <<f>> \o t /\ wcs' = [wcs EXCEPT ![m.cs] = Remembered(wc, m)]
      /\ wSize' = (IF m = SetChunkSize THEN NewChunkSize ELSE wSize)
      /\ written' = Append(written, m)
      /\ restarted' = (IF wc.used /\ FirstChunkType(wc, m) = 0
                       THEN restarted \cup {m.cs} ELSE restarted)
      /\ rcs' = rcs /\ rSize' = rSize /\ rErr' = rErr /\ read' = read
  BY Zenon DEF WriteMessage
<1>2. ChunkTypes /\ ReadIsWritten
  BY DEF ChunksInv
<1>3. /\ m.cs \in Streams /\ m.len \in Nat /\ wc \in WriterStreams /\ wSize \in Nat \ {0}
      /\ wire \in Seq(Chunks) /\ written \in Seq(Messages) /\ read \in Seq(ReadMessages)
      /\ wcs \in [Streams -> WriterStreams] /\ NewChunkSize \in Nat \ {0}
      /\ restarted \subseteq Streams /\ Len(wire) \in Nat /\ Len(written) \in Nat /\ Len(read) \in Nat
  <2>1. m.cs \in Streams /\ m.len \in Nat
    BY MessageTyped
  <2>2. /\ wSize \in Nat \ {0} /\ restarted \subseteq Streams
        /\ wire \in Seq(Chunks) /\ written \in Seq(Messages) /\ read \in Seq(ReadMessages)
        /\ wcs \in [Streams -> WriterStreams]
    BY <1>2 DEF ChunkTypes
  <2>3. wcs[m.cs] \in WriterStreams
    BY <2>1, <2>2
  <2>4. NewChunkSize \in Nat \ {0}
    BY RtmpChunksAssumption
  <2>5. Len(wire) \in Nat /\ Len(written) \in Nat /\ Len(read) \in Nat
    BY <2>2
  <2> QED BY <2>1, <2>2, <2>3, <2>4, <2>5
<1>4. x \in Nat /\ t \in Seq(Chunks) /\ Len(t) = x
  BY <1>3, RestTyped
<1>5. f \in Chunks
  <2>1. /\ FirstChunkType(wc, m) \in 0..3 /\ TimeField(wc, m) \in 0..(TsMod - 1)
        /\ HasExtended(wc, m) \in BOOLEAN
    BY <1>3, FirstTypeIs
  <2>2. m.typ \in MessageTypes /\ m.ms \in MessageOwners
    BY MessageTyped
  <2>3. Least(m.len, wSize) \in Nat
    BY <1>3 DEF Least
  <2>4. (IF FirstChunkType(wc, m) = 3 THEN 0 ELSE TimeField(wc, m)) \in 0..(TsMod - 1)
    BY <2>1, RtmpChunksAssumption
  <2> HIDE DEF wc
  <2> QED BY Zenon, <1>3, <2>1, <2>2, <2>3, <2>4 DEF FirstChunk, Chunks
<1>6. Remembered(wc, m) \in WriterStreams
  <2>1. /\ DeltaOf(wc, m) = Nil \/ DeltaOf(wc, m) \in Nat
        /\ HasExtended(wc, m) \in BOOLEAN
    BY <1>3, FirstTypeIs
  <2>2. m.typ \in MessageTypes /\ m.ms \in MessageOwners /\ m.ts \in Nat
    BY MessageTyped
  <2>3. wc.delta \in Nat \cup {Nil}
    BY <1>3 DEF WriterStreams
  <2>4. (IF DeltaOf(wc, m) = Nil THEN wc.delta ELSE DeltaOf(wc, m)) \in Nat \cup {Nil}
    BY <2>1, <2>3
  <2> HIDE DEF wc
  <2> QED BY Zenon, <1>3, <2>1, <2>2, <2>4 DEF Remembered, WriterStreams
<1> HIDE DEF wc, f, t, x
<1>7. /\ wire' \in Seq(Chunks) /\ Len(wire') = Len(wire) + (1 + x)
      /\ \A j \in 1..Len(wire) : wire'[j] = wire[j]
      /\ wire'[Len(wire) + 1] = f
      /\ \A i \in 1..x : wire'[Len(wire) + 1 + i] = t[i]
  <2>1. wire' = wire \o <<f>> \o t /\ wire \in Seq(Chunks) /\ t \in Seq(Chunks)
    BY <1>1, <1>3, <1>4
  <2> DEFINE u == wire \o <<f>> \o t
  <2>2. /\ u \in Seq(Chunks) /\ Len(u) = Len(wire) + 1 + Len(t)
        /\ \A j \in 1..Len(wire) : u[j] = wire[j]
        /\ u[Len(wire) + 1] = f
        /\ \A i \in 1..Len(t) : u[Len(wire) + 1 + i] = t[i]
    BY <1>5, <2>1, ChunksAppended
  <2> HIDE DEF u
  <2>3. Len(t) = x /\ x \in Nat /\ Len(wire) \in Nat
    BY <1>3, <1>4
  <2>4. wire' = u
    BY <2>1 DEF u
  <2> QED BY <2>2, <2>3, <2>4
<1>8. /\ written' \in Seq(Messages) /\ Len(written') = Len(written) + 1
      /\ \A i \in 1..Len(written) : written'[i] = written[i]
  BY <1>1, <1>3
<1>9. restarted \subseteq restarted' /\ restarted' \subseteq Streams
  BY <1>1, <1>3
<1>10. ChunkTypes'
  <2>1. wcs' \in [Streams -> WriterStreams]
    BY <1>1, <1>3, <1>6
  <2>2. wSize' \in Nat \ {0}
    BY <1>1, <1>3
  <2> QED BY <1>1, <1>2, <1>7, <1>8, <1>9, <2>1, <2>2 DEF ChunkTypes
<1>11. ReadIsWritten'
  <2>0. /\ Len(read) <= Len(written) /\ Len(read) \in Nat /\ Len(written) \in Nat
        /\ read' = read /\ Len(written') = Len(written) + 1
    BY <1>1, <1>2, <1>3, <1>8 DEF ReadIsWritten
  <2>1. Len(read') <= Len(written')
    BY <2>0
  <2>2. \A i \in 1..Len(read) : i \in 1..Len(written)
    BY <2>0
  <2>3. \A i \in 1..Len(read') : read'[i] = [written'[i] EXCEPT !.ts = @ % TsMod]
    BY <1>1, <1>2, <1>8, <2>2 DEF ReadIsWritten
  <2> QED BY <1>1, <1>2, <1>9, <2>1, <2>3 DEF ReadIsWritten
<1>12. ASSUME rErr' = "none" PROVE \E rs : Ahead(rs)'
  <2>1. PICK rs : Ahead(rs)
    BY <1>1, <1>12 DEF ChunksInv
  <2> DEFINE k == Len(wire)
             n == 1 + x
             r == [cs |-> rcs, size |-> rSize, n |-> Len(read), refused |-> FALSE]
             cs == [j \in 1..n |-> wire'[k + j]]
  <2>2. /\ rs \in [0..k -> ReaderStates] /\ rs[0] = r
        /\ \A j \in 1..k : Follows(rs[j - 1], wire[j], rs[j], written, restarted)
        /\ Agrees(rs[k]) /\ rs[k] \in ReaderStates
    BY <1>3, <2>1 DEF Ahead
  <2>3. n \in Nat /\ n = 1 + RestCount(m)
    BY <1>4 DEF x
  <2>4. cs[1] = FirstChunk(wcs[m.cs], m)
    BY <1>4, <1>7 DEF f, wc
  <2>5. \A i \in 1..RestCount(m) : cs[i + 1] = RestChunks(wcs[m.cs], m)[i]
    <3> SUFFICES ASSUME NEW i \in 1..x PROVE cs[i + 1] = t[i]
      BY DEF x, t, wc
    <3>1. i + 1 \in 1..(1 + x) /\ k + (i + 1) = k + 1 + i
      BY <1>3, <1>4
    <3> QED BY <1>7, <3>1
  <2>6. wcs[m.cs].used /\ FirstChunkType(wcs[m.cs], m) = 0 => m.cs \in restarted'
    BY <1>1 DEF wc
  <2>7. /\ wcs' = [wcs EXCEPT ![m.cs] = Remembered(wcs[m.cs], m)]
        /\ written' = Append(written, m)
    BY <1>1 DEF wc
  <2>8. \A j \in 1..n : cs[j] = wire'[k + j] /\ 0 + j = j
    BY <2>3
  <2>9. k \in Nat /\ Len(wire') = k + n /\ \A j \in 1..k : wire'[j] = wire[j]
    BY <1>3, <1>4, <1>7
  <2> HIDE DEF k, cs, n, r
  <2>10. Sends(m, cs, n, written', restarted')
    BY <1>9, <2>3, <2>4, <2>5, <2>6, <2>7 DEF Sends
  <2>11. PICK q : /\ Takes(q, n, rs[k], cs, 0, written', restarted')
                  /\ AgreesAfter(m, q[n], written', restarted')
    BY <1>2, <2>2, <2>10, MessageTaken
  <2>12. Takes(q, n, rs[k], wire', k, written', restarted')
    BY <2>8, <2>11 DEF Takes
  <2>13. Takes(rs, k, r, wire, 0, written, restarted)
    <3>1. \A j \in 1..k : 0 + j = j
      BY <2>9
    <3> QED BY <2>2, <3>1 DEF Takes
  <2>14. PICK rs2 : /\ Takes(rs2, k + n, r, wire', 0, written', restarted')
                    /\ rs2[k + n] = q[n]
    <3>1. Later(written, restarted, written', restarted')
      BY <1>3, <1>8, <1>9 DEF Later
    <3>2. k \in Nat /\ n \in Nat /\ SameUpTo(k, wire, wire')
      BY <2>3, <2>9 DEF SameUpTo
    <3>3. \E rs2 : Takes(rs2, k + n, r, wire', 0, written', restarted') /\ rs2[k + n] = q[n]
      BY <2>12, <2>13, <3>1, <3>2, TakesExtends
    <3> QED BY <3>3
  <2>15. /\ rs2 \in [0..Len(wire') -> ReaderStates] /\ rs2[0] = r
         /\ \A j \in 1..Len(wire') : Follows(rs2[j - 1], wire'[j], rs2[j], written', restarted')
    <3>1. \A j \in 1..(k + n) : 0 + j = j
      BY <2>3, <2>9
    <3> QED BY <2>9, <2>14, <3>1 DEF Takes
  <2>16. r = [cs |-> rcs', size |-> rSize', n |-> Len(read'), refused |-> FALSE]
    BY <1>1 DEF r
  <2>17. ~rs2[Len(wire')].refused =>
               /\ rs2[Len(wire')].size = wSize' /\ rs2[Len(wire')].n = Len(written')
               /\ \A s \in Streams : SameStream(s, wcs'[s], rs2[Len(wire')].cs[s], restarted')
    BY <1>1, <2>7, <2>9, <2>11, <2>14 DEF AgreesAfter
  <2> QED BY Zenon, <2>15, <2>16, <2>17 DEF Ahead, Agrees
<1> QED BY <1>10, <1>11, <1>12 DEF ChunksInv

LEMMA ReadInv == ASSUME ChunksInv, ReadChunk PROVE ChunksInv'
<1> DEFINE c == Head(wire)
           rc == rcs[c.cs]
           k == Len(wire)
<1>1. /\ wire # <<>> /\ rErr = "none" /\ wire' = Tail(wire)
      /\ wcs' = wcs /\ wSize' = wSize /\ written' = written /\ restarted' = restarted
  BY Zenon DEF ReadChunk
<1>2. ChunkTypes /\ ReadIsWritten
  BY DEF ChunksInv
<1>3. /\ wire \in Seq(Chunks) /\ k \in Nat \ {0} /\ c = wire[1] /\ c \in Chunks
      /\ wire' \in Seq(Chunks) /\ Len(wire') = k - 1
      /\ \A j \in 1..(k - 1) : wire'[j] = wire[j + 1]
      /\ read \in Seq(ReadMessages) /\ Len(read) \in Nat /\ written \in Seq(Messages)
      /\ Len(written) \in Nat
  BY <1>1, <1>2 DEF ChunkTypes
<1>4. PICK rs : Ahead(rs)
  BY <1>1 DEF ChunksInv
<1> DEFINE r == [cs |-> rcs, size |-> rSize, n |-> Len(read), refused |-> FALSE]
           q == rs[1]
<1>5. /\ rs \in [0..k -> ReaderStates] /\ rs[0] = r
      /\ \A j \in 1..k : Follows(rs[j - 1], wire[j], rs[j], written, restarted)
      /\ Agrees(rs[k])
  BY <1>4 DEF Ahead
<1>6. Follows(r, c, q, written, restarted) /\ q \in ReaderStates
  <2>1. 1 \in 1..k /\ 1 - 1 = 0 /\ 1 \in 0..k
    BY <1>3
  <2> HIDE DEF r, c, k
  <2> QED BY <1>3, <1>5, <2>1
<1>7. r.cs = rcs /\ r.size = rSize /\ r.n = Len(read) /\ ~r.refused
  OBVIOUS
<1> HIDE DEF c, r, q, k
<1>8. /\ Refusal(rc, c) # "none" => q.refused /\ Refusal(rc, c) = "no previous delta"
                                    /\ restarted # {}
      /\ Refusal(rc, c) = "none" =>
           /\ ~q.refused
           /\ c.body = ExpectedLen(rc, c, rSize) /\ c.ext = ExpectedExt(rc, c)
           /\ q.cs = [rcs EXCEPT ![c.cs] = AfterChunk(rc, c)]
           /\ AfterChunk(rc, c).recv # 0 => q.n = Len(read) /\ q.size = rSize
           /\ AfterChunk(rc, c).recv = 0 =>
                /\ q.n = Len(read) + 1 /\ q.n <= Len(written)
                /\ Complete(rc, c) = Reduced(written[q.n])
                /\ q.size = IF Complete(rc, c).typ = "setChunkSize" THEN NewChunkSize ELSE rSize
  BY Zenon, <1>6, <1>7 DEF Follows
<1> HIDE DEF rc
<1>9. CASE Refusal(rc, c) # "none"
  <2>1. rErr' = Refusal(rc, c) /\ rcs' = rcs /\ rSize' = rSize /\ read' = read
    BY Zenon, <1>9 DEF ReadChunk, rc, c
  <2>2. rErr' = "no previous delta" /\ restarted # {}
    BY <1>8, <1>9, <2>1
  <2>3. ChunkTypes'
    BY <1>1, <1>2, <1>3, <2>1, <2>2 DEF ChunkTypes
  <2>4. ReadIsWritten'
    BY <1>1, <1>2, <2>1, <2>2 DEF ReadIsWritten
  <2> QED BY <2>2, <2>3, <2>4 DEF ChunksInv
<1>10. CASE Refusal(rc, c) = "none"
  <2>1. /\ rcs' = [rcs EXCEPT ![c.cs] = AfterChunk(rc, c)] /\ rErr' = rErr
        /\ AfterChunk(rc, c).recv # 0 => read' = read /\ rSize' = rSize
        /\ AfterChunk(rc, c).recv = 0 =>
             /\ read' = Append(read, Complete(rc, c))
             /\ rSize' = IF Complete(rc, c).typ = "setChunkSize" THEN NewChunkSize ELSE rSize
    <3>1. ~(c.body # ExpectedLen(rc, c, rSize) \/ c.ext # ExpectedExt(rc, c))
      BY <1>8, <1>10
    <3>2. ~(Refusal(rc, c) # "none")
      BY <1>10
    <3> QED BY Zenon, <3>1, <3>2 DEF ReadChunk, rc, c
  <2>2. q.cs = rcs' /\ q.size = rSize' /\ ~q.refused
    BY <1>8, <1>10, <2>1
  <2>3. /\ read' \in Seq(ReadMessages) /\ q.n = Len(read') /\ Len(read') <= Len(written)
        /\ \A i \in 1..Len(read') : read'[i] = [written[i] EXCEPT !.ts = @ % TsMod]
    <3>1. CASE AfterChunk(rc, c).recv # 0
      BY <1>2, <1>3, <1>8, <1>10, <2>1, <3>1 DEF ReadIsWritten
    <3>2. CASE AfterChunk(rc, c).recv = 0
      <4> DEFINE m == Complete(rc, c)
      <4>1. /\ read' = Append(read, m) /\ q.n = Len(read) + 1 /\ Len(read) + 1 <= Len(written)
            /\ m = Reduced(written[Len(read) + 1])
        BY <1>8, <1>10, <2>1, <3>2
      <4>2. written[Len(read) + 1] \in Messages
        BY <1>3, <4>1
      <4>3. m \in ReadMessages
        <5> DEFINE a == written[Len(read) + 1]
        <5>1. /\ m = [cs |-> a.cs, typ |-> a.typ, ms |-> a.ms, len |-> a.len, ts |-> a.ts % TsMod]
              /\ a.cs \in Streams /\ a.typ \in MessageTypes /\ a.ms \in MessageOwners
              /\ a.len \in Nat /\ a.ts \in Nat
          BY <4>1, <4>2, MessageTyped
        <5>2. (a.ts % TsMod) \in 0..(TsMod - 1)
          BY <5>1, Quotient, RtmpChunksAssumption
        <5> HIDE DEF a, m
        <5> QED BY Zenon, <5>1, <5>2 DEF ReadMessages
      <4> HIDE DEF m
      <4>4. /\ read' \in Seq(ReadMessages) /\ Len(read') = Len(read) + 1
            /\ \A i \in 1..Len(read) : read'[i] = read[i]
            /\ read'[Len(read) + 1] = m
        BY <1>3, <4>1, <4>3
      <4>5. \A i \in 1..Len(read') : read'[i] = [written[i] EXCEPT !.ts = @ % TsMod]
        <5> SUFFICES ASSUME NEW i \in 1..Len(read')
                     PROVE read'[i] = [written[i] EXCEPT !.ts = @ % TsMod]
          OBVIOUS
        <5>1. CASE i = Len(read) + 1
          BY <4>1, <4>4, <5>1 DEF Reduced
        <5>2. CASE i # Len(read) + 1
          <6>1. i \in 1..Len(read)
            BY <1>3, <4>4, <5>2
          <6> QED BY <1>2, <4>4, <6>1 DEF ReadIsWritten
        <5> QED BY <5>1, <5>2
      <4> QED BY <1>3, <4>1, <4>4, <4>5
    <3> QED BY <3>1, <3>2
  <2>4. rcs' \in [Streams -> ReaderStreams] /\ rSize' \in Nat \ {0}
    BY <1>6, <2>2 DEF ReaderStates
  <2>5. ChunkTypes'
    BY <1>1, <1>2, <1>3, <2>1, <2>3, <2>4 DEF ChunkTypes
  <2>6. ReadIsWritten'
    BY <1>1, <1>2, <2>1, <2>3 DEF ReadIsWritten
  <2>7. q = [cs |-> rcs', size |-> rSize', n |-> Len(read'), refused |-> FALSE]
    BY <1>6, <2>2, <2>3 DEF ReaderStates
  <2> DEFINE rs2 == [j \in 0..(k - 1) |-> rs[j + 1]]
  <2>8. rs2 \in [0..(k - 1) -> ReaderStates] /\ \A j \in 0..(k - 1) : rs2[j] = rs[j + 1]
    BY <1>3, <1>5
  <2>9. rs2[0] = q /\ rs2[k - 1] = rs[k]
    BY <1>3, <2>8 DEF q
  <2>10. \A j \in 1..(k - 1) : Follows(rs2[j - 1], wire'[j], rs2[j], written', restarted')
    <3> SUFFICES ASSUME NEW j \in 1..(k - 1)
                 PROVE Follows(rs2[j - 1], wire'[j], rs2[j], written', restarted')
      OBVIOUS
    <3>1. j + 1 \in 1..k /\ (j + 1) - 1 = j /\ j - 1 \in 0..(k - 1) /\ (j - 1) + 1 = j
          /\ j \in 0..(k - 1)
      BY <1>3
    <3>2. rs2[j - 1] = rs[j] /\ rs2[j] = rs[j + 1] /\ wire'[j] = wire[j + 1]
      BY <1>3, <2>8, <3>1
    <3>3. Follows(rs[j], wire[j + 1], rs[j + 1], written, restarted)
      BY <1>5, <3>1
    <3> QED BY <1>1, <3>2, <3>3
  <2>11. Len(wire') = k - 1
    BY <1>3
  <2> HIDE DEF rs2
  <2>12. ~rs2[k - 1].refused =>
               /\ rs2[k - 1].size = wSize' /\ rs2[k - 1].n = Len(written')
               /\ \A s \in Streams : SameStream(s, wcs'[s], rs2[k - 1].cs[s], restarted')
    BY Zenon, <1>1, <1>5, <2>9 DEF Agrees
  <2>13. \E g : /\ g \in [0..Len(wire') -> ReaderStates]
                /\ g[0] = [cs |-> rcs', size |-> rSize', n |-> Len(read'), refused |-> FALSE]
                /\ \A j \in 1..Len(wire') : Follows(g[j - 1], wire'[j], g[j], written', restarted')
                /\ ~g[Len(wire')].refused =>
                     /\ g[Len(wire')].size = wSize' /\ g[Len(wire')].n = Len(written')
                     /\ \A s \in Streams : SameStream(s, wcs'[s], g[Len(wire')].cs[s], restarted')
    BY Zenon, <2>7, <2>8, <2>9, <2>10, <2>11, <2>12
  <2>14. \E g : Ahead(g)'
    BY Zenon, <2>13 DEF Ahead, Agrees
  <2> QED BY <2>5, <2>6, <2>14 DEF ChunksInv
<1> QED BY <1>9, <1>10

LEMMA ChunksStepInv == ChunksInv /\ [ChunksNext]_chVars => ChunksInv'
<1> SUFFICES ASSUME ChunksInv, [ChunksNext]_chVars PROVE ChunksInv'
  OBVIOUS
<1>1. CASE WriteAny
  BY <1>1, WriteInv DEF WriteAny
<1>2. CASE ReadChunk
  BY <1>2, ReadInv
<1>3. CASE UNCHANGED chVars
  <2>1. /\ wcs' = wcs /\ wSize' = wSize /\ wire' = wire /\ rcs' = rcs /\ rSize' = rSize
        /\ rErr' = rErr /\ written' = written /\ read' = read /\ restarted' = restarted
    BY <1>3 DEF chVars
  <2>2. ChunkTypes' /\ ReadIsWritten'
    BY <2>1 DEF ChunksInv, ChunkTypes, ReadIsWritten
  <2>3. \A rs : Ahead(rs) => Ahead(rs)'
    BY Zenon, <2>1 DEF Ahead, Agrees
  <2> QED BY <2>1, <2>2, <2>3 DEF ChunksInv
<1> QED BY <1>1, <1>2, <1>3 DEF ChunksNext

LEMMA ChunksInvHolds == ChunksSpec => []ChunksInv
  BY ChunksInitInv, ChunksStepInv, PTL DEF ChunksSpec

\* rawmessage: the states of the chunk streams and the sizes keep their types.
THEOREM ChunksTypeCorrect == ChunksSpec => []ChunksTypeOK
<1>1. ChunksInv => ChunksTypeOK
  BY DEF ChunksInv, ChunkTypes, ChunksTypeOK, WriterStreams, ReaderStreams
<1> QED BY <1>1, ChunksInvHolds, PTL

\* rawmessage: for any lengths, times, message and chunk streams and any new
\* chunk size, the reader delivers what was written, in order, with its clock
\* reduced; it fails only after a repeated type 0 chunk, for want of a delta.
THEOREM ReadersGetWhatIsWritten == ChunksSpec => []ReadIsWritten
<1>1. ChunksInv => ReadIsWritten
  BY DEF ChunksInv
<1> QED BY <1>1, ChunksInvHolds, PTL
-----------------------------------------------------------------------------
(* The five together.                                                        *)

mediaVars == <<fpVars, rcVars, pbVars, chVars, mdVars, part>>

\* The components keep their types next to one another.
THEOREM MediaTypesCorrect == MCInit /\ [][MCNext]_mediaVars => []MediaTypesOK
<1>1. MCInit => FpInit /\ RcInit /\ PbInit /\ ChunksInit /\ MediaInit
  BY Zenon DEF MCInit
<1>2. [MCNext]_mediaVars =>
        [FpNext]_fpVars /\ [RcNext]_rcVars /\ [PbNext]_pbVars /\ [ChunksNext]_chVars /\ [MediaNext]_mdVars
  BY Zenon DEF MCNext, mediaVars
<1>3. FpTypeOK /\ RcTypeOK /\ PbTypeOK /\ ChunksTypeOK /\ MediaTypeOK => MediaTypesOK
  BY Zenon DEF MediaTypesOK
<1> QED BY <1>1, <1>2, <1>3, ProcessorTypeCorrect, RecorderTypeCorrect, StoreTypeCorrect,
           ChunksTypeCorrect, MediaTypeCorrect, PTL
        DEF FpSpec, RcSpec, PbSpec, ChunksSpec, MediaSpec
=============================================================================
