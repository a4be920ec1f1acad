------------------------------ MODULE Recorder ------------------------------
(***************************************************************************)
(* The recorder of mediamtx (internal/recorder): an instance reads the     *)
(* stream and writes segments, as fMP4 (samples are collected in parts, a  *)
(* part is written when it is long enough, the header of the file comes    *)
(* with the first part) or as MPEG-TS (samples go through a buffer).  When *)
(* a callback fails the instance ends, and after a pause another begins.   *)
(*                                                                         *)
(* There are a video and an audio track; their samples have even and odd   *)
(* decoding times.  Each step of a write on the disk may fail.             *)
(***************************************************************************)
EXTENDS Naturals, Sequences, FiniteSets, SequencesExt

CONSTANTS RcFormats,       \* the formats that are explored
          RcVideo, RcAudio,  \* the codecs that are explored
          MaxDts, MaxRcFaults

ASSUME RcBounds ==
    RcFormats \subseteq {"fmp4", "mpegts"} /\ MaxDts \in Nat /\ MaxRcFaults \in Nat

VARIABLES rcFormat, rcCodecs,    \* format; track |-> codec
          rcInst,      \* "running", "paused" or "closed"
          rcSeg,       \* currentSegment, or NoSeg
          rcNext,      \* track |-> nextSample (fMP4), <<>> or <<sample>>
          rcVer,       \* track |-> version of the parameters of the codec, which only
                       \* a unit with random access renews
          rcSeen,      \* tracks whose first random access unit came
          rcHasVideo,  \* hasVideo
          rcBuf,       \* the samples in the bufio.Writer (MPEG-TS)
          rcFiles,     \* start |-> the file of the segment that began then
          rcTime,      \* track |-> time of its next unit
          rcTaken,     \* the samples that track.write accepted so far
          rcGone,      \* those dropped on purpose: too old, or pending at the end
          rcFaults     \* faults so far

rcVars == <<rcFormat, rcCodecs, rcInst, rcSeg, rcNext, rcVer, rcSeen, rcHasVideo, rcBuf,
            rcFiles, rcTime, rcTaken, rcGone, rcFaults>>

SegmentDuration == 4
PartDuration == 2
RcTracks == {"video", "audio"}
NoSeg == <<>>

-----------------------------------------------------------------------------
\* What the callbacks of the codecs do in fMP4: which units renew the codec
\* parameters ("any", the "first", or "none"), whether recording begins only
\* with a random access unit, and how many samples a unit is split in.
Cb(renews, waits, samples) ==
    [renews |-> renews, waits |-> waits, samples |-> samples]

Fmp4AV1        == Cb("any", TRUE, 1)
Fmp4VP9        == Cb("any", TRUE, 1)
Fmp4H265       == Cb("any", TRUE, 1)
Fmp4H264       == Cb("any", TRUE, 1)
Fmp4MPEG4Video == Cb("any", TRUE, 1)
Fmp4MPEG1Video == Cb("any", TRUE, 1)
Fmp4MJPEG      == Cb("first", FALSE, 1)
Fmp4Opus       == Cb("none", FALSE, 2)
Fmp4MPEG4Audio == Cb("none", FALSE, 2)
Fmp4AC3        == Cb("first", FALSE, 2)
Fmp4PCM        == Cb("none", FALSE, 1)

\* The same of MPEG-TS: parameters travel in the stream, a unit is written whole.
TsH26x         == Cb("none", TRUE, 1)
TsOldVideo     == Cb("none", FALSE, 1)
TsAudio        == Cb("none", FALSE, 1)

Callback(format, codec) ==
    IF format = "mpegts"
    THEN CASE codec \in {"h264", "h265"} -> TsH26x
           [] codec \in {"mpeg4video", "mpeg1video"} -> TsOldVideo
           [] OTHER -> TsAudio
    ELSE CASE codec = "av1" -> Fmp4AV1 [] codec = "vp9" -> Fmp4VP9
           [] codec = "h265" -> Fmp4H265 [] codec = "h264" -> Fmp4H264
           [] codec = "mpeg4video" -> Fmp4MPEG4Video [] codec = "mpeg1video" -> Fmp4MPEG1Video
           [] codec = "mjpeg" -> Fmp4MJPEG [] codec = "opus" -> Fmp4Opus
           [] codec = "mpeg4audio" -> Fmp4MPEG4Audio [] codec = "ac3" -> Fmp4AC3 [] OTHER -> Fmp4PCM

\* initialize of the formats: the tracks with a codec the format can hold.
\* (MPEG-1 audio in fMP4 is left out: all the frames of a unit get one and the
\* same time there, twice that of the unit.)
Supported(format, codec) ==
    IF format = "fmp4" THEN codec # "mpeg1audio" ELSE
        codec \in {"h265", "h264", "mpeg4video", "mpeg1video", "opus",
                   "mpeg4audio", "mpeg1audio", "ac3"}

Sample(t, dts, key, ver) == [track |-> t, dts |-> dts, key |-> key, ver |-> ver]
NoFile == [made |-> 0, complete |-> 0, header |-> [t \in RcTracks |-> 0], samples |-> <<>>]

RcInit ==
    /\ rcFormat \in RcFormats /\ rcCodecs \in {[video |-> v, audio |-> a] : v \in RcVideo,
                                                                         a \in RcAudio}
    /\ \A t \in RcTracks : Supported(rcFormat, rcCodecs[t])
    /\ rcInst = "running" /\ rcSeg = NoSeg /\ rcNext = [t \in RcTracks |-> <<>>]
    /\ rcVer = [t \in RcTracks |-> 0] /\ rcSeen = {} /\ rcHasVideo = FALSE /\ rcBuf = <<>>
    /\ rcFiles = [d \in 0..MaxDts |-> NoFile]
    /\ rcTime = [video |-> 0, audio |-> 1]
    /\ rcTaken = {} /\ rcGone = {} /\ rcFaults = 0

-----------------------------------------------------------------------------
\* A callback works on a copy of this state; fault names the write that fails.
Now(fault) == [seg |-> rcSeg, next |-> rcNext, ver |-> rcVer, hasVideo |-> rcHasVideo,
               buf |-> rcBuf, files |-> rcFiles, taken |-> rcTaken, gone |-> rcGone,
               fault |-> fault, err |-> FALSE]

FaultKinds == {"none", "create", "init", "data", "duration", "close"}
Failed(st) == [st EXCEPT !.err = TRUE, !.fault = "none"]

\* formatFMP4Segment and formatFMP4Part, initialize
NewSegment(start) == <<[start |-> start, last |-> start, fi |-> "nil", part |-> <<>>,
                        partStart |-> 0, partEnd |-> 0, flushed |-> start]>>

\* os.Create, which empties a file that exists.
Created(f, ver) == [f EXCEPT !.made = @ + 1, !.samples = <<>>, !.header = ver]

\* os.Create and OnSegmentCreate, and writeInit with the present parameters.
OpenFile(st, withHeader) ==
    LET s == st.seg[1] IN
    IF st.fault = "create" THEN Failed(st)
    ELSE LET created == [st EXCEPT !.files[s.start] = Created(@, st.ver)]
         IN  IF withHeader /\ st.fault = "init" THEN Failed(created)
             ELSE [created EXCEPT !.seg[1].fi = "open"]

\* formatFMP4Part.close: the file is made when the first part is written.
PartClose(st) ==
    LET opened == IF st.seg[1].fi = "nil" THEN OpenFile(st, TRUE) ELSE st
        s == opened.seg[1]
    IN  IF opened.err THEN opened
        ELSE IF s.fi = "closed" THEN Failed(opened)
        ELSE IF opened.fault = "data" THEN Failed(opened)
        ELSE [opened EXCEPT !.files[s.start].samples = @ \o s.part]

\* Mutant: the file is reported whether or not it could be closed.
FileCloseReports(st) ==
    LET closed == [st EXCEPT !.seg[1].fi = "closed",
                             !.files[st.seg[1].start].complete = @ + 1]
    IN  IF st.seg[1].fi = "nil" THEN st
        ELSE IF st.fault \in {"close", "duration"} THEN Failed(closed) ELSE closed

\* The end of formatFMP4Segment.close and of formatMPEGTSSegment.close: the
\* duration is written (fMP4), the file closed and, if that succeeds, reported.
\* s.fi stays: a second close of the segment fails.
FileClose(st) ==
    LET closed == [st EXCEPT !.seg[1].fi = "closed"]
        done == [closed EXCEPT !.files[st.seg[1].start].complete = @ + 1]
    IN  IF st.seg[1].fi = "nil" THEN st
        ELSE IF st.seg[1].fi = "closed" \/ st.fault = "close" THEN Failed(closed)
        ELSE IF st.fault = "duration" /\ rcFormat = "fmp4" THEN Failed(done)
        ELSE done

\* formatFMP4Segment.close
Fmp4SegmentClose(st) ==
    IF st.seg[1].part = <<>> THEN FileClose(st)
    ELSE LET closed == PartClose(st)
             ended == FileClose([closed EXCEPT !.err = FALSE])
         IN  [ended EXCEPT !.err = @ \/ closed.err]

\* Mutant: parameters change in the middle of a file.
UpdateCodecsKeep(st) == st

\* updateCodecs: a segment whose header is on the disk is closed.
UpdateCodecs(st) ==
    IF st.seg # NoSeg /\ st.seg[1].fi # "nil"
    THEN [Fmp4SegmentClose(st) EXCEPT !.seg = NoSeg, !.err = FALSE] ELSE st

\* formatFMP4Part.write.  A part begins at its first sample; its duration is that
\* of its last one.
PartWrite(s, sample) ==
    [s EXCEPT !.last = sample.dts, !.part = Append(@, sample),
              !.partStart = IF s.part = <<>> THEN sample.dts ELSE @, !.partEnd = sample.dts]

\* formatFMP4Segment.write: the current part is written when it is long enough.
Fmp4SegmentWrite(st, sample) ==
    LET s == st.seg[1]
        full == s.part # <<>> /\ s.partEnd - s.partStart >= PartDuration
        closed == IF full THEN [PartClose(st) EXCEPT !.seg[1].part = <<>>] ELSE st
    IN  IF closed.err THEN closed ELSE [closed EXCEPT !.seg[1] = PartWrite(@, sample)]

\* Mutant: the segment that ends is not closed before the next begins.
SwitchSegmentOpen(st, next) == [st EXCEPT !.seg = NewSegment(next.dts)]

\* The end of formatFMP4Track.write, when a segment is long enough and the next
\* sample can begin another.
SwitchSegment(st, next) ==
    LET closed == Fmp4SegmentClose([st EXCEPT !.seg[1].last = next.dts])
    IN  IF closed.err THEN closed ELSE [closed EXCEPT !.seg = NewSegment(next.dts)]

\* A track accepts a sample, which waits for its duration.
Accept(st, new) ==
    [st EXCEPT !.hasVideo = @ \/ new.track = "video", !.next[new.track] = <<new>>,
               !.taken = @ \cup {new}]

\* The first sample begins a segment.
BeginSegment(st, sample) ==
    IF st.seg = NoSeg THEN [st EXCEPT !.seg = NewSegment(sample.dts)] ELSE st

\* formatFMP4Track.write: the sample before the new one, now that its duration
\* is known, goes to the segment.
TrackWrite(st0, new) ==
    LET t == new.track
        st == Accept(st0, new)
    IN  IF st0.next[t] = <<>> THEN st
        ELSE LET sample == st0.next[t][1]
                 begun == BeginSegment(st, sample)
             IN  IF sample.dts < begun.seg[1].start
                 THEN [begun EXCEPT !.gone = @ \cup {sample}]
                 ELSE LET written == Fmp4SegmentWrite(begun, sample)
                      IN  IF /\ ~written.err
                             /\ ~st.hasVideo \/ t = "video"
                             /\ new.key /\ new.dts >= SegmentDuration + written.seg[1].start
                          THEN SwitchSegment(written, new) ELSE written

-----------------------------------------------------------------------------
\* MPEG-TS.

\* bufio.Writer.Flush and formatMPEGTSSegment.Write, which opens the file.
Flush(st) ==
    IF st.buf = <<>> THEN st
    ELSE LET opened == IF st.seg[1].fi = "nil" THEN OpenFile(st, FALSE) ELSE st
         IN  IF opened.err THEN opened
             ELSE IF opened.seg[1].fi = "closed" \/ opened.fault = "data" THEN Failed(opened)
             ELSE [opened EXCEPT !.files[st.seg[1].start].samples = @ \o st.buf, !.buf = <<>>]

\* formatMPEGTSSegment.close
TsSegmentClose(st) ==
    LET flushed == Flush(st)
        ended == FileClose([flushed EXCEPT !.err = FALSE])
    IN  [ended EXCEPT !.err = @ \/ flushed.err]

\* formatMPEGTS.write until the sample is written: a segment that is long enough
\* ends when the sample can begin another, and is flushed after PartDuration.
TsSegment(st, sample) ==
    LET s == st.seg[1] IN
    IF st.seg = NoSeg THEN [st EXCEPT !.seg = NewSegment(sample.dts)]
    ELSE IF /\ ~st.hasVideo \/ sample.track = "video"
            /\ sample.key /\ sample.dts >= SegmentDuration + s.start
    THEN LET closed == TsSegmentClose([st EXCEPT !.seg[1].last = sample.dts])
         IN  IF closed.err THEN closed ELSE [closed EXCEPT !.seg = NewSegment(sample.dts)]
    ELSE IF sample.dts >= PartDuration + s.flushed
    THEN [Flush(st) EXCEPT !.seg[1].flushed = sample.dts]
    ELSE st

\* formatMPEGTS.write; spills: the buffer was full.
TsWrite(st, sample, spills) ==
    LET ready == TsSegment([st EXCEPT !.hasVideo = @ \/ sample.track = "video",
                                      !.taken = @ \cup {sample}], sample)
        written == [ready EXCEPT !.seg[1].last = sample.dts, !.buf = Append(@, sample)]
    IN  IF ready.err THEN ready ELSE IF spills THEN Flush(written) ELSE written

-----------------------------------------------------------------------------

\* formatFMP4.close and formatMPEGTS.close, after RemoveReader; the samples
\* still pending are not written.  Then the pause of Recorder.run, or the end.
InstanceEnd(st, inst) ==
    LET ended == IF st.seg = NoSeg THEN st
                 ELSE IF rcFormat = "fmp4" THEN Fmp4SegmentClose(st) ELSE TsSegmentClose(st)
    IN  /\ rcInst' = inst
        /\ rcFiles' = ended.files /\ rcTaken' = ended.taken
        /\ rcGone' = ended.gone \cup UNION {ToSet(ended.next[t]) : t \in RcTracks}
        /\ rcSeg' = NoSeg /\ rcNext' = [t \in RcTracks |-> <<>>]
        /\ rcVer' = ended.ver /\ rcSeen' = {} /\ rcHasVideo' = FALSE /\ rcBuf' = <<>>

\* The callback returns: an error ends the instance.  bufio.Writer returns an
\* error of its writer for ever, what it still holds is never written.
Settle(st) ==
    IF st.err THEN InstanceEnd([st EXCEPT !.err = FALSE, !.buf = <<>>], "paused")
    ELSE /\ rcSeg' = st.seg /\ rcNext' = st.next /\ rcVer' = st.ver
         /\ rcHasVideo' = st.hasVideo /\ rcBuf' = st.buf /\ rcFiles' = st.files
         /\ rcTaken' = st.taken /\ rcGone' = st.gone
         /\ UNCHANGED <<rcInst>>

\* The beginning of the callback of a codec: parameters that the unit renews.
RenewedBy(t, ver, fault) ==
    IF Callback(rcFormat, rcCodecs[t]).renews # "none" /\ ver # rcVer[t]
    THEN UpdateCodecs([Now(fault) EXCEPT !.ver[t] = ver]) ELSE Now(fault)

\* Its end: the samples of the unit are written.
UnitWrite(st, t, key, spills) ==
    LET one == Sample(t, rcTime[t], key, st.ver[t])
        two == Sample(t, rcTime[t] + 2, key, st.ver[t])
        w == TrackWrite(st, one)
    IN  IF rcFormat = "mpegts" THEN TsWrite(st, one, spills)
        ELSE IF Callback(rcFormat, rcCodecs[t]).samples = 1 \/ w.err THEN w
        ELSE TrackWrite(w, two)

\* A unit of a track is read: the callback of its codec.
RecordUnit(t) ==
    \E fault \in FaultKinds, key \in BOOLEAN, ver \in 0..2, spills \in BOOLEAN :
      LET cb == Callback(rcFormat, rcCodecs[t])
          codec == RenewedBy(t, ver, fault)
          written == UnitWrite(codec, t, key, spills)
      IN  /\ rcInst = "running"
          /\ rcTime[t] + 2 * cb.samples <= MaxDts + 2            \* bound
          /\ fault # "none" => rcFaults < MaxRcFaults            \* bound
          /\ rcFaults' = IF fault = "none" THEN rcFaults ELSE rcFaults + 1
          /\ t = "audio" => key
          /\ spills => rcFormat = "mpegts"
          /\ ver \in {rcVer[t], rcVer[t] + 1} /\ (ver # rcVer[t] => key)
          /\ ver # rcVer[t] => (cb.renews = "first" => t \notin rcSeen) /\ cb.renews # "none"
          /\ rcTime' = [rcTime EXCEPT ![t] = @ + 2 * cb.samples]
          /\ IF cb.waits /\ t \notin rcSeen /\ ~key
             THEN Settle(codec) /\ UNCHANGED rcSeen
             ELSE /\ Settle(written)
                  /\ ~written.err => rcSeen' = rcSeen \cup {t}
          /\ UNCHANGED <<rcFormat, rcCodecs>>

\* A unit that a callback refuses: not parsable, or earlier than the last one.
\* The callbacks of MPEG-TS check the order of video units only.
RefuseUnit(t) ==
    /\ rcInst = "running"
    /\ rcFormat = "mpegts" => t = "video"
    /\ InstanceEnd(Now("none"), "paused")
    /\ UNCHANGED <<rcFormat, rcCodecs, rcTime, rcFaults>>

\* Recorder.run: restartPause
Restart ==
    /\ rcInst = "paused" /\ rcInst' = "running"
    /\ UNCHANGED <<rcFormat, rcCodecs, rcSeg, rcNext, rcVer, rcSeen, rcHasVideo, rcBuf, rcFiles,
                   rcTime, rcTaken, rcGone, rcFaults>>

\* Recorder.Close, while the instance runs or pauses.
RecorderClose ==
    /\ rcInst # "closed"
    /\ InstanceEnd(Now("none"), "closed")
    /\ UNCHANGED <<rcFormat, rcCodecs, rcTime, rcFaults>>

RcNext == (\E t \in RcTracks : RecordUnit(t) \/ RefuseUnit(t)) \/ Restart \/ RecorderClose

RcSpec == RcInit /\ [][RcNext]_rcVars

-----------------------------------------------------------------------------

RcTypeOK ==
    /\ rcInst \in {"running", "paused", "closed"} /\ rcFaults \in 0..MaxRcFaults
    /\ rcSeg # NoSeg => {rcSeg[1].start, rcSeg[1].last} \subseteq 0..MaxDts + 1
    /\ rcHasVideo \in BOOLEAN /\ rcTime \in [RcTracks -> 0..(MaxDts + 2)]

OnDisk(d) == rcFiles[d].samples
InFiles == UNION {ToSet(OnDisk(d)) : d \in DOMAIN rcFiles}
InMemory == ToSet(rcBuf) \cup (UNION {ToSet(rcNext[t]) : t \in RcTracks})
            \cup (IF rcSeg = NoSeg THEN {} ELSE ToSet(rcSeg[1].part))

\* No sample is recorded in a file whose header has older codec parameters
\* than the sample needs: a change of parameters begins another file.
HeadersKeepUp ==
    \A d \in DOMAIN rcFiles : \A k \in DOMAIN OnDisk(d) :
        LET s == OnDisk(d)[k] IN
        rcFormat = "fmp4" => s.ver <= rcFiles[d].header[s.track]

\* The files that os.Create made again, and truncated.
Rewritten == {d \in DOMAIN rcFiles : rcFiles[d].made > 1}

\* The unit after the one that was sampled at d changes the parameters of its
\* track: updateCodecs closes the segment that began with the pending sample,
\* and track.write begins another one, of the same name, with it.
RenewedAfter(d) ==
    \E s, n \in rcTaken : s.track = n.track /\ s.dts = d /\ n.dts = d + 2 /\ n.ver # s.ver

\* No file is reported complete more often than it was made and, as long as no
\* write fails, every file but the open one as often.
HooksPaired ==
    \A d \in DOMAIN rcFiles :
        /\ rcFiles[d].complete <= rcFiles[d].made
        /\ rcFaults = 0 =>
             rcFiles[d].made = rcFiles[d].complete +
               (IF rcSeg # NoSeg /\ rcSeg[1].start = d /\ rcSeg[1].fi = "open" THEN 1 ELSE 0)

\* As long as no write fails and no file is made again, every sample that a
\* track accepted is in a file, in a part, in the buffer or pending, or was
\* dropped on purpose, and nothing else is there.
NothingLost ==
    (rcFaults = 0 /\ Rewritten = {}) => rcTaken = InFiles \cup InMemory \cup rcGone

\* As long as no write fails, every sample that a track accepted is in exactly
\* one place, a file, a part, the buffer or pending, or it was dropped because
\* it is older than the segment or was pending when the instance ended (but for
\* what a rewritten file had); the samples of a track are in a file in order
\* and, in fMP4, not before its start; the hooks of every file but the open one
\* are paired; and only fMP4 makes a file again, once, when the unit after the
\* one the segment was about to begin with changes parameters.  Even with
\* failures no file is completed without having been made, nor twice but then.
RecordedOnce ==
    /\ HooksPaired
    /\ NothingLost
    /\ rcFaults = 0 =>
        /\ \A d, e \in DOMAIN rcFiles : d # e => ToSet(OnDisk(d)) \cap ToSet(OnDisk(e)) = {}
        /\ \A d \in DOMAIN rcFiles :
             /\ ToSet(OnDisk(d)) \cap (InMemory \cup rcGone) = {}
             /\ IsInjective(OnDisk(d))
             /\ \A j, k \in DOMAIN OnDisk(d) :
                  /\ rcFormat = "fmp4" => OnDisk(d)[k].dts >= d
                  /\ (j < k /\ OnDisk(d)[j].track = OnDisk(d)[k].track) =>
                        OnDisk(d)[j].dts < OnDisk(d)[k].dts
        /\ \A d \in Rewritten : rcFiles[d].made = 2 /\ rcFormat = "fmp4" /\ RenewedAfter(d)
    /\ \A d \in DOMAIN rcFiles :
         rcFiles[d].complete > 1 => rcFiles[d].complete = 2 /\ RenewedAfter(d)
=============================================================================
