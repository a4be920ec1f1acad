------------------------------ MODULE Playback ------------------------------
(***************************************************************************)
(* The store of recordings of mediamtx: the segments of a path             *)
(* (internal/recordstore), the cleaner that deletes old ones               *)
(* (internal/recordcleaner) and the playback server, which lists and muxes *)
(* them (internal/playback).                                               *)
(*                                                                         *)
(* One unit of time is half a second, the tolerance within which two       *)
(* segments are taken for one.  A segment has one track, whose samples     *)
(* last one unit each.  Names of files, which encode the start of a        *)
(* segment, are replaced by that start.                                    *)
(***************************************************************************)
EXTENDS Integers, Sequences, FiniteSets, SequencesExt

CONSTANTS Retentions,         \* what recordDeleteAfter may be
          MaxNow, MaxFiles    \* bounds: the time, and the segments on the disk

ASSUME PbBounds == Retentions \subseteq Nat /\ MaxNow \in Nat /\ MaxFiles \in Nat

VARIABLES pbFiles,   \* the segments on the disk
          pbOpen,    \* the segment that the recorder writes, <<>> or <<segment>>
          pbNow,     \* the time
          pbKeep,    \* recordDeleteAfter of the path, 0 for ever
          pbConf,    \* the same in the configuration that the cleaner has
          pbRun      \* a run of the cleaner: <<>> or <<what it has still to delete>>

pbVars == <<pbFiles, pbOpen, pbNow, pbKeep, pbConf, pbRun>>

None == -1
Tolerance == 1

\* init: the tracks and their codecs; gop: every which sample is a key frame;
\* hdr: the duration is in the header (the segment was closed).
Segment(start, len, init, gop, hdr) ==
    [start |-> start, len |-> len, init |-> init, gop |-> gop, hdr |-> hdr]

PbInit ==
    /\ pbFiles = {} /\ pbOpen = <<>> /\ pbNow = 0
    /\ pbKeep \in Retentions /\ pbConf = pbKeep /\ pbRun = <<>>

-----------------------------------------------------------------------------
\* recordstore

SortedByStart(files) == SetToSortSeq(files, LAMBDA f, g : f.start < g.start)

\* FindSegments: those that start before the end of the playback, without
\* those that are over when it starts.
Found(files, start, end) ==
    LET before == {f \in files : end = None \/ f.start <= end}
    IN  IF start = None \/ \A f \in before : start < f.start THEN before
        ELSE {f \in before : ~\E g \in before : f.start < g.start /\ g.start <= start}


\* In the order of their starts; <<>> stands for ErrNoSegmentsFound.
FindSegments(files, start, end) == SortedByStart(Found(files, start, end))

\* fixedPathHasSegments and FindAllPathsWithSegments, of the one path
HasSegments(files) == files # {}

-----------------------------------------------------------------------------
\* /list

\* segmentFMP4ReadHeader and segmentFMP4ReadDurationFromParts: the duration of
\* the header, or the end of the last complete part.
ReadDuration(f) == f.len

\* segmentFMP4CanBeConcatenated
CanBeConcatenated(prevInit, prevEnd, curInit, curStart) ==
    /\ prevInit = curInit
    /\ curStart >= prevEnd - Tolerance /\ curStart <= prevEnd + Tolerance

Entry(start, dur, init) == [start |-> start, dur |-> dur, init |-> init]

\* concatenateSegments
Concatenate(segs) ==
    FoldLeft(LAMBDA out, f :
               LET last == Last(out) IN
               IF out # <<>> /\ CanBeConcatenated(last.init, last.start + last.dur, f.init, f.start)
               THEN Append(Front(out), Entry(last.start, f.start + ReadDuration(f) - last.start,
                                             f.init))
               ELSE Append(out, Entry(f.start, ReadDuration(f), f.init)),
             <<>>, segs)

\* The first entry is cut at the start, or removed if it is over by then.
CutStart(entries, start) ==
    LET e == entries[1] IN
    IF start = None THEN entries
    ELSE IF e.start + e.dur < start THEN Tail(entries)
    ELSE IF e.start < start
    THEN [entries EXCEPT ![1] = Entry(start, e.dur - (start - e.start), e.init)]
    ELSE entries

\* The last entry is cut at the end.
CutEnd(entries, end) ==
    LET e == Last(entries) IN
    IF end # None /\ entries # <<>> /\ e.start + e.dur > end
    THEN [entries EXCEPT ![Len(entries)] = Entry(e.start, end - e.start, e.init)]
    ELSE entries

\* onList; <<>> stands for the answer 404.
OnList(files, start, end) ==
    LET segs == FindSegments(files, start, end)
    IN  IF segs = <<>> THEN <<>> ELSE CutEnd(CutStart(Concatenate(segs), start), end)

-----------------------------------------------------------------------------
\* /get

\* muxerFMP4.writeSample: samples before the start are kept from the last key
\* frame on, unless the first one that counts is a key frame itself.
Fmp4Sample(out, s) ==
    IF s.dts >= 0
    THEN IF (\A k \in DOMAIN out : out[k].dts < 0) /\ s.key THEN <<s>> ELSE Append(out, s)
    ELSE IF s.key THEN <<s>> ELSE Append(out, s)

\* muxerMP4.writeSample: the same, told by the time of the last sample.
Mp4Sample(out, s) ==
    LET lastDTS == IF out = <<>> THEN 0 ELSE Last(out).dts IN
    IF (s.dts < 0 \/ lastDTS < 0) /\ s.key THEN <<s>> ELSE Append(out, s)

\* segmentFMP4SeekAndMuxParts and segmentFMP4MuxParts: the samples of a segment
\* before the end of the playback, with their times from its start.
Samples(f, start, dur) ==
    SelectSeq([k \in 1..f.len |-> [dts |-> f.start + k - 1 - start, file |-> f.start,
                                   key |-> (k - 1) % f.gop = 0]],
              LAMBDA s : s.dts < dur)

\* Where the samples of the segment that were muxed end (at least 0).
MuxedEnd(f, start, dur) ==
    LET ends == {s.dts + 1 : s \in ToSet(Samples(f, start, dur))}
    IN  IF \A e \in ends : e <= 0 THEN 0 ELSE CHOOSE e \in ends : \A d \in ends : d <= e

\* seekAndMux: the first segment must have a sample from the start on; the
\* others follow as long as they can be concatenated.  An empty ok is a 404.
SeekAndMux(segs, start, dur, format) ==
    LET first == segs[1]
        sample(out, s) == IF format = "fmp4" THEN Fmp4Sample(out, s) ELSE Mp4Sample(out, s)
        mux(out, f) == FoldLeft(sample, out, Samples(f, start, dur))
        step(acc, f) ==
            IF ~acc.on \/ ~CanBeConcatenated(first.init, acc.end, f.init, f.start)
            THEN [acc EXCEPT !.on = FALSE]
            ELSE [on |-> TRUE, end |-> start + MuxedEnd(f, start, dur), out |-> mux(acc.out, f)]
        acc0 == [on |-> TRUE, end |-> start + MuxedEnd(first, start, dur), out |-> mux(<<>>, first)]
    IN  IF \A s \in ToSet(Samples(first, start, dur)) : s.dts < 0 THEN <<>>
        ELSE FoldLeft(step, acc0, Tail(segs)).out

\* onGet; <<>> stands for the answer 404.
OnGet(files, start, dur, format) ==
    LET segs == FindSegments(files, start, start + dur)
    IN  IF segs = <<>> THEN <<>> ELSE SeekAndMux(segs, start, dur, format)

-----------------------------------------------------------------------------
\* The recorder (Recorder has its inside): a segment begins now ...
StartSegment ==
    /\ pbOpen = <<>> /\ Cardinality(pbFiles) < MaxFiles
    /\ \E init \in 1..2, gop \in 1..2 : pbOpen' = <<Segment(pbNow, 0, init, gop, FALSE)>>
    /\ UNCHANGED <<pbFiles, pbNow, pbKeep, pbConf, pbRun>>

\* ... grows while the time goes on (unless its file was deleted, which the
\* recorder does not notice) ...
Elapse ==
    /\ pbNow < MaxNow
    /\ pbNow' = pbNow + 1
    /\ IF pbOpen = <<>> THEN UNCHANGED <<pbOpen, pbFiles>>
       ELSE LET old == pbOpen[1]
                new == [old EXCEPT !.len = @ + 1]
            IN  /\ pbOpen' = <<new>>
                /\ pbFiles' = IF old.len = 0 \/ old \in pbFiles
                              THEN (pbFiles \ {old}) \cup {new} ELSE pbFiles
    /\ UNCHANGED <<pbKeep, pbConf, pbRun>>

\* ... and is closed.
EndSegment ==
    /\ pbOpen # <<>> /\ pbOpen[1].len > 0
    /\ pbOpen' = <<>>
    /\ pbFiles' = IF pbOpen[1] \notin pbFiles THEN pbFiles
                  ELSE (pbFiles \ ToSet(pbOpen)) \cup {[pbOpen[1] EXCEPT !.hdr = TRUE]}
    /\ UNCHANGED <<pbNow, pbKeep, pbConf, pbRun>>

\* Mutant: the age is measured without the retention.
CleanAll ==
    /\ pbRun = <<>> /\ HasSegments(pbFiles) /\ pbConf # 0
    /\ pbRun' = <<{f.start : f \in Found(pbFiles, None, pbNow)}>>
    /\ UNCHANGED <<pbFiles, pbOpen, pbNow, pbKeep, pbConf>>

\* doRun and processPath: the segments that start before the limit.
Clean ==
    /\ pbRun = <<>> /\ HasSegments(pbFiles) /\ pbConf # 0 /\ pbNow >= pbConf
    /\ pbRun' = <<{f.start : f \in Found(pbFiles, None, pbNow - pbConf)}>>
    /\ UNCHANGED <<pbFiles, pbOpen, pbNow, pbKeep, pbConf>>

\* os.Remove, one after the other; then cleanInterval.
CleanNext ==
    /\ pbRun # <<>>
    /\ IF pbRun[1] = {} THEN pbRun' = <<>> /\ UNCHANGED pbFiles
       ELSE \E s \in pbRun[1] :
              /\ \A t \in pbRun[1] : s <= t
              /\ pbRun' = <<pbRun[1] \ {s}>>
              /\ pbFiles' = {f \in pbFiles : f.start # s}
    /\ UNCHANGED <<pbOpen, pbNow, pbKeep, pbConf>>

\* Core loads another configuration; the cleaner gets it between two runs.
PbReload ==
    /\ \E k \in Retentions : k # pbKeep /\ pbKeep' = k
    /\ pbKeep = pbConf                                  \* ReloadPathConfs has returned
    /\ UNCHANGED <<pbFiles, pbOpen, pbNow, pbConf, pbRun>>

\* chReloadConf
CleanerReload ==
    /\ pbRun = <<>> /\ pbConf # pbKeep
    /\ pbConf' = pbKeep
    /\ UNCHANGED <<pbFiles, pbOpen, pbNow, pbKeep, pbRun>>

PbNext == StartSegment \/ Elapse \/ EndSegment \/ Clean \/ CleanNext \/ PbReload \/ CleanerReload

PbSpec == PbInit /\ [][PbNext]_pbVars

-----------------------------------------------------------------------------

PbTypeOK ==
    /\ pbNow \in 0..MaxNow /\ pbKeep \in Retentions /\ pbConf \in Retentions
    /\ Len(pbOpen) <= 1 /\ Len(pbRun) <= 1
    /\ \A f \in pbFiles : f.start \in 0..MaxNow /\ f.len \in 1..MaxNow

\* The segment that a playback from t begins with is over by then.
InGap(t) == \E f \in pbFiles : /\ f.start + f.len <= t
                               /\ ~\E g \in pbFiles : f.start < g.start /\ g.start <= t


\* A segment that is gone after a step is older than the retention time.
OnlyOldDeleted ==
    \A f \in pbFiles : (\A g \in pbFiles' : g.start # f.start) =>
                          pbConf # 0 /\ f.start + pbConf <= pbNow

\* The cleaner deletes only segments that began before the retention time that
\* was configured when its run began, whatever is recorded, reloaded or listed
\* while it runs; a shorter time never reaches a run under way.
RetentionRespected == [][OnlyOldDeleted]_pbVars
=============================================================================
