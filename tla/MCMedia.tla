------------------------------ MODULE MCMedia ------------------------------
(***************************************************************************)
(* What happens to media data, for one run of TLC: the format processor of *)
(* a track, the recorder, the playback server with the record cleaner, and *)
(* RTMP's chunks and its tracks.  They share no state: part says whose     *)
(* behaviours are explored, and the variables of the others rest in one    *)
(* initial state.                                                          *)
(***************************************************************************)
EXTENDS FormatProcessor, Recorder, Playback, RtmpChunks, RtmpMedia

VARIABLE part

MCInit ==
    /\ FpInit /\ RcInit /\ PbInit /\ ChunksInit /\ MediaInit
    /\ part \in {"processor", "recorder", "playback", "chunks", "tracks"}
    /\ part # "processor" => fpFmt = "h264" /\ fpGen
    /\ part # "recorder" => rcFormat = "fmp4"
    /\ part # "playback" => pbKeep = 0
    /\ part # "tracks" => mdSender = "other" /\ mdClock = 0

MCNext ==
    \/ part = "processor" /\ FpNext /\ UNCHANGED <<rcVars, pbVars, chVars, mdVars, part>>
    \/ part = "recorder" /\ RcNext /\ UNCHANGED <<fpVars, pbVars, chVars, mdVars, part>>
    \/ part = "playback" /\ PbNext /\ UNCHANGED <<fpVars, rcVars, chVars, mdVars, part>>
    \/ part = "chunks" /\ ChunksNext /\ UNCHANGED <<fpVars, rcVars, pbVars, mdVars, part>>
    \/ part = "tracks" /\ MediaNext /\ UNCHANGED <<fpVars, rcVars, pbVars, chVars, part>>

\* The types of the five components.
MediaTypesOK ==
    FpTypeOK /\ RcTypeOK /\ PbTypeOK /\ ChunksTypeOK /\ MediaTypeOK

\* What the recorder leaves on the disk.
RecordingSound == HeadersKeepUp /\ RecordedOnce
=============================================================================
