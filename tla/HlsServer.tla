----------------------------- MODULE HlsServer -----------------------------
(***************************************************************************)
(* mediamtx's HLS server (internal/servers/hls) and the muxers of one      *)
(* path: the server's loop keeps the index of muxers; a muxer is a         *)
(* goroutine that reads the path and keeps an instance, the converter its  *)
(* requests are answered by.  A muxer is created by a request, and then    *)
(* ends when it is not used, or, with hlsAlwaysRemux, when the path becomes*)
(* ready, and then outlives the errors of its instances.  Core creates the  *)
(* server after the path manager, to which it names it then, and creates    *)
(* another one when a reload changes an option.                             *)
(***************************************************************************)
EXTENDS Naturals

CONSTANT MaxMuxers      \* bound on the muxers created

ASSUME HlsBounds == MaxMuxers \in Nat

VARIABLES hlAlways,     \* hlsAlwaysRemux, and the path's source is not on demand
          hlUp,         \* the server: "down", or it runs and was not named to the path
                        \* manager yet ("new"), was ("up"), or no more ("leaving")
          hlReady,      \* the path has a stream
          hlMux,        \* muxer |-> its state
          hlMap,        \* s.muxers: the muxer of the path, or 0
          hlReaders,    \* the muxers that are readers of the path
          hlLost,       \* history: the server was not told that a path was not ready
          hlUnheard,    \* history: nor that the path is ready
          hlGaveUp      \* history: the muxer ended as the stream has no codec for HLS

hlVars == <<hlAlways, hlUp, hlReady, hlMux, hlMap, hlReaders, hlLost, hlUnheard, hlGaveUp>>
hlPathVars == <<hlReady, hlReaders>>
hlHistory == <<hlLost, hlUnheard, hlGaveUp>>

Muxers == 1 .. MaxMuxers
Alive == {"adding", "converting", "failed"}
NoMuxer == [st |-> "unborn", auto |-> FALSE, cancelled |-> FALSE, idle |-> FALSE]

HlsInit ==
    /\ hlAlways = FALSE /\ hlUp = "down" /\ hlReady = FALSE
    /\ hlMux = [m \in Muxers |-> NoMuxer]
    /\ hlMap = 0 /\ hlReaders = {}
    /\ hlLost = FALSE /\ hlUnheard = FALSE /\ hlGaveUp = FALSE

\* createMuxer
Create(auto) ==
    \E m \in Muxers :
        /\ hlMux[m].st = "unborn" /\ \A k \in 1 .. m - 1 : hlMux[k].st # "unborn"
        /\ hlMux' = [hlMux EXCEPT ![m] = [NoMuxer EXCEPT !.st = "adding", !.auto = auto]]
        /\ hlMap' = m

\* muxer.Close on some muxers
Cancel(ms) == [m \in Muxers |-> IF m \in ms THEN [hlMux[m] EXCEPT !.cancelled = TRUE]
                                ELSE hlMux[m]]

-----------------------------------------------------------------------------
\* Core and the server.

\* createResources: a server with the options in force.  The muxers of the one
\* before have ended, Close waits for them.
HlsCreate ==
    /\ hlUp = "down" /\ \A m \in Muxers : hlMux[m].st \in {"unborn", "gone"}
    /\ hlUp' = "new" /\ hlAlways' \in BOOLEAN /\ hlMap' = 0
    /\ hlLost' = FALSE /\ hlUnheard' = hlReady /\ hlGaveUp' = FALSE
    /\ UNCHANGED <<hlPathVars, hlMux>>

\* setHLSServer: the path manager stores the server, and tells it of what
\* becomes ready from now on.
HlsAnnounced ==
    /\ hlUp = "new" /\ hlUp' = "up"
    /\ UNCHANGED <<hlAlways, hlPathVars, hlMux, hlMap, hlHistory>>

\* closeResources: setHLSServer(nil), ...
HlsForgotten ==
    /\ hlUp = "up" /\ hlUp' = "leaving"
    /\ UNCHANGED <<hlAlways, hlPathVars, hlMux, hlMap, hlHistory>>

\* ... then Server.Close.
HlsClose ==
    /\ hlUp = "leaving"
    /\ hlUp' = "down"
    /\ hlMux' = Cancel({m \in Muxers : hlMux[m].st # "unborn"})
    /\ UNCHANGED <<hlAlways, hlPathVars, hlMap, hlHistory>>

-----------------------------------------------------------------------------
\* The server's loop.

\* setReady of the path, and chPathReady of a server the path manager knows.
HlsPathReady ==
    /\ ~hlReady
    /\ hlReady' = TRUE /\ hlUnheard' = (hlUp # "up")
    /\ IF hlUp = "up" /\ hlAlways /\ hlMap = 0 THEN Create(TRUE)
       ELSE UNCHANGED <<hlMux, hlMap>>
    /\ UNCHANGED <<hlAlways, hlUp, hlReaders, hlLost, hlGaveUp>>

\* setNotReady of the path: chPathNotReady ends a muxer that was created
\* automatically, then the path closes its readers.
HlsPathNotReady ==
    LET automatic == hlUp = "up" /\ hlMap # 0 /\ hlMux[hlMap].auto IN
    /\ hlReady
    /\ hlReady' = FALSE /\ hlUnheard' = FALSE /\ hlGaveUp' = FALSE
    /\ hlMux' = Cancel(hlReaders \cup (IF automatic THEN {hlMap} ELSE {}))
    /\ hlMap' = IF automatic THEN 0 ELSE hlMap
    /\ hlReaders' = {}
    /\ UNCHANGED <<hlAlways, hlUp, hlLost>>

\* The path manager ends the path to create it anew (doReloadConf): its
\* context is cancelled, so the server is not told, and readers are closed.
HlsPathKilled ==
    /\ hlReady
    /\ hlReady' = FALSE /\ hlLost' = TRUE /\ hlUnheard' = FALSE
    /\ hlMux' = Cancel(hlReaders)
    /\ hlReaders' = {}
    /\ UNCHANGED <<hlAlways, hlUp, hlMap, hlGaveUp>>

\* onRequest, chGetMuxer and getInstance: the muxer is used, or created; with
\* hlsAlwaysRemux the answer is that it is "waiting to be created".
HlsRequest ==
    /\ hlUp # "down"
    /\ \/ /\ hlMap # 0
          /\ hlMux' = [hlMux EXCEPT ![hlMap].idle = FALSE] /\ UNCHANGED hlMap
       \/ /\ hlMap = 0 /\ ~hlAlways /\ Create(FALSE)
    /\ UNCHANGED <<hlAlways, hlUp, hlPathVars, hlHistory>>

-----------------------------------------------------------------------------
\* The goroutine of a muxer.

\* runInner: AddReader, and the first instance.
MuxerStarts(m) ==
    /\ hlMux[m].st = "adding"
    /\ IF ~hlReady
       THEN /\ hlMux' = [hlMux EXCEPT ![m].st = "ending"]
            /\ UNCHANGED <<hlReaders, hlGaveUp>>
       ELSE \/ /\ hlMux' = [hlMux EXCEPT ![m].st = "converting"]
               /\ hlReaders' = hlReaders \cup {m} /\ UNCHANGED hlGaveUp
            \/ /\ hlMux[m].auto    \* a failure that may pass
               /\ hlMux' = [hlMux EXCEPT ![m].st = "failed"]
               /\ hlReaders' = hlReaders \cup {m} /\ UNCHANGED hlGaveUp
            \/ /\ hlMux' = [hlMux EXCEPT ![m].st = "ending"]
               /\ hlGaveUp' = (hlGaveUp \/ hlMap = m) /\ UNCHANGED hlReaders
    /\ UNCHANGED <<hlAlways, hlUp, hlReady, hlMap, hlLost, hlUnheard>>

\* The instance reports an error: only an automatic muxer goes on.
InstanceError(m) ==
    /\ hlMux[m].st = "converting"
    /\ hlMux' = [hlMux EXCEPT ![m].st = IF hlMux[m].auto THEN "failed" ELSE "ending"]
    /\ UNCHANGED <<hlAlways, hlUp, hlPathVars, hlMap, hlHistory>>

\* recreateTimer: another instance, unless that fails again.
InstanceRecreated(m) ==
    /\ hlMux[m].st = "failed"
    /\ hlMux' = [hlMux EXCEPT ![m].st = "converting"]
    /\ UNCHANGED <<hlAlways, hlUp, hlPathVars, hlMap, hlHistory>>

\* hlsMuxerCloseAfter passes without a request.
NoRequests(m) ==
    /\ hlMux[m].st \in Alive /\ ~hlMux[m].idle
    /\ hlMux' = [hlMux EXCEPT ![m].idle = TRUE]
    /\ UNCHANGED <<hlAlways, hlUp, hlPathVars, hlMap, hlHistory>>

\* activityCheckTimer, or the context is done.
MuxerStops(m) ==
    /\ \/ hlMux[m].st = "converting" /\ hlMux[m].idle /\ ~hlMux[m].auto
       \/ hlMux[m].st \in Alive /\ hlMux[m].cancelled
    /\ hlMux' = [hlMux EXCEPT ![m].st = "ending"]
    /\ UNCHANGED <<hlAlways, hlUp, hlPathVars, hlMap, hlHistory>>

\* Mutant: closeMuxer forgets whatever muxer the path has.
MuxerGoneAny(m) ==
    /\ hlMux[m].st = "ending"
    /\ hlMux' = [hlMux EXCEPT ![m].st = "gone"]
    /\ hlReaders' = hlReaders \ {m}
    /\ hlMap' = IF hlUp # "down" THEN 0 ELSE hlMap
    /\ UNCHANGED <<hlAlways, hlUp, hlReady, hlHistory>>

\* The end of run: RemoveReader, then closeMuxer, which the loop answers only
\* if the muxer is still the one of the path.
MuxerGone(m) ==
    /\ hlMux[m].st = "ending"
    /\ hlMux' = [hlMux EXCEPT ![m].st = "gone"]
    /\ hlReaders' = hlReaders \ {m}
    /\ hlMap' = IF hlUp # "down" /\ hlMap = m THEN 0 ELSE hlMap
    /\ UNCHANGED <<hlAlways, hlUp, hlReady, hlHistory>>

HlsNext ==
    \/ HlsCreate \/ HlsAnnounced \/ HlsForgotten \/ HlsClose
    \/ HlsPathReady \/ HlsPathNotReady \/ HlsPathKilled \/ HlsRequest
    \/ \E m \in Muxers : \/ MuxerStarts(m) \/ InstanceError(m) \/ InstanceRecreated(m)
                         \/ NoRequests(m) \/ MuxerStops(m) \/ MuxerGone(m)

HlsSpec == HlsInit /\ [][HlsNext]_hlVars

-----------------------------------------------------------------------------

HlsTypeOK ==
    /\ {hlAlways, hlReady, hlLost, hlUnheard, hlGaveUp} \subseteq BOOLEAN
    /\ hlUp \in {"down", "new", "up", "leaving"}
    /\ hlMap \in 0 .. MaxMuxers /\ hlReaders \subseteq Muxers
    /\ hlMux \in [Muxers -> [st : Alive \cup {"unborn", "ending", "gone"},
                             auto : BOOLEAN, cancelled : BOOLEAN, idle : BOOLEAN]]

\* A muxer that goes on is the one the index has, so that requests, PathNotReady
\* and the API find it: also while an earlier muxer of the path is still ending
\* and reports its own end late, and after the server was created anew.
RunningMuxerIsIndexed ==
    hlUp # "down" => \A m \in Muxers :
        (hlMux[m].st \in Alive /\ ~hlMux[m].cancelled) => hlMap = m

\* The path is being converted.
Remuxed == hlMap # 0 /\ hlMux[hlMap].st \in Alive /\ ~hlMux[hlMap].cancelled

\* With hlsAlwaysRemux a ready path is being converted, through every order of
\* readiness, instance failures and late ends, if and only if the path manager
\* knew the server when the path became ready: a path that was ready before,
\* which a server that a reload created does not hear of, has no muxer at all.
\* Excepted are codecs that HLS cannot carry, and a server that missed that the
\* path was not ready, as PathReady may then find the old muxer still indexed.
ReadyPathIsRemuxed ==
    (hlUp = "up" /\ hlAlways /\ hlReady /\ ~hlLost /\ ~hlGaveUp) =>
        IF hlUnheard THEN hlMap = 0 ELSE Remuxed

\* Both: index and muxers agree, and hlsAlwaysRemux is kept for the paths heard of.
MuxersMatchPath == RunningMuxerIsIndexed /\ ReadyPathIsRemuxed
=============================================================================
