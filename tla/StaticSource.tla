----------------------------- MODULE StaticSource -----------------------------
(***************************************************************************)
(* A path with a static source: the goroutine of the path, the loop of     *)
(* staticSourceHandler and the Run of a source, of package staticsources.    *)
(* Three goroutines wait for each other: the path in stop for the loop, the *)
(* loop for Run, and Run, in SetReady and SetNotReady, for the path.         *)
(*                                                                         *)
(* A source and the goroutine it reads in are one process.  One client      *)
(* stands for all the readers of the path; times are left out.              *)
(***************************************************************************)
EXTENDS Naturals

CONSTANTS SsKinds,        \* the sources that are explored
          MaxSsReloads    \* bound on the configurations the path receives

ASSUME SsBounds == MaxSsReloads \in Nat

VARIABLES
    ssKind, ssOnDemand,   \* the source and sourceOnDemand
    ssPath,     \* the path: "select", "stop", "ending" (ctx done), "endstop", "ended"
    ssOd,       \* onDemandStaticSourceState
    ssUser,     \* the client: "none", "hold" or "reading"
    ssStream,   \* pa.stream # nil
    ssCtx,      \* s.ctx: "none", "open" or "done"
    ssLoop,     \* run: "off", "select", "setReady", "setNotReady" or "await"
    ssPause,    \* recreating
    ssRun,      \* Run of the source: "off", "connect" (for the camera also the wait for
                \* the next frame), "sendReady", "waitReady", "serve", "sendNot",
                \* "waitNot" or "ended"
    ssVer,      \* version of pa.conf, of s.conf, and of what Run works with
    ssNews,     \* versions on their way: to the loop, to the loop with a context that
                \* is done, and to Run
    ssMissed    \* history: a version was lost, or two were under way together

ssVars == <<ssKind, ssOnDemand, ssPath, ssOd, ssUser, ssStream, ssCtx, ssLoop, ssPause,
            ssRun, ssVer, ssNews, ssMissed>>
ssPathVars == <<ssPath, ssOd, ssUser, ssStream>>
ssConfVars == <<ssVer, ssNews, ssMissed>>

\* The SRT source has no deferred SetNotReady.
TellsNotReady == ssKind # "srt"
\* UDP and WebRTC do not receive from ReloadConf; of the others the camera
\* alone looks at what it receives.
TakesReload == ssKind \notin {"udp", "webrtc"}
\* Where Run is after SetReady returned an error: the onData of the camera
\* returns, and calls SetReady again at the next frame; the others give up.
Refused == IF ssKind = "rpicamera" THEN "connect" ELSE "ended"

SsInit ==
    /\ ssKind \in SsKinds /\ ssOnDemand \in BOOLEAN
    /\ ssPath = "select" /\ ssOd = "initial" /\ ssUser = "none" /\ ssStream = FALSE
    /\ ssVer = [path |-> 0, loop |-> 0, run |-> 0]
    /\ ssNews = [loop |-> {}, late |-> {}, run |-> {}] /\ ssMissed = FALSE /\ ssPause = FALSE
    /\ IF ssOnDemand THEN ssCtx = "none" /\ ssLoop = "off" /\ ssRun = "off"
       ELSE ssCtx = "open" /\ ssLoop = "select" /\ ssRun = "connect"

-----------------------------------------------------------------------------
\* stop: the context is cancelled, and the path waits for the loop.
StopSource(next) ==
    /\ ssPath' = next /\ ssCtx' = "done"
    /\ ssNews' = [ssNews EXCEPT !.late = @ \cup ssNews.loop, !.loop = {}]

\* onDemandStaticSourceStart, for the first client.
FirstDemand ==
    /\ ssPath = "select" /\ ssOnDemand /\ ssOd = "initial" /\ ssUser = "none"
    /\ ssUser' = "hold" /\ ssOd' = "waiting"
    /\ ssCtx' = "open" /\ ssLoop' = "select" /\ ssPause' = FALSE
    /\ ssRun' = "connect" /\ ssVer' = [ssVer EXCEPT !.run = ssVer.loop]
    /\ UNCHANGED <<ssKind, ssOnDemand, ssPath, ssStream, ssNews, ssMissed>>

\* addReaderPost, and the request that is put on hold.
ClientArrives ==
    /\ ssPath = "select" /\ ssUser = "none"
    /\ IF ssStream THEN ssUser' = "reading" ELSE ssOnDemand /\ ssOd # "initial" /\ ssUser' = "hold"
    /\ ssOd' = IF ssStream /\ ssOd = "closing" THEN "ready" ELSE ssOd
    /\ UNCHANGED <<ssKind, ssOnDemand, ssPath, ssStream, ssCtx, ssLoop, ssPause, ssRun,
                   ssConfVars>>

\* doRemoveReader
ClientLeaves ==
    /\ ssPath = "select" /\ ssUser = "reading"
    /\ ssUser' = "none"
    /\ ssOd' = IF ssOd = "ready" THEN "closing" ELSE ssOd
    /\ UNCHANGED <<ssKind, ssOnDemand, ssPath, ssStream, ssCtx, ssLoop, ssPause, ssRun,
                   ssConfVars>>

\* doOnDemandStaticSourceReadyTimer
StartTimesOut ==
    /\ ssPath = "select" /\ ssOd = "waiting"
    /\ ssUser' = "none" /\ ssOd' = "initial" /\ StopSource("stop")
    /\ UNCHANGED <<ssKind, ssOnDemand, ssStream, ssLoop, ssPause, ssRun, ssVer, ssMissed>>

\* doOnDemandStaticSourceCloseTimer
CloseTimer ==
    /\ ssPath = "select" /\ ssOd = "closing"
    /\ ssStream' = FALSE /\ ssUser' = "none" /\ ssOd' = "initial" /\ StopSource("stop")
    /\ UNCHANGED <<ssKind, ssOnDemand, ssLoop, ssPause, ssRun, ssVer, ssMissed>>

\* stop returns when the loop has closed s.done.
SourceStopped ==
    /\ ssPath \in {"stop", "endstop"} /\ ssLoop = "off"
    /\ ssPath' = IF ssPath = "stop" THEN "select" ELSE "ended"
    /\ UNCHANGED <<ssKind, ssOnDemand, ssOd, ssUser, ssStream, ssCtx, ssLoop, ssPause,
                   ssRun, ssConfVars>>

\* The path ends: its context is cancelled first, ...
PathEnds ==
    /\ ssPath = "select"
    /\ ssPath' = "ending"
    /\ UNCHANGED <<ssKind, ssOnDemand, ssOd, ssUser, ssStream, ssCtx, ssLoop, ssPause,
                   ssRun, ssConfVars>>

\* ... then the clients and the stream go, and a source that runs is closed.
PathCloses ==
    /\ ssPath = "ending"
    /\ ssUser' = "none" /\ ssStream' = FALSE
    /\ IF ~ssOnDemand \/ ssOd # "initial" THEN StopSource("endstop")
       ELSE ssPath' = "ended" /\ UNCHANGED <<ssCtx, ssNews>>
    /\ UNCHANGED <<ssKind, ssOnDemand, ssOd, ssLoop, ssPause, ssRun, ssVer, ssMissed>>

-----------------------------------------------------------------------------
\* Requests of the source that the loop hands to the path.

\* doSourceStaticSetReady.  A stream that is there already is replaced.  The
\* close timer is started, and a request that was on hold stops it again.
DoSetReady ==
    /\ ssPath = "select" /\ ssLoop = "setReady"
    /\ ssLoop' = "select" /\ ssRun' = "serve"
    /\ ssStream' = TRUE
    /\ ssUser' = IF ssUser = "hold" THEN "reading" ELSE ssUser
    /\ ssOd' = IF ~ssOnDemand THEN ssOd ELSE IF ssUser = "hold" THEN "ready" ELSE "closing"
    /\ UNCHANGED <<ssKind, ssOnDemand, ssPath, ssCtx, ssPause, ssConfVars>>

\* setReady returns an error: the order to the backend failed, or stream.New,
\* whose result is assigned to pa.stream all the same.
DoSetReadyFails ==
    /\ ssPath = "select" /\ ssLoop = "setReady"
    /\ ssLoop' = "select" /\ ssRun' = Refused
    /\ ssStream' \in {ssStream, FALSE}
    /\ UNCHANGED <<ssKind, ssOnDemand, ssPath, ssOd, ssUser, ssCtx, ssPause, ssConfVars>>

\* Mutant: an on-demand source is stopped before the response is sent.
DoSetNotReadyStopsFirst ==
    /\ ssPath = "select" /\ ssLoop = "setNotReady"
    /\ ssLoop' = "select" /\ ssStream' = FALSE
    /\ ssUser' = (IF ssUser = "reading" THEN "none" ELSE ssUser)
    /\ IF ssOnDemand /\ ssOd # "initial"
       THEN ssOd' = "initial" /\ StopSource("stop") /\ UNCHANGED ssRun
       ELSE ssRun' = "ended" /\ UNCHANGED <<ssOd, ssPath, ssCtx, ssNews>>
    /\ UNCHANGED <<ssKind, ssOnDemand, ssPause, ssVer, ssMissed>>

\* doSourceStaticSetNotReady: the response, then stop.
DoSetNotReady ==
    /\ ssPath = "select" /\ ssLoop = "setNotReady"
    /\ ssLoop' = "select" /\ ssRun' = "ended"
    /\ ssStream' = FALSE
    /\ ssUser' = IF ssUser = "reading" THEN "none" ELSE ssUser
    /\ IF ssOnDemand /\ ssOd # "initial" THEN ssOd' = "initial" /\ StopSource("stop")
       ELSE UNCHANGED <<ssOd, ssPath, ssCtx, ssNews>>
    /\ UNCHANGED <<ssKind, ssOnDemand, ssPause, ssVer, ssMissed>>

\* staticSourceHandlerSetReady and SetNotReady give up: the context of the
\* path, or that of the handler, is done.
GiveUp ==
    /\ ssLoop \in {"setReady", "setNotReady"}
    /\ ssCtx = "done" \/ ssPath \in {"ending", "endstop", "ended"}
    /\ ssLoop' = "select" /\ ssRun' = IF ssLoop = "setReady" THEN Refused ELSE "ended"
    /\ UNCHANGED <<ssKind, ssOnDemand, ssPathVars, ssCtx, ssPause, ssConfVars>>

-----------------------------------------------------------------------------
\* The loop of staticSourceHandler.run.

\* runCtxCancel: the goroutines that hold versions for this Run give up.  (The
\* next Run comes after the pause, or with a channel of its own.)
Cancelled(news) == [news EXCEPT !.run = {}]

RunFails ==
    /\ ssLoop = "select" /\ ssRun = "ended" /\ ~ssPause
    /\ ssPause' = TRUE /\ ssRun' = "off" /\ ssNews' = Cancelled(ssNews)
    /\ UNCHANGED <<ssKind, ssOnDemand, ssPathVars, ssCtx, ssLoop, ssVer, ssMissed>>

TakeSetReady ==
    /\ ssLoop = "select" /\ ssRun = "sendReady"
    /\ ssLoop' = "setReady" /\ ssRun' = "waitReady"
    /\ UNCHANGED <<ssKind, ssOnDemand, ssPathVars, ssCtx, ssPause, ssConfVars>>

TakeSetNotReady ==
    /\ ssLoop = "select" /\ ssRun = "sendNot"
    /\ ssLoop' = "setNotReady" /\ ssRun' = "waitNot"
    /\ UNCHANGED <<ssKind, ssOnDemand, ssPathVars, ssCtx, ssPause, ssConfVars>>

\* The versions after the loop has received v.
Received(v) ==
    [loop |-> ssNews.loop \ {v}, late |-> ssNews.late \ {v},
     run |-> IF ssPause THEN {} ELSE ssNews.run \cup {v}]

\* Mutant: the loop hands a configuration on and does not keep it.
TakeReloadForRun ==
    /\ ssLoop = "select"
    /\ \E v \in ssNews.loop \cup ssNews.late : ssNews' = Received(v)
    /\ UNCHANGED <<ssKind, ssOnDemand, ssPathVars, ssCtx, ssLoop, ssPause, ssRun, ssVer,
                   ssMissed>>

\* A new configuration is kept, and handed on by a goroutine of its own.
TakeReload ==
    /\ ssLoop = "select"
    /\ \E v \in ssNews.loop \cup ssNews.late :
         ssVer' = [ssVer EXCEPT !.loop = v] /\ ssNews' = Received(v)
    /\ ssMissed' = (ssMissed \/ ssNews.run # {})
    /\ UNCHANGED <<ssKind, ssOnDemand, ssPathVars, ssCtx, ssLoop, ssPause, ssRun>>

\* recreateTimer
Recreate ==
    /\ ssLoop = "select" /\ ssPause
    /\ ssPause' = FALSE /\ ssRun' = "connect"
    /\ ssVer' = [ssVer EXCEPT !.run = ssVer.loop]
    /\ UNCHANGED <<ssKind, ssOnDemand, ssPathVars, ssCtx, ssLoop, ssNews, ssMissed>>

\* s.ctx is done: Run is cancelled and awaited, unless there is none.
LoopDone ==
    /\ ssLoop = "select" /\ ssCtx = "done"
    /\ ssLoop' = IF ssPause THEN "off" ELSE "await"
    /\ ssNews' = Cancelled(ssNews)
    /\ UNCHANGED <<ssKind, ssOnDemand, ssPathVars, ssCtx, ssPause, ssRun, ssVer, ssMissed>>

RunAwaited ==
    /\ ssLoop = "await" /\ ssRun = "ended"
    /\ ssLoop' = "off" /\ ssRun' = "off"
    /\ UNCHANGED <<ssKind, ssOnDemand, ssPathVars, ssCtx, ssPause, ssConfVars>>

-----------------------------------------------------------------------------
\* Run of a source.  A source whose context is cancelled closes its connection,
\* which ends the goroutine that reads.

Connected ==
    /\ ssRun = "connect" /\ ssRun' = "sendReady"
    /\ UNCHANGED <<ssKind, ssOnDemand, ssPathVars, ssCtx, ssLoop, ssPause, ssConfVars>>

ConnectFails ==
    /\ ssRun = "connect" /\ ssRun' = "ended"
    /\ UNCHANGED <<ssKind, ssOnDemand, ssPathVars, ssCtx, ssLoop, ssPause, ssConfVars>>

SourceFails ==
    /\ ssRun = "serve"
    /\ ssRun' = IF TellsNotReady THEN "sendNot" ELSE "ended"
    /\ UNCHANGED <<ssKind, ssOnDemand, ssPathVars, ssCtx, ssLoop, ssPause, ssConfVars>>

\* SetReady and SetNotReady, when s.ctx is done
SourceTerminated ==
    /\ ssRun \in {"sendReady", "sendNot"} /\ ssCtx = "done"
    /\ ssRun' = IF ssRun = "sendReady" THEN Refused ELSE "ended"
    /\ UNCHANGED <<ssKind, ssOnDemand, ssPathVars, ssCtx, ssLoop, ssPause, ssConfVars>>

\* case <-params.ReloadConf, of a select that runs while the source connects
\* and reads in a goroutine of its own
RunReloads ==
    /\ ssRun \notin {"off", "ended"} /\ TakesReload
    /\ \E v \in ssNews.run :
         /\ ssNews' = [ssNews EXCEPT !.run = @ \ {v}]
         /\ ssVer' = [ssVer EXCEPT !.run = v]
    /\ UNCHANGED <<ssKind, ssOnDemand, ssPathVars, ssCtx, ssLoop, ssPause, ssRun, ssMissed>>

-----------------------------------------------------------------------------
\* doReloadConf and staticSourceHandler.reloadConf: a handler that does not
\* run is not told.
ReloadSource ==
    /\ ssPath = "select" /\ ssVer.path < MaxSsReloads
    /\ ssVer' = [ssVer EXCEPT !.path = @ + 1]
    /\ IF ssLoop = "off" THEN ssMissed' = TRUE /\ UNCHANGED ssNews
       ELSE /\ ssNews' = [ssNews EXCEPT !.loop = @ \cup {ssVer.path + 1}]
            /\ ssMissed' = (ssMissed \/ ssNews.loop \cup ssNews.late # {})
    /\ UNCHANGED <<ssKind, ssOnDemand, ssPathVars, ssCtx, ssLoop, ssPause, ssRun>>

\* The goroutine of reloadConf sees that the context it was born with is done.
ReloadDropped ==
    /\ \E v \in ssNews.late : ssNews' = [ssNews EXCEPT !.late = @ \ {v}]
    /\ ssMissed' = TRUE
    /\ UNCHANGED <<ssKind, ssOnDemand, ssPathVars, ssCtx, ssLoop, ssPause, ssRun, ssVer>>

SsNext ==
    \/ FirstDemand \/ ClientArrives \/ ClientLeaves \/ StartTimesOut \/ CloseTimer
    \/ SourceStopped \/ PathEnds \/ PathCloses
    \/ DoSetReady \/ DoSetReadyFails \/ DoSetNotReady \/ GiveUp
    \/ RunFails \/ TakeSetReady \/ TakeSetNotReady \/ TakeReload \/ Recreate
    \/ LoopDone \/ RunAwaited
    \/ Connected \/ ConnectFails \/ SourceFails \/ SourceTerminated \/ RunReloads
    \/ ReloadSource \/ ReloadDropped

\* What goes on once stop was called: Run ends when it is cancelled, because
\* its connection is closed or its timeouts pass.
SsWindDown ==
    \/ SourceStopped \/ RunAwaited \/ GiveUp \/ SourceTerminated
    \/ ssLoop = "await" /\ (Connected \/ ConnectFails \/ SourceFails)

\* A camera that is cancelled closes the pipe its frames come from: it does not
\* call SetReady, and is refused, for ever.
FramesEnd == ssLoop = "await" /\ ConnectFails

\* Go's select chooses at random among the cases that are ready, and so takes
\* the end of the context in the end: strong fairness of LoopDone.
SsSpec ==
    SsInit /\ [][SsNext]_ssVars /\ WF_ssVars(SsWindDown)
    /\ SF_ssVars(LoopDone) /\ SF_ssVars(FramesEnd)

-----------------------------------------------------------------------------

SsTypeOK ==
    /\ ssKind \in SsKinds /\ ssOnDemand \in BOOLEAN
    /\ ssPath \in {"select", "stop", "ending", "endstop", "ended"}
    /\ ssOd \in {"initial", "waiting", "ready", "closing"}
    /\ ssUser \in {"none", "hold", "reading"}
    /\ ssStream \in BOOLEAN /\ ssPause \in BOOLEAN /\ ssMissed \in BOOLEAN
    /\ ssCtx \in {"none", "open", "done"}
    /\ ssLoop \in {"off", "select", "setReady", "setNotReady", "await"}
    /\ ssRun \in {"off", "connect", "sendReady", "waitReady", "serve", "sendNot", "waitNot",
                  "ended"}
    /\ LET V == 0 .. MaxSsReloads IN
       /\ ssVer \in [path : V, loop : V, run : V]
       /\ ssNews \in [loop : SUBSET V, late : SUBSET V, run : SUBSET V]

\* What stop leaves: neither the loop nor Run nor a stream.
StoppedMeansGone ==
    (ssPath \in {"select", "ended"} /\ ssLoop = "off") => ssRun = "off" /\ ~ssStream

\* The path has a stream only while Run serves it or is about to say that it
\* ends, and the on-demand timer that closes the source never runs under a
\* reader.  Both fail for the SRT source, which never says that it ends.
StreamHasSource ==
    TellsNotReady =>
        /\ ssStream /\ ssPath # "ending" => ssRun \in {"serve", "sendNot", "waitNot"}
        /\ ssOd = "closing" => ssUser # "reading"

\* The loop, and a camera that runs, work with the configuration of the path
\* once nothing is under way, unless a version was lost or overtaken.
SourceConfCurrent ==
    (~ssMissed /\ ssNews.loop = {} /\ ssNews.late = {}) =>
        /\ ssVer.loop = ssVer.path
        /\ (ssKind = "rpicamera" /\ ssNews.run = {} /\ ssRun # "off" /\ ssLoop # "await") =>
             ssVer.run = ssVer.loop

\* The three together.
SourceSound == StoppedMeansGone /\ StreamHasSource /\ SourceConfCurrent

\* stop returns, whatever the loop and the source were doing when it was called
\* (the comment "in order to avoid a deadlock due to staticSourceHandler.stop()").
StopReturns ==
    (ssPath \in {"stop", "endstop"}) ~> (ssPath \in {"select", "ended"})
=============================================================================
