------------------------------- MODULE MCLive -------------------------------
(***************************************************************************)
(* The components with liveness properties, for one run of TLC: a path     *)
(* with a static source, the path manager, the handler of a static source, *)
(* the readers of a stream, and the VOD pipeline.  They share no state:    *)
(* part says whose behaviours are explored, and the variables of the       *)
(* others rest.                                                            *)
(***************************************************************************)
EXTENDS Path, PathManager, StaticSource, StreamReaders

CONSTANTS Jobs, NoDelivery, JobsMayFail, MaxCrashes, MaxBrokerRestarts

\* The constants of VodPipeline.
ASSUME VodConstants ==
    /\ JobsMayFail \in BOOLEAN /\ MaxCrashes \in Nat /\ MaxBrokerRestarts \in Nat
    /\ NoDelivery \notin [tag : Nat, job : Jobs]

VARIABLES part, upload, doc, alive, consuming, crashes, step, cur, clientOpen, inbox, wire,
          brokerOpen, ready, unacked, nextTag, brokerRestarts, discarded

Vod == INSTANCE VodPipeline

vodVars == <<upload, doc, alive, consuming, crashes, step, cur, clientOpen, inbox, wire,
             brokerOpen, ready, unacked, nextTag, brokerRestarts, discarded>>
liveAll == <<vars, pmVars, ssVars, stVars, vodVars, part>>

LiveInit ==
    /\ Init /\ PmInit /\ SsInit /\ StInit /\ Vod!Init
    /\ part \in {"path", "manager", "source", "readers", "vod"}
    /\ part # "path" => record /\ slash /\ override   \* one initial state of what rests
    /\ part # "source" => ssKind = "rtsp" /\ ssOnDemand
    /\ part # "vod" => consuming

InPath(A) ==
    part = "path" /\ A /\ UNCHANGED <<pmVars, ssVars, stVars, vodVars, part>>
InManager(A) ==
    part = "manager" /\ A /\ UNCHANGED <<vars, ssVars, stVars, vodVars, part>>
InSource(A) ==
    part = "source" /\ A /\ UNCHANGED <<vars, pmVars, stVars, vodVars, part>>
InReaders(A) ==
    part = "readers" /\ A /\ UNCHANGED <<vars, pmVars, ssVars, vodVars, part>>
InVod(A) ==
    part = "vod" /\ A /\ UNCHANGED <<vars, pmVars, ssVars, stVars, part>>

LiveNext ==
    \/ InPath(Next) \/ InManager(PmNext) \/ InSource(SsNext) \/ InReaders(StNext)
    \/ InVod(Vod!Next)

\* The fairness that each component states for itself; the steps of the parts
\* that rest are guarded by part, so that nothing is asked of them.
LiveSpec ==
    /\ LiveInit /\ [][LiveNext]_liveAll
    /\ WF_liveAll(InPath(TimerNext))
    /\ \A r \in Readers : WF_liveAll(InPath(r \in pa.told /\ DoRemoveReader(r)))
    /\ WF_liveAll(InManager(PmProgress))
    /\ WF_liveAll(InSource(SsWindDown)) /\ SF_liveAll(InSource(LoopDone))
    /\ SF_liveAll(InSource(FramesEnd))
    /\ \A r \in StReaders :
        /\ WF_liveAll(InReaders(CallbackReturns(r)))
        /\ WF_liveAll(InReaders(PullClosed(r)))
        /\ WF_liveAll(InReaders(StopReader(r)))
        /\ SF_liveAll(InReaders(RemoveReader(r)))
    /\ WF_liveAll(InVod(Vod!ConsumerNext))
    /\ \A j \in Jobs : WF_liveAll(InVod(Vod!Deliver(j)))
    /\ WF_liveAll(InVod(Vod!BrokerTakesFrame))
    /\ WF_liveAll(InVod(Vod!ClientSeesClose))
    /\ WF_liveAll(InVod(Vod!Restart))

\* The types of the five components.
LiveTypeOK == TypeOK /\ PmTypeOK /\ SsTypeOK /\ StTypeOK /\ Vod!TypeOK

\* The broker does not close the channel while jobs succeed (VodPipeline).
ChannelSurvives == Vod!ChannelSurvives

\* Every accepted upload is transcoded in the end (VodPipeline).
AcceptedJobCompletes == Vod!AcceptedJobCompletes
=============================================================================
