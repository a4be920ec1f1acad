----------------------------- MODULE MCServers -----------------------------
(***************************************************************************)
(* The servers that clients talk to and the core that owns them, for one   *)
(* run of TLC: the path manager, the HLS server, RTMP and SRT connections, *)
(* what an RTMP client and the server say to each other, RTSP sessions,    *)
(* WebRTC sessions, Core's resources, and Core's configuration.  Each      *)
(* module carries what it needs of the path, and so they share no state:   *)
(* part says whose behaviours are explored, and the variables of the       *)
(* others rest in one initial state.                                       *)
(***************************************************************************)
EXTENDS PathManager, HlsServer, MediaClients, RtmpSession, CoreResources, CoreConf

VARIABLE part

\* Two configurations that differ in one or two options: what more of them
\* would close is the union of what each closes.
OneOrTwoOptions == {{a, b} : a, b \in Options}

ServersInit ==
    /\ PmInit /\ HlsInit /\ McInit /\ SessionInit /\ RtspInit /\ WtInit
    /\ CoreInit /\ ConfInit
    /\ part \in {"manager", "hls", "conns", "rtmp", "rtsp", "webrtc",
                 "resources", "conf"}
    /\ part # "rtmp" =>
        rtMode = [publish |-> TRUE, enc |-> FALSE, path |-> CHOOSE p \in UrlPaths : TRUE]
    /\ part # "webrtc" =>
        wtStream /\ wtAudio /\ wtRole = [w \in WtSessions |-> "read"]

ServersNext ==
    \/ /\ part = "manager" /\ PmNext
       /\ UNCHANGED <<hlVars, mcVars, rtVars, rsVars, wtVars, crVars, ccVars, part>>
    \/ /\ part = "hls" /\ HlsNext
       /\ UNCHANGED <<pmVars, mcVars, rtVars, rsVars, wtVars, crVars, ccVars, part>>
    \/ /\ part = "conns" /\ McNext
       /\ UNCHANGED <<pmVars, hlVars, rtVars, rsVars, wtVars, crVars, ccVars, part>>
    \/ /\ part = "rtmp" /\ SessionNext
       /\ UNCHANGED <<pmVars, hlVars, mcVars, rsVars, wtVars, crVars, ccVars, part>>
    \/ /\ part = "rtsp" /\ RtspNext
       /\ UNCHANGED <<pmVars, hlVars, mcVars, rtVars, wtVars, crVars, ccVars, part>>
    \/ /\ part = "webrtc" /\ WtNext
       /\ UNCHANGED <<pmVars, hlVars, mcVars, rtVars, rsVars, crVars, ccVars, part>>
    \/ /\ part = "resources" /\ CoreNext
       /\ UNCHANGED <<pmVars, hlVars, mcVars, rtVars, rsVars, wtVars, ccVars, part>>
    \/ /\ part = "conf" /\ ConfNext
       /\ UNCHANGED <<pmVars, hlVars, mcVars, rtVars, rsVars, wtVars, crVars, part>>

\* The types of the eight components.
ServersTypeOK ==
    /\ PmTypeOK /\ HlsTypeOK /\ McTypeOK /\ SessionTypeOK /\ RtspTypeOK
    /\ WtTypeOK /\ CoreTypeOK /\ ConfTypeOK
=============================================================================
