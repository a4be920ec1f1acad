--------------------------- MODULE CoreResources ---------------------------
(***************************************************************************)
(* The resources of mediamtx's Core (internal/core/core.go): fifteen       *)
(* components created in a fixed order, each from the configuration and    *)
(* from pointers to components created before it.  A reload compares the   *)
(* options of the old and of the new configuration, closes, from the last  *)
(* to the first, every component one of whose options changed or that      *)
(* depends on a closed one, lets some of the others reload a value in      *)
(* place, and creates again what is missing.                               *)
(*                                                                         *)
(* The values of the options do not matter, only which of them changed:    *)
(* options that every component treats alike are one option here.          *)
(***************************************************************************)
EXTENDS Naturals, FiniteSets, Sequences

CONSTANTS Switchable,     \* optional components that a reload may turn on and off
          Changes         \* the sets of options that a reload may find changed

VARIABLES crUp,       \* the components that exist
          crLive,     \* component |-> the current components it points at
          crDead,     \* component |-> the closed components it still points at
          crOld,      \* component |-> its options that are not the configured ones
          crOn,       \* the optional components that the configuration enables
          crTodo,     \* the components that this reload has still to close
          crPhase     \* "creating", "running", "closing", "done" or "panic"

crVars == <<crUp, crLive, crDead, crOld, crOn, crTodo, crPhase>>

-----------------------------------------------------------------------------

\* The order in which createResources creates; closeResources goes backwards.
Order == <<"logger", "auth", "metrics", "pprof", "cleaner", "playback",
           "pathManager", "rtsp", "rtsps", "rtmp", "rtmps", "hls", "webrtc",
           "srt", "api">>

Comps == {Order[i] : i \in DOMAIN Order}
Servers == {"rtsp", "rtsps", "rtmp", "rtmps", "hls", "webrtc", "srt"}
Support == {"logger", "auth", "metrics", "pprof", "cleaner", "playback", "pathManager"}
Optional == Servers \cup {"metrics", "pprof", "playback", "api"}

Entry(opts, refs) == [opts |-> opts, refs |-> refs]

\* What each component is created from: options and components.
SupportUses ==
    [logger      |-> Entry({"logLevel", "logDestinations"}, {}),
     auth        |-> Entry({"auth", "users", "readTimeout", "rtspAuth"}, {}),
     metrics     |-> Entry({"metrics", "readTimeout"}, {"auth", "logger"}),
     pprof       |-> Entry({"pprof", "readTimeout"}, {"auth", "logger"}),
     cleaner     |-> Entry({"paths"}, {"logger"}),
     playback    |-> Entry({"playback", "readTimeout", "paths"}, {"auth", "logger"}),
     pathManager |-> Entry({"logLevel", "rtspAddress", "readTimeout", "writeTimeout",
                            "writeQueueSize", "udpMaxPayloadSize", "paths"},
                           {"auth", "logger"})]

RTSPUses ==
    [rtsp  |-> Entry({"rtsp", "rtspAddress", "rtspAuth", "readTimeout", "writeTimeout",
                      "writeQueueSize", "rtpAddresses", "rtspTransports", "runOnConnect"},
                     {"pathManager", "logger"}),
     rtsps |-> Entry({"rtsp", "rtspsAddress", "rtspAddress", "rtspAuth", "readTimeout",
                      "writeTimeout", "writeQueueSize", "rtspTransports", "runOnConnect"},
                     {"pathManager", "logger"})]

RTMPUses ==
    [rtmp  |-> Entry({"rtmp", "rtmpAddress", "rtspAddress", "readTimeout", "writeTimeout",
                      "runOnConnect"}, {"pathManager", "logger"}),
     rtmps |-> Entry({"rtmp", "rtmpsAddress", "rtspAddress", "readTimeout", "writeTimeout",
                      "runOnConnect"}, {"pathManager", "logger"})]

HTTPAndSRTUses ==
    [hls    |-> Entry({"hls", "readTimeout"}, {"pathManager", "logger"}),
     webrtc |-> Entry({"webrtc", "readTimeout"}, {"pathManager", "logger"}),
     srt    |-> Entry({"srt", "rtspAddress", "readTimeout", "writeTimeout",
                       "udpMaxPayloadSize", "runOnConnect"}, {"pathManager", "logger"})]

APIUses ==
    [api |-> Entry({"api", "readTimeout"}, {"auth", "pathManager", "logger"} \cup Servers)]

Uses ==
    [c \in Comps |-> CASE c \in Support -> SupportUses[c]
                       [] c \in {"rtsp", "rtsps"} -> RTSPUses[c]
                       [] c \in {"rtmp", "rtmps"} -> RTMPUses[c]
                       [] c \in {"hls", "webrtc", "srt"} -> HTTPAndSRTUses[c]
                       [] OTHER -> APIUses[c]]

\* Which components are told of a component when it is created, and that it
\* is gone before it is closed: SetPathManager, Set...Server, setHLSServer.
Informed(c) == (IF c \in Servers \cup {"pathManager"} THEN {"metrics"} ELSE {})
           \cup (IF c = "hls" THEN {"pathManager"} ELSE {})

\* The close... conditions: options whose change closes a component and
\* components that are not closed without it.
SupportWatches ==
    [logger      |-> Entry({"logLevel", "logDestinations"}, {}),
     auth        |-> Entry({"auth", "readTimeout", "rtspAuth"}, {}),
     metrics     |-> Entry({"metrics", "readTimeout"}, {"auth", "logger"}),
     pprof       |-> Entry({"pprof", "readTimeout"}, {"auth", "logger"}),
     cleaner     |-> Entry({}, {"logger"}),
     playback    |-> Entry({"playback", "readTimeout"}, {"auth", "logger"}),
     pathManager |-> Entry({"logLevel", "rtspAddress", "rtspAuth", "readTimeout",
                            "writeTimeout", "writeQueueSize", "udpMaxPayloadSize"},
                           {"metrics", "auth", "logger"})]

RTSPWatches ==
    [rtsp  |-> Entry({"rtsp", "rtspAddress", "rtspAuth", "readTimeout", "writeTimeout",
                      "writeQueueSize", "rtpAddresses", "rtspTransports", "runOnConnect"},
                     {"metrics", "pathManager", "logger"}),
     rtsps |-> Entry({"rtsp", "rtspsAddress", "rtspAddress", "rtspAuth", "readTimeout",
                      "writeTimeout", "writeQueueSize", "rtspTransports", "runOnConnect"},
                     {"metrics", "pathManager", "logger"})]

RTMPWatches ==
    [rtmp  |-> Entry({"rtmp", "rtmpAddress", "rtspAddress", "readTimeout", "writeTimeout",
                      "runOnConnect"}, {"metrics", "pathManager", "logger"}),
     rtmps |-> Entry({"rtmp", "rtmpsAddress", "rtspAddress", "readTimeout", "writeTimeout",
                      "runOnConnect"}, {"metrics", "pathManager", "logger"})]

HTTPAndSRTWatches ==
    [hls    |-> Entry({"hls", "readTimeout"}, {"metrics", "pathManager", "logger"}),
     webrtc |-> Entry({"webrtc", "readTimeout"}, {"metrics", "pathManager", "logger"}),
     srt    |-> Entry({"srt", "rtspAddress", "readTimeout", "writeTimeout",
                       "udpMaxPayloadSize", "runOnConnect"}, {"pathManager", "logger"})]

\* Mutant: closeRTMPServer is forgotten too.
APIWatchesNoRTMP ==
    [api |-> Entry({"api", "readTimeout"},
                   {"auth", "pathManager", "rtsp", "rtsps", "hls", "webrtc", "srt", "logger"})]

\* closeRTMPSServer is not among the conditions of closeAPI.
APIWatches ==
    [api |-> Entry({"api", "readTimeout"},
                   {"auth", "pathManager", "rtsp", "rtsps", "rtmp", "hls", "webrtc", "srt",
                    "logger"})]

Watches ==
    [c \in Comps |-> CASE c \in Support -> SupportWatches[c]
                       [] c \in {"rtsp", "rtsps"} -> RTSPWatches[c]
                       [] c \in {"rtmp", "rtmps"} -> RTMPWatches[c]
                       [] c \in {"hls", "webrtc", "srt"} -> HTTPAndSRTWatches[c]
                       [] OTHER -> APIWatches[c]]

\* Mutant: a path manager that stays is not given the new paths.
ReloadedExceptPathManager ==
    [c \in Comps |-> CASE c = "auth" -> {"users"}
                       [] c \in {"cleaner", "playback"} -> {"paths"}
                       [] OTHER -> {}]

\* The options a component that stays is given in place (ReloadInternalUsers,
\* ReloadPathConfs).
Reloaded == [c \in Comps |-> CASE c = "auth" -> {"users"}
                               [] c \in {"cleaner", "playback", "pathManager"} -> {"paths"}
                               [] OTHER -> {}]

Options == UNION {Uses[c].opts \cup Watches[c].opts : c \in Comps}

ASSUME ReloadChoices == Switchable \subseteq Optional /\ Changes \subseteq SUBSET Options

\* The boolean option (for RTSP and RTMP with the encryption) behind a component.
SwitchOf(c) == CASE c = "rtsps" -> "rtsp" [] c = "rtmps" -> "rtmp" [] OTHER -> c

\* closeResources: what a change of the options closes.
Closed(changed) ==
    LET closedUpTo[i \in 0 .. Len(Order)] ==
            IF i = 0 THEN {}
            ELSE LET k == Order[i]
                     before == closedUpTo[i - 1]
                 IN IF \/ Watches[k].opts \cap changed # {}
                       \/ Watches[k].refs \cap before # {}
                    THEN before \cup {k} ELSE before
    IN closedUpTo[Len(Order)]

-----------------------------------------------------------------------------

Wanted == (Comps \ Optional) \cup crOn
Position(c) == CHOOSE i \in DOMAIN Order : Order[i] = c
Nothing == [c \in Comps |-> {}]

\* New: the first configuration enables everything.
CoreInit ==
    /\ crUp = {} /\ crLive = Nothing /\ crDead = Nothing /\ crOld = Nothing
    /\ crOn = Optional /\ crTodo = {} /\ crPhase = "creating"

Missing == Wanted \ crUp
FirstMissing(c) == c \in Missing /\ \A d \in Missing : Position(c) <= Position(d)

\* createResources, one component: it exists, and those told of it point at it.
CreateComponent(c) ==
    /\ crPhase = "creating" /\ FirstMissing(c)
    /\ crUp' = crUp \cup {c}
    /\ crLive' = [k \in Comps |->
                    IF k = c THEN Uses[c].refs \cap crUp
                    ELSE IF k \in Informed(c) \cap crUp THEN crLive[k] \cup {c}
                    ELSE crLive[k]]
    /\ crDead' = [crDead EXCEPT ![c] = {}]
    /\ crOld' = [crOld EXCEPT ![c] = {}]
    /\ UNCHANGED <<crOn, crTodo, crPhase>>

CreateDone ==
    /\ crPhase = "creating" /\ Missing = {}
    /\ crPhase' = "running"
    /\ UNCHANGED <<crUp, crLive, crDead, crOld, crOn, crTodo>>

\* Mutant: closeResources does not ask whether a component was created.
CreateFailsClosesAll(c) ==
    /\ crPhase = "creating" /\ FirstMissing(c)
    /\ crPhase' = "stopping" /\ crTodo' = Comps
    /\ UNCHANGED <<crUp, crLive, crDead, crOld, crOn>>

\* Initialize, or logger.New, returns an error: New and run report it with
\* p.Log and close everything.  run calls p.Log without the check that New
\* has, and in closeResources it is called again before the hooks are awaited.
CreateFails(c) ==
    /\ crPhase = "creating" /\ FirstMissing(c)
    /\ c \notin {"auth", "cleaner", "pathManager"}
    /\ crPhase' = IF "logger" \in crUp THEN "stopping" ELSE "panic"
    /\ crTodo' = IF "logger" \in crUp THEN crUp ELSE {}
    /\ UNCHANGED <<crUp, crLive, crDead, crOld, crOn>>

\* reloadConf with a configuration in which some options differ.
Reload ==
    /\ crPhase = "running"
    /\ \E changed \in Changes, flipped \in SUBSET Switchable :
         /\ \A c \in flipped : SwitchOf(c) \in changed
         /\ crOn' = (crOn \ flipped) \cup (flipped \ crOn)
         /\ crTodo' = Closed(changed) \cap crUp
         /\ crOld' = [k \in Comps |->
                        IF k \in crUp \ Closed(changed)
                        THEN crOld[k] \cup ((Uses[k].opts \cap changed) \ Reloaded[k])
                        ELSE crOld[k]]
    /\ crPhase' = "closing"
    /\ UNCHANGED <<crUp, crLive, crDead>>

\* Core.Close, the interrupt, or a file that does not load: closeResources(nil).
Stop ==
    /\ crPhase = "running"
    /\ crPhase' = "stopping" /\ crTodo' = crUp
    /\ UNCHANGED <<crUp, crLive, crDead, crOld, crOn>>

\* closeResources, one component: those told of it forget it first.
CloseComponent(c) ==
    /\ crPhase \in {"closing", "stopping"}
    /\ c \in crTodo /\ \A d \in crTodo : Position(d) <= Position(c)
    /\ crUp' = crUp \ {c}
    /\ crTodo' = crTodo \ {c}
    /\ crLive' = [k \in Comps |-> IF k = c THEN {} ELSE crLive[k] \ {c}]
    /\ crDead' = [k \in Comps |->
                    IF k = c THEN {}
                    ELSE IF k \in crUp \ Informed(c) /\ c \in crLive[k]
                         THEN crDead[k] \cup {c} ELSE crDead[k]]
    /\ crOld' = [crOld EXCEPT ![c] = {}]
    /\ UNCHANGED <<crOn, crPhase>>

CloseDone ==
    /\ crPhase \in {"closing", "stopping"} /\ crTodo = {}
    /\ crPhase' = IF crPhase = "closing" THEN "creating" ELSE "done"
    /\ UNCHANGED <<crUp, crLive, crDead, crOld, crOn, crTodo>>

CoreNext ==
    \/ \E c \in Comps : CreateComponent(c) \/ CreateFails(c) \/ CloseComponent(c)
    \/ CreateDone \/ Reload \/ Stop \/ CloseDone

CoreSpec == CoreInit /\ [][CoreNext]_crVars

-----------------------------------------------------------------------------

CoreTypeOK ==
    /\ crUp \subseteq Comps /\ crTodo \subseteq crUp /\ crOn \subseteq Optional
    /\ crLive \in [Comps -> SUBSET Comps] /\ crDead \in [Comps -> SUBSET Comps]
    /\ crOld \in [Comps -> SUBSET Options]
    /\ crPhase \in {"creating", "running", "closing", "stopping", "done", "panic"}

\* At no point of a reload or of the end does a component point at a closed
\* one: dependents go first, metrics and the path manager are told.  The one
\* pointer closeResources misses is that of the API at the RTMPS server.
ReferencesCurrent ==
    \A k \in crUp : crDead[k] \subseteq (IF k = "api" THEN {"rtmps"} ELSE {})

\* Once a reload is over, every enabled component exists with the configured
\* options and points at the current instance of each existing component it
\* uses or must be told of, whatever changed and in however many reloads
\* (again but for the API and the RTMPS server).
SettingsCurrent ==
    crPhase = "running" =>
        /\ crUp = Wanted
        /\ \A k \in crUp :
             /\ crOld[k] = {}
             /\ LET due == (Uses[k].refs \cup {c \in Comps : k \in Informed(c)}) \cap crUp
                IN due \ crLive[k] \subseteq (IF k = "api" THEN {"rtmps"} ELSE {})

\* Both: whatever sequence of reloads, failures and stops, nobody uses what
\* was closed, and what runs is what is configured.
ResourcesCurrent == ReferencesCurrent /\ SettingsCurrent
=============================================================================
