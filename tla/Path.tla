-------------------------------- MODULE Path --------------------------------
(***************************************************************************)
(* A path of mediamtx (mediamtx/internal/core/path.go): the goroutine that  *)
(* owns the source, the stream and the readers of one name, serves the      *)
(* requests of publishers, readers and the static source one at a time,     *)
(* starts and stops its source on demand, and orders the backend to         *)
(* transcode the stream while somebody publishes                            *)
(* (mediamtx/internal/liveStream).                                          *)
(*                                                                          *)
(* A request is one step: runInner takes it from its channel, runs the      *)
(* whole do... function and then, in the cases where the code asks          *)
(* shouldClose, may leave the loop and tear the path down.  The functions   *)
(* that the do... functions share are operators from a path to a path.      *)
(* What a handler answers is not kept: a request that is not on hold has    *)
(* been answered.  Redirects (source: redirect, fallback) answer at once    *)
(* and change nothing, as an offline path does that is not on demand.       *)
(***************************************************************************)
EXTENDS Integers, FiniteSets, Sequences

CONSTANTS
    Publishers,     \* the publisher objects, one per connection
    Readers,        \* the reader objects, one per connection
    Static,         \* the *staticSourceHandler
    None,           \* the nil source
    SourceKind,     \* conf.Source: "publisher", or "static" for a URL
    OnDemand,       \* conf.SourceOnDemand, or conf.RunOnDemand is set
    IsRegexp, MaxReaders,   \* as in conf.Path
    TranscoderMayFail,  \* may the orders to the backend be lost or refused
    MayTerminate    \* may pathManager close the path (new configuration)

ASSUME PathConstants ==
    /\ None \notin Publishers /\ Static \notin Publishers /\ None # Static
    /\ SourceKind \in {"publisher", "static"}
    /\ OnDemand \in BOOLEAN /\ IsRegexp \in BOOLEAN /\ MaxReaders \in Nat
    /\ TranscoderMayFail \in BOOLEAN /\ MayTerminate \in BOOLEAN
    /\ IsFiniteSet(Readers)
    /\ IsRegexp /\ SourceKind = "static" => OnDemand   \* conf.Path.validate

HasOnDemandStaticSource == SourceKind = "static" /\ OnDemand
HasOnDemandPublisher    == SourceKind = "publisher" /\ OnDemand

VARIABLES
    pa,         \* the path struct
    life,       \* has the path served a request, is its loop over, or did it
                \* panic and end the server (in StartPublisher, RemovePublisher)
    record,     \* conf.Record, the option a reload may change in place
    slash,      \* does the name of the path contain a "/"
    override,   \* conf.OverridePublisher
    pub,        \* how far a publisher is with this path
    instance,   \* has GlobalLiveStreamInstance an entry for the name
    transcode   \* does the backend transcode the stream, as far as it was told

vars == <<pa, life, record, slash, override, pub, instance, transcode>>
confVars == <<record, slash, override>>
liveVars == <<instance, transcode>>

\* pathOnDemandStateInitial, WaitingReady, Ready, Closing.
OnDemandStates == {"initial", "waiting", "ready", "closing"}

\* initialize and the first lines of run.  "told" are the readers that were
\* told to close and whose RemoveReader is still to come; "supplier" says
\* that the static source runs, or that onUnDemandHook is set because the
\* runOnDemand command runs.
NewPath ==
    [source     |-> IF SourceKind = "static" THEN Static ELSE None,
     stream     |-> FALSE,
     recorder   |-> FALSE,
     readers    |-> {},
     told       |-> {},
     describing |-> {},
     adding     |-> <<>>,
     od         |-> "initial",
     readyTimer |-> FALSE,
     closeTimer |-> FALSE,
     supplier   |-> SourceKind = "static" /\ ~OnDemand]

\* The values of the path struct.
Paths ==
    [source : Publishers \cup {Static, None}, stream : BOOLEAN, recorder : BOOLEAN,
     readers : SUBSET Readers, told : SUBSET Readers,
     describing : SUBSET Readers, adding : Seq(Readers), od : OnDemandStates,
     readyTimer : BOOLEAN, closeTimer : BOOLEAN, supplier : BOOLEAN]

Init ==
    /\ pa = NewPath
    /\ life = "created"
    /\ record \in BOOLEAN
    /\ slash \in BOOLEAN
    /\ override \in BOOLEAN
    /\ pub = [p \in Publishers |-> "out"]
    /\ instance = FALSE
    /\ transcode = FALSE

Serving == life \in {"created", "running"}
OnHold(s) == s.describing \cup {s.adding[i] : i \in DOMAIN s.adding}
Idle(r) == r \notin OnHold(pa) \cup pa.readers \cup pa.told

-----------------------------------------------------------------------------
(* The functions the handlers share.                                        *)

\* onDemandStaticSourceStart, onDemandPublisherStart
OnDemandStart(s) ==
    [s EXCEPT !.od = "waiting", !.readyTimer = TRUE, !.supplier = TRUE]

\* onDemandStaticSourceScheduleClose, onDemandPublisherScheduleClose
ScheduleClose(s) == [s EXCEPT !.od = "closing", !.closeTimer = TRUE]

\* onDemandStaticSourceStop, onDemandPublisherStop
OnDemandStop(s) ==
    [s EXCEPT !.od = "initial", !.supplier = FALSE,
              !.closeTimer = @ /\ s.od # "closing"]

\* Mutant: the limit is checked once for all the requests on hold.
AddReaderPostOnce(s, q) ==
    LET room == IF MaxReaders = 0 \/ Cardinality(s.readers) < MaxReaders
                THEN Len(q) ELSE 0
        kept == room > 0 /\ OnDemand /\ s.od = "closing"
    IN  [s EXCEPT !.readers = @ \cup {q[i] : i \in 1..room},
                  !.od = IF kept THEN "ready" ELSE @,
                  !.closeTimer = @ /\ ~kept]

\* addReaderPost for each of the requests q, in order: the ones that find
\* room are admitted, and the first of them keeps the source from closing.
AddReaderPost(s, q) ==
    LET room  == IF MaxReaders = 0 \/ Cardinality(s.readers) + Len(q) <= MaxReaders
                 THEN Len(q) ELSE MaxReaders - Cardinality(s.readers)
        kept  == room > 0 /\ OnDemand /\ s.od = "closing"
    IN  [s EXCEPT !.readers = @ \cup {q[i] : i \in 1..room},
                  !.od = IF kept THEN "ready" ELSE @,
                  !.closeTimer = @ /\ ~kept]

\* Mutant: the requests to read that were served stay on hold.
ConsumeKeepsAdding(s) ==
    AddReaderPost([s EXCEPT !.describing = {}], s.adding)

\* consumeOnHoldRequests
ConsumeOnHold(s) ==
    AddReaderPost([s EXCEPT !.describing = {}, !.adding = <<>>], s.adding)

\* Mutant: the ready timer is not stopped when the source is ready.
GoReadyTimerRuns(s) ==
    LET ready == [s EXCEPT !.stream = TRUE, !.recorder = record]
        on    == OnDemand /\ (SourceKind = "static" \/ s.od # "initial")
    IN  ConsumeOnHold(IF on THEN ScheduleClose(ready) ELSE ready)

\* setReady once the backend took the order and stream.New succeeded; its
\* callers then stop the ready timer, schedule the closing of an on-demand
\* source (a publisher nobody demanded is left alone) and serve the requests
\* on hold.
GoReady(s) ==
    LET ready == [s EXCEPT !.stream = TRUE, !.recorder = record]
        on    == OnDemand /\ (SourceKind = "static" \/ s.od # "initial")
    IN  ConsumeOnHold(IF on THEN ScheduleClose([ready EXCEPT !.readyTimer = FALSE])
                            ELSE ready)

\* Mutant: readers are told to close and removed only when they leave.
SetNotReadyKeepsReaders(s) ==
    [s EXCEPT !.stream = FALSE, !.recorder = FALSE, !.told = @ \cup s.readers]

\* setNotReady
SetNotReady(s) ==
    [s EXCEPT !.stream = FALSE, !.recorder = FALSE,
              !.told = @ \cup s.readers, !.readers = {}]

\* executeRemovePublisher
ExecuteRemovePublisher(s) ==
    [IF s.stream THEN SetNotReady(s) ELSE s EXCEPT !.source = None]

\* A request that finds an on-demand path off the air demands its source.
Demand(s) == IF s.od = "initial" THEN OnDemandStart(s) ELSE s

\* Mutant: the ready timer answers only the requests to read.
TimeOutKeepsDescribes(s) ==
    OnDemandStop([s EXCEPT !.adding = <<>>, !.readyTimer = FALSE])

\* The ready timer answers everybody on hold with an error.
TimeOut(s) ==
    OnDemandStop([s EXCEPT !.describing = {}, !.adding = <<>>, !.readyTimer = FALSE])

ShouldClose(s) ==
    /\ IsRegexp
    /\ s.source = None
    /\ s.readers = {}
    /\ OnHold(s) = {}

\* The end of run: timers stopped, requests on hold refused, stream, source
\* and runOnDemand command closed.  The publishers and readers that still
\* know this path find its context done: their requests do nothing.
Teardown ==
    /\ pa' = [NewPath EXCEPT !.source = None, !.supplier = FALSE]
    /\ life' = "done"
    /\ pub' = [p \in Publishers |-> "out"]

\* A handler leaves the path as s and its publishers as ps, and the loop of
\* runInner does not ask shouldClose.
Stay(s, ps) ==
    /\ pa' = s
    /\ life' = "running"
    /\ pub' = ps

\* The same when runInner asks shouldClose.
Settle(s, ps) == IF ShouldClose(s) THEN Teardown ELSE Stay(s, ps)

\* An order to the backend: RetryApi takes any answer for a success, sends an
\* empty body when it repeats a request, and may time out on a call that the
\* backend served.
Outcomes ==
    IF TranscoderMayFail THEN [err : BOOLEAN, obeyed : BOOLEAN]
                         ELSE {[err |-> FALSE, obeyed |-> TRUE]}
Told(o, order) == transcode' = IF o.obeyed THEN order ELSE transcode

\* A panic in the goroutine of the path ends the server.
Panic(where) ==
    /\ life' = where
    /\ UNCHANGED <<pa, pub, confVars, liveVars>>

-----------------------------------------------------------------------------
(* Readers.                                                                 *)

DoDescribe(r) ==
    /\ Serving /\ Idle(r)
    /\ Settle(IF pa.stream \/ ~OnDemand THEN pa
              ELSE [Demand(pa) EXCEPT !.describing = @ \cup {r}], pub)
    /\ UNCHANGED <<confVars, liveVars>>

DoAddReader(r) ==
    /\ Serving /\ Idle(r)
    /\ Settle(IF pa.stream THEN AddReaderPost(pa, <<r>>)
              ELSE IF ~OnDemand THEN pa
              ELSE [Demand(pa) EXCEPT !.adding = Append(@, r)], pub)
    /\ UNCHANGED <<confVars, liveVars>>

\* A reader leaves, by itself or because it was told to close.
DoRemoveReader(r) ==
    /\ Serving /\ r \in pa.readers \cup pa.told
    /\ LET s == [pa EXCEPT !.readers = @ \ {r}, !.told = @ \ {r}]
       IN  Stay(IF s.readers = {} /\ s.od = "ready" THEN ScheduleClose(s) ELSE s, pub)
    /\ UNCHANGED <<confVars, liveVars>>

-----------------------------------------------------------------------------
(* Publishers: AddPublisher when a client announces a stream, StartPublisher *)
(* when it sends it, StopPublisher on an RTSP pause, RemovePublisher when    *)
(* the connection ends.                                                      *)

\* Mutant: a new publisher takes the place of the old one and of its stream.
AddPublisherSwaps(p) ==
    /\ Serving /\ SourceKind = "publisher" /\ pub[p] = "out"
    /\ pa.source = None \/ override
    /\ Stay([pa EXCEPT !.source = p], [pub EXCEPT ![p] = "added"])
    /\ UNCHANGED <<confVars, liveVars>>

\* Mutant: overridePublisher is not looked at.
AddPublisherAlways(p) ==
    /\ Serving /\ SourceKind = "publisher" /\ pub[p] = "out"
    /\ LET s == IF pa.source = None THEN pa ELSE ExecuteRemovePublisher(pa)
       IN  Stay([s EXCEPT !.source = p], [pub EXCEPT ![p] = "added"])
    /\ UNCHANGED <<confVars, liveVars>>

DoAddPublisher(p) ==
    /\ Serving /\ SourceKind = "publisher" /\ pub[p] = "out"
    /\ pa.source = None \/ override
    /\ LET s == IF pa.source = None THEN pa ELSE ExecuteRemovePublisher(pa)
       IN  Stay([s EXCEPT !.source = p], [pub EXCEPT ![p] = "added"])
    /\ UNCHANGED <<confVars, liveVars>>

\* AddPublisher is refused: the path has a source that stays.
RefusePublisher(p) ==
    /\ Serving /\ pub[p] = "out"
    /\ SourceKind # "publisher" \/ (pa.source # None /\ ~override)
    /\ Stay(pa, pub)
    /\ UNCHANGED <<confVars, liveVars>>

\* The order to the backend and stream.New succeed.
DoStartPublisher(p) ==
    /\ Serving /\ slash /\ pub[p] = "added" /\ pa.source = p
    /\ \E o \in Outcomes : ~o.err /\ Told(o, TRUE)
    /\ instance' = TRUE
    /\ Stay(GoReady(pa), [pub EXCEPT ![p] = "started"])
    /\ UNCHANGED confVars

\* The order fails, or it succeeds and stream.New fails.
StartPublisherFails(p) ==
    /\ Serving /\ slash /\ pub[p] = "added" /\ pa.source = p
    /\ \E o \in Outcomes : Told(o, TRUE)
    /\ instance' = TRUE
    /\ Stay(pa, pub)
    /\ UNCHANGED confVars

\* NewLiveStream takes the part of the name after the "/".
StartPublisherPanics(p) ==
    /\ Serving /\ ~slash /\ pub[p] = "added" /\ pa.source = p
    /\ Panic("panicStart")

\* StartPublisher of a publisher that was overridden is refused.
StartPublisherRefused(p) ==
    /\ Serving /\ pub[p] = "added" /\ pa.source # p
    /\ Stay(pa, pub)
    /\ UNCHANGED <<confVars, liveVars>>

DoStopPublisher(p) ==
    /\ Serving /\ pub[p] = "started"
    /\ Settle(IF pa.source = p /\ pa.stream THEN SetNotReady(pa) ELSE pa,
              [pub EXCEPT ![p] = "added"])
    /\ UNCHANGED <<confVars, liveVars>>

\* Mutant: runInner does not ask shouldClose after a publisher has left.
RemovePublisherLingers(p) ==
    /\ Serving /\ pub[p] # "out" /\ instance
    /\ \E o \in Outcomes : Told(o, FALSE)
    /\ Stay(IF pa.source = p THEN ExecuteRemovePublisher(pa) ELSE pa,
            [pub EXCEPT ![p] = "out"])
    /\ UNCHANGED <<confVars, instance>>

\* Mutant: the backend is told to stop only if the stream was on the air.
RemovePublisherStopsOnline(p) ==
    /\ Serving /\ pub[p] # "out" /\ instance
    /\ \E o \in Outcomes : Told(o, transcode /\ ~pa.stream)
    /\ Settle(IF pa.source = p THEN ExecuteRemovePublisher(pa) ELSE pa,
              [pub EXCEPT ![p] = "out"])
    /\ UNCHANGED <<confVars, instance>>

\* The backend is told to stop whoever the source is.
DoRemovePublisher(p) ==
    /\ Serving /\ pub[p] # "out" /\ instance
    /\ \E o \in Outcomes : Told(o, FALSE)
    /\ Settle(IF pa.source = p THEN ExecuteRemovePublisher(pa) ELSE pa,
              [pub EXCEPT ![p] = "out"])
    /\ UNCHANGED <<confVars, instance>>

\* GetLiveStreamInstance returns nil for a name nobody has started yet.
RemovePublisherPanics(p) ==
    /\ Serving /\ pub[p] # "out" /\ ~instance
    /\ Panic("panicRemove")

-----------------------------------------------------------------------------
(* The static source.  Its instance reports ready once per run and not      *)
(* ready when the run ends (the SRT source leaves the second report out:     *)
(* module StaticSource); stop, inside the handlers of the path, waits for    *)
(* the end of the run and makes the reports still to come be refused.        *)

StaticSetReady ==
    /\ Serving /\ SourceKind = "static" /\ pa.supplier /\ ~pa.stream /\ slash
    /\ \E o \in Outcomes : ~o.err /\ Told(o, TRUE)
    /\ instance' = TRUE
    /\ pa' = GoReady(pa)
    /\ UNCHANGED <<life, pub, confVars>>

StaticSetReadyFails ==
    /\ Serving /\ SourceKind = "static" /\ pa.supplier /\ ~pa.stream /\ slash
    /\ \E o \in Outcomes : Told(o, TRUE)
    /\ instance' = TRUE
    /\ UNCHANGED <<pa, life, pub, confVars>>

StaticSetReadyPanics ==
    /\ Serving /\ SourceKind = "static" /\ pa.supplier /\ ~pa.stream /\ ~slash
    /\ Panic("panicStart")

\* Mutant: an on-demand source that failed is left running.
StaticFailsAndStays ==
    /\ Serving /\ SourceKind = "static" /\ pa.supplier /\ pa.stream
    /\ Settle(SetNotReady(pa), pub)
    /\ UNCHANGED <<confVars, liveVars>>

StaticSetNotReady ==
    /\ Serving /\ SourceKind = "static" /\ pa.supplier /\ pa.stream
    /\ LET s == SetNotReady(pa)
       IN  Settle(IF OnDemand /\ pa.od # "initial" THEN OnDemandStop(s) ELSE s, pub)
    /\ UNCHANGED <<confVars, liveVars>>

-----------------------------------------------------------------------------
(* Timers, configuration and pathManager.                                   *)

ReadyTimerFires ==
    /\ Serving /\ pa.readyTimer
    /\ Settle(TimeOut(pa), pub)
    /\ UNCHANGED <<confVars, liveVars>>

\* Of a static source: the stream ends and the source is stopped.
StaticCloseTimerFires ==
    /\ Serving /\ HasOnDemandStaticSource /\ pa.closeTimer
    /\ Settle(OnDemandStop(SetNotReady(pa)), pub)
    /\ UNCHANGED <<confVars, liveVars>>

\* Of the runOnDemand command: the command is stopped, and the publisher it
\* was leaves on its own.
PublisherCloseTimerFires ==
    /\ Serving /\ HasOnDemandPublisher /\ pa.closeTimer
    /\ Stay(OnDemandStop(pa), pub)
    /\ UNCHANGED <<confVars, liveVars>>

\* Mutant: recording starts with the next stream only.
ReloadConfNextStream ==
    /\ Serving
    /\ record' = ~record
    /\ pa' = [pa EXCEPT !.recorder = ~record /\ @]
    /\ UNCHANGED <<life, slash, override, pub, liveVars>>

\* doReloadConf with another value of record.
DoReloadConf ==
    /\ Serving
    /\ record' = ~record
    /\ pa' = [pa EXCEPT !.recorder = ~record /\ (@ \/ pa.stream)]
    /\ UNCHANGED <<life, slash, override, pub, liveVars>>

\* pathManager closes a path whose configuration changed or is gone.
Terminate ==
    /\ Serving /\ MayTerminate
    /\ Teardown
    /\ UNCHANGED <<confVars, liveVars>>

\* pathManager creates the path again for the next request.
Reopen ==
    /\ life = "done"
    /\ pa' = NewPath
    /\ life' = "created"
    /\ UNCHANGED <<pub, confVars, liveVars>>

ReaderNext(r) == DoDescribe(r) \/ DoAddReader(r) \/ DoRemoveReader(r)

PublisherNext(p) ==
    \/ DoAddPublisher(p) \/ RefusePublisher(p)
    \/ DoStartPublisher(p) \/ StartPublisherFails(p)
    \/ StartPublisherPanics(p) \/ StartPublisherRefused(p)
    \/ DoStopPublisher(p)
    \/ DoRemovePublisher(p) \/ RemovePublisherPanics(p)

StaticNext ==
    \/ StaticSetReady \/ StaticSetReadyFails \/ StaticSetReadyPanics
    \/ StaticSetNotReady

TimerNext == ReadyTimerFires \/ StaticCloseTimerFires \/ PublisherCloseTimerFires

Next ==
    \/ \E r \in Readers : ReaderNext(r)
    \/ \E p \in Publishers : PublisherNext(p)
    \/ StaticNext
    \/ TimerNext
    \/ DoReloadConf \/ Terminate \/ Reopen

Spec == Init /\ [][Next]_vars

\* A running timer fires and runInner takes it (select is fair among the
\* cases that are ready), and a reader that was told to close ends.  Nothing
\* is asked of clients, sources or the backend.
FairSpec ==
    /\ Spec
    /\ WF_vars(TimerNext)
    /\ \A r \in Readers : WF_vars(r \in pa.told /\ DoRemoveReader(r))

-----------------------------------------------------------------------------
(* Properties.                                                              *)

\* The type of the state.  No reader is known to the path twice.
TypeOK ==
    /\ pa \in Paths
    /\ life \in {"created", "running", "done", "panicStart", "panicRemove"}
    /\ record \in BOOLEAN /\ slash \in BOOLEAN /\ override \in BOOLEAN
    /\ pub \in [Publishers -> {"out", "added", "started"}]
    /\ instance \in BOOLEAN /\ transcode \in BOOLEAN
    /\ pa.readers \cap pa.told = {}
    /\ OnHold(pa) \cap (pa.readers \cup pa.told) = {}
    /\ \A i, j \in DOMAIN pa.adding : pa.adding[i] = pa.adding[j] => i = j

\* The limit of addReaderPost holds, also when all the requests on hold are
\* admitted at once.
ReaderLimit == MaxReaders = 0 \/ Cardinality(pa.readers) <= MaxReaders

\* The on-demand state machine agrees with what it controls, through every
\* order of requests, timers and departures: a ready timer runs exactly while
\* the source is awaited and a close timer exactly while it is about to be
\* closed, so no timer of an earlier demand can fire into a later one; the
\* static source or the runOnDemand command runs exactly outside the initial
\* state, so start and stop never meet the panic of staticSourceHandler and
\* no command is started over another; and a static source that is awaited
\* is off the air, one that is ready has readers.
OnDemandConsistent ==
    /\ pa.readyTimer <=> pa.od = "waiting"
    /\ pa.closeTimer <=> pa.od = "closing"
    /\ OnDemand => (pa.supplier <=> pa.od # "initial")
    /\ pa.od = "waiting" => ~pa.stream
    /\ HasOnDemandStaticSource =>
         /\ pa.stream <=> pa.od \in {"ready", "closing"}
         /\ pa.od = "ready" => pa.readers # {}

\* A stream on the air has a source, a publisher that is still there, and it
\* is recorded exactly when the configuration in force says so, whether the
\* stream or the reload came first (setReady, setNotReady, doReloadConf).
StreamOwned ==
    /\ pa.stream => pa.source # None
    /\ pa.source \in Publishers => pub[pa.source] # "out"
    /\ pa.stream /\ pa.source \in Publishers => pub[pa.source] = "started"
    /\ pa.recorder <=> pa.stream /\ record

\* A path that exists because of a regular expression and has served its
\* first request is in use: runInner asks shouldClose in some of its cases
\* only, and still no case leaves an unused path behind.
NoIdlePath == life = "running" => ~ShouldClose(pa)

\* Whatever is on the air is being transcoded: no later order to the backend
\* has stopped the transcoding of the stream that is being published
\* (doRemovePublisher stops it whoever leaves).
StreamIsTranscoded == pa.stream => transcode

\* When all publishers have gone, the last order to the backend was to stop.
TranscodeStops ==
    (Serving \/ life = "done") /\ (\A p \in Publishers : pub[p] = "out")
        => ~transcode

\* The backend transcodes what is sent to the path while it is sent and, if
\* publishers send it and the manager lets the path run, no longer, where a
\* publisher cannot be overridden and the backend obeys: then the orders of
\* StartPublisher and RemovePublisher match.
TranscodeFollowsStream ==
    (~override /\ ~TranscoderMayFail) =>
        /\ StreamIsTranscoded
        /\ (SourceKind = "publisher" /\ ~MayTerminate) => TranscodeStops

\* A request on hold is answered: with the stream, by the timer, or because
\* the path ends.
HeldRequestAnswered ==
    \A r \in Readers :
        (Serving /\ r \in OnHold(pa)) ~> (~Serving \/ r \notin OnHold(pa))

\* What the proofs of the invariants and of the refinement need besides them:
\* readers are attached only to a stream on the air, and requests are on hold
\* only off the air, of an on-demand path.
ReadersNeedStream ==
    /\ pa.readers # {} => pa.stream
    /\ OnHold(pa) # {} => ~pa.stream /\ OnDemand

\* The source of a static path is its handler, that of any other path is a
\* publisher; a path nobody has used yet, or that has ended, has none.
LifeConsistent ==
    /\ SourceKind = "publisher" => pa.source # Static
    /\ SourceKind = "static" =>
         /\ pa.source = IF life = "done" THEN None ELSE Static
         /\ pa.stream => pa.supplier
    /\ ~OnDemand => pa.od = "initial"
    /\ life = "done" =>
         /\ pa.source = None /\ pa.told = {} /\ pa.od = "initial"
         /\ ~pa.stream /\ OnHold(pa) = {}
    /\ life = "created" /\ SourceKind = "publisher" =>
         /\ pa.source = None /\ pa.told = {} /\ pa.od = "initial"
         /\ OnHold(pa) = {}
    /\ life \in {"created", "done"} => \A p \in Publishers : pub[p] = "out"

\* The inductive invariant of the path.
PathInv ==
    /\ OnDemandConsistent /\ StreamOwned /\ NoIdlePath
    /\ ReadersNeedStream /\ LifeConsistent

\* The path, with all its timers, holds and overrides, behaves as the switch
\* that is promised to readers.
Switch == INSTANCE StreamSwitch WITH
    Sources  <- Publishers \cup {Static},
    online   <- IF pa.stream THEN pa.source ELSE None,
    attached <- pa.readers,
    waiting  <- OnHold(pa)

ImplementsSwitch == Switch!SwitchSpec
=============================================================================
