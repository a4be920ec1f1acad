----------------------------- MODULE WebrtcServer -----------------------------
(***************************************************************************)
(* The WebRTC server of mediamtx (internal/servers/webrtc), with the peer  *)
(* connection and the track set-up of internal/protocols/webrtc.  A POST   *)
(* of a client asks the server's loop for a session, hands itself over to  *)
(* the session's goroutine and waits for its answer; the session goes on,  *)
(* waits for the peer and for its tracks, and serves.  PATCH brings        *)
(* candidates to a second goroutine of the session, DELETE and the API     *)
(* cancel it.  The path is seen as the set of its users.                   *)
(***************************************************************************)
EXTENDS Naturals

CONSTANT WtSessions    \* the sessions that clients ask for

VARIABLES
    wtServer,    \* "up", "closing" (context cancelled) or "down"
    wtIndex,     \* s.sessions and s.sessionsBySecret
    wtPost,      \* session |-> where the handler of its POST stands
    wtRole,      \* session |-> "read" or "publish"
    wtSt,        \* session |-> where its goroutine stands
    wtDone,      \* sessions whose context is cancelled
    wtPc,        \* sessions with an open peer connection
    wtCand,      \* session |-> readRemoteCandidates
    wtPatch,     \* session |-> the handler of a PATCH
    wtHooked,    \* sessions whose onRead hook ran, onUnread not yet
    wtUsers, wtReaders,   \* users of the path; readers of its stream
    wtAudio,     \* the stream has audio that WebRTC cannot carry
    wtStream,    \* the path's stream exists
    wtLeaked     \* readers that nobody will remove

wtVars == <<wtServer, wtIndex, wtPost, wtRole, wtSt, wtDone, wtPc, wtCand, wtPatch,
            wtHooked, wtUsers, wtReaders, wtAudio, wtStream, wtLeaked>>
pathState == <<wtUsers, wtReaders, wtAudio, wtStream, wtLeaked>>

WtInit ==
    /\ wtServer = "up" /\ wtIndex = {} /\ wtDone = {} /\ wtPc = {} /\ wtHooked = {}
    /\ wtPost = [w \in WtSessions |-> "idle"] /\ wtSt = [w \in WtSessions |-> "none"]
    /\ wtRole \in [WtSessions -> {"read", "publish"}]
    /\ wtCand = [w \in WtSessions |-> "none"] /\ wtPatch = [w \in WtSessions |-> "idle"]
    /\ wtUsers = {} /\ wtReaders = {} /\ wtStream \in BOOLEAN /\ wtLeaked = {}
    /\ wtAudio \in BOOLEAN

At(w, st) == wtSt[w] = st
To(w, st) == wtSt' = [wtSt EXCEPT ![w] = st]
Answer(w, what) == wtPost' = [wtPost EXCEPT ![w] = what]

-----------------------------------------------------------------------------
\* The handlers of HTTP requests and the server's loop.

\* onWHIPPost and newSession: chNewSession, whose session starts its goroutine.
PostNewSession(w) ==
    /\ wtPost[w] = "idle"
    /\ IF wtServer = "up"
       THEN /\ wtIndex' = wtIndex \cup {w} /\ To(w, "fresh") /\ Answer(w, "created")
       ELSE Answer(w, "refused") /\ UNCHANGED <<wtIndex, wtSt>>
    /\ UNCHANGED <<wtServer, wtRole, wtDone, wtPc, wtCand, wtPatch, wtHooked>>
    /\ UNCHANGED pathState

\* session.new: the handler meets the session's goroutine at chNew, or finds its
\* context cancelled.
PostMeetsSession(w) ==
    /\ wtPost[w] = "created" /\ At(w, "fresh")
    /\ Answer(w, "waiting") /\ To(w, "asking")
    /\ UNCHANGED <<wtServer, wtIndex, wtRole, wtDone, wtPc, wtCand, wtPatch, wtHooked>>
    /\ UNCHANGED pathState
PostTerminated(w) ==
    /\ wtPost[w] = "created" /\ w \in wtDone /\ Answer(w, "refused")
    /\ UNCHANGED <<wtServer, wtIndex, wtRole, wtSt, wtDone, wtPc, wtCand, wtPatch, wtHooked>>
    /\ UNCHANGED pathState

\* onWHIPPatch, addSessionCandidates: the session is found by its secret, which
\* the client has from the answer to its POST.
PatchFinds(w) ==
    /\ wtServer = "up" /\ wtPost[w] = "answered" /\ wtPatch[w] = "idle"
    /\ wtPatch' = [wtPatch EXCEPT ![w] = IF w \in wtIndex THEN "found" ELSE "idle"]
    /\ UNCHANGED <<wtServer, wtIndex, wtPost, wtRole, wtSt, wtDone, wtPc, wtCand, wtHooked>>
    /\ UNCHANGED pathState

\* session.addCandidates: the goroutine takes the request and answers it.  After
\* a candidate that pc refuses it answers a second time, which nobody takes.
PatchServed(w) ==
    /\ wtPatch[w] = "found" /\ wtCand[w] = "serving"
    /\ wtPatch' = [wtPatch EXCEPT ![w] = "idle"]
    /\ \/ UNCHANGED wtCand
       \/ wtCand' = [wtCand EXCEPT ![w] = "stuck"]
    /\ UNCHANGED <<wtServer, wtIndex, wtPost, wtRole, wtSt, wtDone, wtPc, wtHooked>>
    /\ UNCHANGED pathState
PatchTerminated(w) ==
    /\ wtPatch[w] = "found" /\ w \in wtDone
    /\ wtPatch' = [wtPatch EXCEPT ![w] = "idle"]
    /\ UNCHANGED <<wtServer, wtIndex, wtPost, wtRole, wtSt, wtDone, wtPc, wtCand, wtHooked>>
    /\ UNCHANGED pathState
\* readRemoteCandidates ends with the session's context.
CandidatesEnd(w) ==
    /\ wtCand[w] = "serving" /\ w \in wtDone
    /\ wtCand' = [wtCand EXCEPT ![w] = "over"]
    /\ UNCHANGED <<wtServer, wtIndex, wtPost, wtRole, wtSt, wtDone, wtPc, wtPatch, wtHooked>>
    /\ UNCHANGED pathState

\* chDeleteSession and chAPIConnsKick
DeleteSession(w) ==
    /\ wtServer = "up" /\ w \in wtIndex
    /\ wtIndex' = wtIndex \ {w} /\ wtDone' = wtDone \cup {w}
    /\ UNCHANGED <<wtServer, wtPost, wtRole, wtSt, wtPc, wtCand, wtPatch, wtHooked>>
    /\ UNCHANGED pathState

\* Close, and the end of run: wg.Wait, httpServer.close.
WtClose ==
    /\ wtServer = "up" /\ wtServer' = "closing"
    /\ wtDone' = wtDone \cup {w \in WtSessions : ~At(w, "none")}
    /\ UNCHANGED <<wtIndex, wtPost, wtRole, wtSt, wtPc, wtCand, wtPatch, wtHooked>>
    /\ UNCHANGED pathState
WtClosed ==
    /\ wtServer = "closing" /\ \A w \in WtSessions : wtSt[w] \in {"none", "gone"}
    /\ wtServer' = "down"
    /\ UNCHANGED <<wtIndex, wtPost, wtRole, wtSt, wtDone, wtPc, wtCand, wtPatch, wtHooked>>
    /\ UNCHANGED pathState

\* The path: somebody else publishes to it, or it ends and closes its users.
PathGetsStream ==
    /\ ~wtStream /\ {w \in wtUsers : wtRole[w] = "publish"} = {}
    /\ wtStream' = TRUE
    /\ UNCHANGED <<wtServer, wtIndex, wtPost, wtRole, wtSt, wtDone, wtPc, wtCand, wtPatch,
                   wtHooked, wtUsers, wtReaders, wtAudio, wtLeaked>>
PathEnds ==
    /\ wtUsers # {} \/ wtStream
    /\ wtDone' = wtDone \cup wtUsers
    /\ wtUsers' = {} /\ wtStream' = FALSE /\ wtReaders' = {} /\ wtLeaked' = {}
    /\ UNCHANGED <<wtServer, wtIndex, wtPost, wtRole, wtSt, wtPc, wtCand, wtPatch, wtHooked,
                   wtAudio>>

-----------------------------------------------------------------------------
\* The session's goroutine.

\* runInner: the context may end before the handler arrives.
FreshTerminated(w) ==
    /\ At(w, "fresh") /\ w \in wtDone /\ To(w, "ending")
    /\ UNCHANGED <<wtServer, wtIndex, wtPost, wtRole, wtDone, wtPc, wtCand, wtPatch, wtHooked>>
    /\ UNCHANGED pathState

\* AddReader or AddPublisher; the refusal is the answer to the POST.
JoinPath(w) ==
    /\ At(w, "asking")
    /\ \/ /\ IF wtRole[w] = "read" THEN wtStream
             ELSE ~wtStream /\ {u \in wtUsers : wtRole[u] = "publish"} = {}
          /\ wtUsers' = wtUsers \cup {w} /\ UNCHANGED wtPost
          /\ To(w, IF wtRole[w] = "read" THEN "tracks" ELSE "start")
       \/ Answer(w, "refused") /\ To(w, "ending") /\ UNCHANGED wtUsers
    /\ UNCHANGED <<wtServer, wtIndex, wtRole, wtDone, wtPc, wtCand, wtPatch, wtHooked,
                   wtReaders, wtAudio, wtStream, wtLeaked>>

\* The stream forgot its readers with the path.
Register(w) == wtReaders \cup ({w} \cap wtUsers)

\* FromStream: the video track is registered first; audio that cannot be carried
\* is an error then, and runRead leaves without RemoveReader.
FromStream(w) ==
    /\ At(w, "tracks")
    /\ \/ Answer(w, "refused") /\ To(w, "leaving") /\ UNCHANGED <<wtReaders, wtLeaked>>
       \/ /\ wtReaders' = Register(w)
          /\ IF wtAudio
             THEN /\ wtLeaked' = wtLeaked \cup ({w} \cap wtUsers)
                  /\ Answer(w, "refused") /\ To(w, "leaving")
             ELSE To(w, "start") /\ UNCHANGED <<wtPost, wtLeaked>>
    /\ UNCHANGED <<wtServer, wtIndex, wtRole, wtDone, wtPc, wtCand, wtPatch, wtHooked,
                   wtUsers, wtAudio, wtStream>>

\* pc.Start
StartPeer(w) ==
    /\ At(w, "start")
    /\ \/ To(w, "offer") /\ wtPc' = wtPc \cup {w} /\ UNCHANGED <<wtPost, wtReaders>>
       \/ /\ Answer(w, "refused") /\ To(w, "leaving")
          /\ wtReaders' = wtReaders \ {w} /\ UNCHANGED wtPc
    /\ UNCHANGED <<wtServer, wtIndex, wtRole, wtDone, wtCand, wtPatch, wtHooked, wtUsers,
                   wtAudio, wtStream, wtLeaked>>

\* The offer is checked, CreateFullAnswer gathers the candidates, writeAnswer
\* answers the POST, and readRemoteCandidates starts.
AnswerOffer(w) ==
    /\ At(w, "offer")
    /\ \/ /\ Answer(w, "answered") /\ To(w, "connecting")
          /\ wtCand' = [wtCand EXCEPT ![w] = "serving"] /\ UNCHANGED wtReaders
       \/ /\ Answer(w, "refused") /\ To(w, "leaving")
          /\ wtReaders' = wtReaders \ {w} /\ UNCHANGED wtCand
    /\ UNCHANGED <<wtServer, wtIndex, wtRole, wtDone, wtPc, wtPatch, wtHooked, wtUsers,
                   wtAudio, wtStream, wtLeaked>>

\* Mutant: a reader whose peer does not come in time stays registered.
WaitUntilReadyKeeps(w) ==
    /\ At(w, "connecting")
    /\ To(w, IF wtRole[w] = "read" THEN "serve" ELSE "gather") \/ To(w, "leaving")
    /\ UNCHANGED <<wtServer, wtIndex, wtPost, wtRole, wtDone, wtPc, wtCand, wtPatch, wtHooked>>
    /\ UNCHANGED pathState

\* WaitUntilReady: the peer connects, or the deadline or the context ends it.
WaitUntilReady(w) ==
    /\ At(w, "connecting")
    /\ \/ /\ To(w, IF wtRole[w] = "read" THEN "serve" ELSE "gather") /\ UNCHANGED wtReaders
       \/ To(w, "leaving") /\ wtReaders' = wtReaders \ {w}
    /\ UNCHANGED <<wtServer, wtIndex, wtPost, wtRole, wtDone, wtPc, wtCand, wtPatch, wtHooked,
                   wtUsers, wtAudio, wtStream, wtLeaked>>

\* The reader's last steps: the hook and StartReader.
StartReading(w) ==
    /\ At(w, "serve") /\ To(w, "active") /\ wtHooked' = wtHooked \cup {w}
    /\ UNCHANGED <<wtServer, wtIndex, wtPost, wtRole, wtDone, wtPc, wtCand, wtPatch>>
    /\ UNCHANGED pathState

\* GatherIncomingTracks (deadline, failure, context), ToStream and
\* StartPublisher, which a path that forgot the publisher refuses.
PublishTracks(w) ==
    /\ At(w, "gather")
    /\ \/ w \in wtUsers /\ wtStream' = TRUE /\ To(w, "active")
       \/ To(w, "leaving") /\ UNCHANGED wtStream
    /\ UNCHANGED <<wtServer, wtIndex, wtPost, wtRole, wtDone, wtPc, wtCand, wtPatch, wtHooked,
                   wtUsers, wtReaders, wtAudio, wtLeaked>>

\* The last select: the peer fails, the reader's callback fails (B-frames, a full
\* queue), the context ends; RemoveReader and onUnreadHook are deferred.
StopServing(w) ==
    /\ At(w, "active") /\ To(w, "leaving")
    /\ wtReaders' = wtReaders \ {w} /\ wtHooked' = wtHooked \ {w}
    /\ UNCHANGED <<wtServer, wtIndex, wtPost, wtRole, wtDone, wtPc, wtCand, wtPatch, wtUsers,
                   wtAudio, wtStream, wtLeaked>>

\* The deferred pc.Close and path.RemoveReader or RemovePublisher.
WtLeavePath(w) ==
    LET last == w \in wtUsers /\ wtRole[w] = "publish" IN
    /\ At(w, "leaving") /\ To(w, "ending") /\ wtPc' = wtPc \ {w}
    /\ wtUsers' = IF last THEN {} ELSE wtUsers \ {w}
    /\ wtDone' = IF last THEN wtDone \cup (wtUsers \ {w}) ELSE wtDone
    /\ wtReaders' = IF last THEN {} ELSE wtReaders
    /\ wtLeaked' = IF last THEN {} ELSE wtLeaked
    /\ wtStream' = (wtStream /\ ~last)
    /\ UNCHANGED <<wtServer, wtIndex, wtPost, wtRole, wtCand, wtPatch, wtHooked, wtAudio>>

\* The end of run: the context is cancelled, closeSession.
SessionGone(w) ==
    /\ At(w, "ending") /\ To(w, "gone") /\ wtDone' = wtDone \cup {w}
    /\ wtIndex' = IF wtServer = "up" THEN wtIndex \ {w} ELSE wtIndex
    /\ UNCHANGED <<wtServer, wtPost, wtRole, wtPc, wtCand, wtPatch, wtHooked>>
    /\ UNCHANGED pathState

WtNext ==
    \/ WtClose \/ WtClosed \/ PathGetsStream \/ PathEnds
    \/ \E w \in WtSessions :
         \/ PostNewSession(w) \/ PostMeetsSession(w) \/ PostTerminated(w)
         \/ PatchFinds(w) \/ PatchServed(w) \/ PatchTerminated(w) \/ CandidatesEnd(w)
         \/ DeleteSession(w) \/ FreshTerminated(w) \/ JoinPath(w) \/ FromStream(w)
         \/ StartPeer(w) \/ AnswerOffer(w) \/ WaitUntilReady(w) \/ StartReading(w)
         \/ PublishTracks(w) \/ StopServing(w) \/ WtLeavePath(w) \/ SessionGone(w)

WtSpec == WtInit /\ [][WtNext]_wtVars

-----------------------------------------------------------------------------
WtTypeOK ==
    /\ wtServer \in {"up", "closing", "down"}
    /\ wtPost \in [WtSessions -> {"idle", "created", "waiting", "answered", "refused"}]
    /\ wtSt \in [WtSessions -> {"none", "fresh", "asking", "tracks", "start", "offer",
                     "connecting", "serve", "gather", "active", "leaving", "ending", "gone"}]
    /\ wtRole \in [WtSessions -> {"read", "publish"}] /\ wtPatch \in [WtSessions -> {"idle", "found"}]
    /\ wtCand \in [WtSessions -> {"none", "serving", "stuck", "over"}]
    /\ wtStream \in BOOLEAN /\ wtAudio \in BOOLEAN
    /\ \A s \in {wtIndex, wtDone, wtPc, wtHooked, wtUsers, wtReaders, wtLeaked} :
         s \subseteq WtSessions

\* A session that is over has answered its POST exactly when the handler reached
\* it, and has left nothing behind on any of its ways out: no user of the path,
\* no peer connection, no hook, no entry in the index and no reader of the stream,
\* except the one that runRead abandons when the audio track cannot be carried.
\* And the server is closed only once the path is rid of all of them.
SessionAnswersAndLeaves ==
    /\ \A w \in WtSessions : wtSt[w] = "gone" =>
         /\ wtPost[w] # "waiting"
         /\ w \notin wtUsers \cup wtPc \cup wtHooked
         /\ wtServer = "up" => w \notin wtIndex
         /\ w \in wtReaders => w \in wtLeaked
    /\ wtServer = "down" => wtUsers = {} /\ wtPc = {}
=============================================================================
