----------------------------- MODULE RtspServer -----------------------------
(***************************************************************************)
(* mediamtx's RTSP server (internal/servers/rtsp): callbacks that the RTSP *)
(* library (external) calls, for each session one at a time in the         *)
(* session's goroutine, and API calls in goroutines of their own.  The     *)
(* index of connections and sessions is guarded by a read-write mutex,     *)
(* under which a waiting writer holds up new readers; a session's path,    *)
(* stream and hook are guarded by nothing.                                 *)
(*                                                                         *)
(* The library changes a session's state after the callback has returned,  *)
(* and may still refuse a SETUP then.                                      *)
(***************************************************************************)
EXTENDS Naturals

CONSTANT RtspSessions

VARIABLES rsState,    \* session |-> rsession.State(), or "closed"
          rsCall,     \* session |-> the callback that is running, or "none"
          rsPath,     \* sessions whose s.path is set
          rsIndex,    \* s.sessions
          rsHook,     \* sessions whose onRead hook ran, onUnread not yet
          rsUsers,    \* sessions that are reader or publisher of the path
          rsOdd,      \* history: kicked during a callback, or refused after one
          rsCrash,    \* a callback met a nil path
          rsReading,  \* APIConnsList: "no", "outer" (RLock held) or "inner"
          rsWriter    \* OnConnOpen or OnConnClose: "no", "waiting"

rsVars == <<rsState, rsCall, rsPath, rsIndex, rsHook, rsUsers, rsOdd, rsCrash,
            rsReading, rsWriter>>

RtspInit ==
    /\ rsState = [s \in RtspSessions |-> "none"]
    /\ rsCall = [s \in RtspSessions |-> "none"]
    /\ rsPath = {} /\ rsIndex = {} /\ rsHook = {} /\ rsUsers = {} /\ rsOdd = {}
    /\ rsCrash = FALSE /\ rsReading = "no" /\ rsWriter = "no"

locks == <<rsReading, rsWriter>>
Free(s) == rsCall[s] = "none" /\ ~rsCrash
Enters(s, call) == rsCall' = [rsCall EXCEPT ![s] = call]
Becomes(s, st) == /\ rsCall' = [rsCall EXCEPT ![s] = "none"]
                  /\ rsState' = [rsState EXCEPT ![s] = IF @ = "closed" THEN @ ELSE st]

-----------------------------------------------------------------------------

\* OnSessionOpen
OpenSession(s) ==
    /\ rsState[s] = "none" /\ rsReading = "no"
    /\ rsState' = [rsState EXCEPT ![s] = "initial"]
    /\ rsIndex' = rsIndex \cup {s}
    /\ UNCHANGED <<rsCall, rsPath, rsHook, rsUsers, rsOdd, rsCrash, locks>>

\* onAnnounce up to the answer of AddPublisher: the path has a publisher.
Announce(s) ==
    /\ rsState[s] = "initial" /\ Free(s)
    /\ \A u \in rsUsers : rsState[u] \in {"prePlay", "play", "closed"} \/ rsCall[u] = "setup"
    /\ rsUsers' = rsUsers \cup {s}
    /\ Enters(s, "announce")
    /\ UNCHANGED <<rsState, rsPath, rsIndex, rsHook, rsOdd, rsCrash, locks>>

\* The rest of onAnnounce, and the library's change of state.
AnnounceReturns(s) ==
    /\ rsCall[s] = "announce"
    /\ rsPath' = rsPath \cup {s}
    /\ Becomes(s, "preRecord")
    /\ UNCHANGED <<rsIndex, rsHook, rsUsers, rsOdd, rsCrash, locks>>

\* onSetup up to the answer of AddReader, which takes a reader twice.
SetupCall(s) ==
    /\ rsState[s] \in {"initial", "prePlay"} /\ Free(s)
    /\ rsUsers' = rsUsers \cup {s}
    /\ Enters(s, "setup")
    /\ UNCHANGED <<rsState, rsPath, rsIndex, rsHook, rsOdd, rsCrash, locks>>

\* The rest of onSetup; the library may refuse the media or the ports after it.
SetupReturns(s) ==
    /\ rsCall[s] = "setup"
    /\ rsPath' = rsPath \cup {s}
    /\ \/ Becomes(s, "prePlay") /\ UNCHANGED rsOdd
       \/ Becomes(s, rsState[s]) /\ rsOdd' = rsOdd \cup {s}
    /\ UNCHANGED <<rsIndex, rsHook, rsUsers, rsCrash, locks>>

\* onPlay: s.path is used, the hook is started.
Play(s) ==
    /\ rsState[s] = "prePlay" /\ Free(s)
    /\ Enters(s, "play")
    /\ rsCrash' = (s \notin rsPath)
    /\ rsHook' = rsHook \cup {s}
    /\ UNCHANGED <<rsState, rsPath, rsIndex, rsUsers, rsOdd, locks>>

PlayReturns(s) ==
    /\ rsCall[s] = "play"
    /\ Becomes(s, "play")
    /\ UNCHANGED <<rsPath, rsIndex, rsHook, rsUsers, rsOdd, rsCrash, locks>>

\* onRecord: StartPublisher on s.path.
Record(s) ==
    /\ rsState[s] = "preRecord" /\ Free(s)
    /\ rsCrash' = (s \notin rsPath)
    /\ Becomes(s, "record")
    /\ UNCHANGED <<rsPath, rsIndex, rsHook, rsUsers, rsOdd, locks>>

\* onPause
Pause(s) ==
    /\ rsState[s] \in {"play", "record"} /\ Free(s)
    /\ rsHook' = rsHook \ {s}
    /\ Becomes(s, IF rsState[s] = "play" THEN "prePlay" ELSE "preRecord")
    /\ UNCHANGED <<rsPath, rsIndex, rsUsers, rsOdd, rsCrash, locks>>

\* Mutant: a paused reader is not removed.
OnCloseRunning(s) ==
    /\ rsHook' = IF rsState[s] = "play" THEN rsHook \ {s} ELSE rsHook
    /\ rsUsers' = IF rsState[s] \in {"play", "preRecord", "record"}
                  THEN rsUsers \ {s} ELSE rsUsers
    /\ rsPath' = rsPath \ {s}

\* session.onClose: what is undone depends on the library's state.
OnClose(s) ==
    /\ rsHook' = IF rsState[s] = "play" THEN rsHook \ {s} ELSE rsHook
    /\ rsUsers' = IF rsState[s] \in {"prePlay", "play", "preRecord", "record"}
                  THEN rsUsers \ {s} ELSE rsUsers
    /\ rsPath' = rsPath \ {s}

\* APISessionsKick: the API's goroutine closes the session and itself runs
\* onClose, in the middle of a callback as well as between two.
KickSession(s) ==
    /\ s \in rsIndex /\ rsState[s] # "closed"
    /\ rsIndex' = rsIndex \ {s}
    /\ OnClose(s)
    /\ rsOdd' = IF rsCall[s] # "none" THEN rsOdd \cup {s} ELSE rsOdd
    /\ rsState' = [rsState EXCEPT ![s] = IF rsCall[s] = "none" THEN "closed" ELSE @]
    /\ UNCHANGED <<rsCall, rsCrash, locks>>

\* OnSessionClose, in the session's goroutine: the peer or the path is gone,
\* the session was closed, or it timed out.
SessionEnds(s) ==
    /\ rsState[s] \notin {"none", "closed"} /\ rsCall[s] = "none" /\ rsReading = "no"
    /\ rsState' = [rsState EXCEPT ![s] = "closed"]
    /\ rsIndex' = rsIndex \ {s}
    /\ IF s \in rsIndex THEN OnClose(s) ELSE UNCHANGED <<rsHook, rsUsers, rsPath>>
    /\ UNCHANGED <<rsCall, rsOdd, rsCrash, locks>>

-----------------------------------------------------------------------------
\* The mutex of the server.

sessions == <<rsState, rsCall, rsPath, rsIndex, rsHook, rsUsers, rsOdd, rsCrash>>

\* OnConnOpen, OnConnClose: Lock.
WantLock ==
    /\ rsWriter = "no"
    /\ rsWriter' = "waiting" /\ UNCHANGED <<sessions, rsReading>>

GetLock ==
    /\ rsWriter = "waiting" /\ rsReading = "no"
    /\ rsWriter' = "no" /\ UNCHANGED <<sessions, rsReading>>

\* APIConnsList, APIConnsGet: RLock, then for each connection
\* findSessionByRSession, which takes RLock again.
ListConns ==
    /\ rsReading = "no" /\ rsWriter = "no"
    /\ rsReading' = "outer" /\ UNCHANGED <<sessions, rsWriter>>

ListOneConn ==
    /\ rsReading = "outer"
    /\ rsReading' = "inner" /\ UNCHANGED <<sessions, rsWriter>>

\* The inner RLock is granted only when no writer waits.
ListEnds ==
    /\ rsReading = "inner" /\ rsWriter = "no"
    /\ rsReading' = "no" /\ UNCHANGED <<sessions, rsWriter>>

RtspNext ==
    \/ \E s \in RtspSessions :
         \/ OpenSession(s) \/ Announce(s) \/ AnnounceReturns(s) \/ SetupCall(s) \/ SetupReturns(s)
         \/ Play(s) \/ PlayReturns(s) \/ Record(s) \/ Pause(s)
         \/ KickSession(s) \/ SessionEnds(s)
    \/ WantLock \/ GetLock \/ ListConns \/ ListOneConn \/ ListEnds

RtspSpec == RtspInit /\ [][RtspNext]_rsVars

-----------------------------------------------------------------------------

RtspTypeOK ==
    /\ rsState \in [RtspSessions -> {"none", "initial", "prePlay", "play", "preRecord",
                                     "record", "closed"}]
    /\ rsCall \in [RtspSessions -> {"none", "announce", "setup", "play"}]
    /\ rsReading \in {"no", "outer", "inner"} /\ rsWriter \in {"no", "waiting"}
    /\ \A x \in {rsPath, rsIndex, rsHook, rsUsers, rsOdd} : x \subseteq RtspSessions
    /\ rsCrash \in BOOLEAN

\* A session that is over is no user of the path and has its read hooks paired,
\* and no callback meets a nil path, whichever requests, pauses and ends came
\* in whatever order: unless a kick fell into a running callback (what the
\* callback then adds is never removed) or the library refused a SETUP that
\* onSetup had accepted (the state that onClose looks at is still the first).
SessionLeavesNothing ==
    \A s \in RtspSessions \ rsOdd :
        /\ rsState[s] = "closed" => s \notin rsUsers \cup rsHook
        /\ rsState[s] \in {"prePlay", "play", "preRecord", "record"} => s \in rsPath

\* What the API promises of /v3/rtspconns/list: it answers.  A reader that
\* holds the mutex never waits for it behind a writer.
ConnsListReturns ==
    ~(rsReading = "inner" /\ rsWriter = "waiting")
=============================================================================
