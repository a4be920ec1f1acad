---------------------------- MODULE StreamReaders ----------------------------
(***************************************************************************)
(* A mediamtx stream (internal/stream): the source writes units of several *)
(* formats, every reader that is not RTSP has a bounded queue and a        *)
(* goroutine that runs its callbacks.  s.mutex is a read-write lock;       *)
(* RemoveReader holds it while it waits for the goroutine to end.          *)
(*                                                                         *)
(* A unit is its number.  The ring buffer belongs to gortsplib: a push     *)
(* into a full or a closed one fails, a pull from a closed one may still   *)
(* return what was there.                                                  *)
(***************************************************************************)
EXTENDS Naturals, Sequences

CONSTANTS StReaders, StFormats, QueueSize, MaxUnits

ASSUME StBounds == QueueSize \in Nat \ {0} /\ MaxUnits \in Nat

VARIABLES stKnown,    \* s.streamReaders
          stPaused, stRunning,  \* format |-> readers with a callback, waiting or served
          stQueue,    \* reader |-> its ring buffer
          stClosed,   \* readers whose buffer is closed
          stGo,       \* reader |-> goroutine: "none", "pull", "call", "report" or "end"
          stOwner,    \* reader |-> what its protocol session does
          stLock,     \* the reader whose RemoveReader holds the mutex, or <<>>
          stUnits,    \* number of units written
          stFrom,     \* reader |-> units written before it was started
          stGot,      \* reader |-> the units its callbacks received
          stAnyRun    \* readerRunning is closed

stVars == <<stKnown, stPaused, stRunning, stQueue, stClosed, stGo, stOwner, stLock, stUnits,
            stFrom, stGot, stAnyRun>>

StInit ==
    /\ stKnown = {} /\ stPaused = [f \in StFormats |-> {}] /\ stRunning = stPaused
    /\ stQueue = [r \in StReaders |-> <<>>] /\ stClosed = {}
    /\ stGo = [r \in StReaders |-> "none"] /\ stOwner = [r \in StReaders |-> "out"]
    /\ stLock = <<>> /\ stUnits = 0 /\ stFrom = [r \in StReaders |-> 0]
    /\ stGot = [r \in StReaders |-> <<>>] /\ stAnyRun = FALSE

Free == stLock = <<>>

\* AddReader, once for each format the session can read.
AddReader(r, f) ==
    /\ Free /\ stOwner[r] \in {"out", "adding"} /\ r \notin stPaused[f]
    /\ stKnown' = stKnown \cup {r}
    /\ stPaused' = [stPaused EXCEPT ![f] = @ \cup {r}]
    /\ stOwner' = [stOwner EXCEPT ![r] = "adding"]
    /\ UNCHANGED <<stRunning, stQueue, stClosed, stGo, stLock, stUnits, stFrom, stGot, stAnyRun>>

\* StartReader: the callbacks of all its formats begin to run.
StartReader(r) ==
    /\ Free /\ stOwner[r] = "adding"
    /\ stGo' = [stGo EXCEPT ![r] = "pull"]
    /\ stPaused' = [f \in StFormats |-> stPaused[f] \ {r}]
    /\ stRunning' = [f \in StFormats |-> stRunning[f] \cup ({r} \cap stPaused[f])]
    /\ stAnyRun' = TRUE
    /\ stFrom' = [stFrom EXCEPT ![r] = stUnits]
    /\ stOwner' = [stOwner EXCEPT ![r] = "reading"]
    /\ UNCHANGED <<stKnown, stQueue, stClosed, stLock, stUnits, stGot>>

\* writeUnitInner under the read lock; push refuses a full buffer.
WriteUnit(f) ==
    /\ Free /\ stUnits < MaxUnits
    /\ stUnits' = stUnits + 1
    /\ stQueue' = [r \in StReaders |->
                     IF r \in stRunning[f] /\ r \notin stClosed /\ Len(stQueue[r]) < QueueSize
                     THEN Append(stQueue[r], stUnits + 1) ELSE stQueue[r]]
    /\ UNCHANGED <<stKnown, stPaused, stRunning, stClosed, stGo, stOwner, stLock, stFrom, stGot,
                   stAnyRun>>

\* runInner: Pull, and the callback.
PullUnit(r) ==
    /\ stGo[r] = "pull" /\ stQueue[r] # <<>>
    /\ stGot' = [stGot EXCEPT ![r] = Append(@, Head(stQueue[r]))]
    /\ stQueue' = [stQueue EXCEPT ![r] = Tail(@)]
    /\ stGo' = [stGo EXCEPT ![r] = "call"]
    /\ UNCHANGED <<stKnown, stPaused, stRunning, stClosed, stOwner, stLock, stUnits, stFrom,
                   stAnyRun>>

\* The callback returns: nil, or an error, which run reports.
CallbackReturns(r) ==
    /\ stGo[r] = "call"
    /\ \E next \in {"pull", "report"} : stGo' = [stGo EXCEPT ![r] = next]
    /\ UNCHANGED <<stKnown, stPaused, stRunning, stQueue, stClosed, stOwner, stLock, stUnits,
                   stFrom, stGot, stAnyRun>>

\* Pull of a closed buffer returns false.
PullClosed(r) ==
    /\ stGo[r] = "pull" /\ r \in stClosed
    /\ stGo' = [stGo EXCEPT ![r] = "report"]
    /\ UNCHANGED <<stKnown, stPaused, stRunning, stQueue, stClosed, stOwner, stLock, stUnits,
                   stFrom, stGot, stAnyRun>>

\* The session receives from ReaderError(reader) ...
ReaderError(r) ==
    /\ stOwner[r] = "reading" /\ stGo[r] = "report"
    /\ stGo' = [stGo EXCEPT ![r] = "end"]
    /\ stOwner' = [stOwner EXCEPT ![r] = "leaving"]
    /\ UNCHANGED <<stKnown, stPaused, stRunning, stQueue, stClosed, stLock, stUnits, stFrom,
                   stGot, stAnyRun>>

\* ... or is terminated.
SessionEnds(r) ==
    /\ stOwner[r] \in {"adding", "reading"}
    /\ stOwner' = [stOwner EXCEPT ![r] = "leaving"]
    /\ UNCHANGED <<stKnown, stPaused, stRunning, stQueue, stClosed, stGo, stLock, stUnits, stFrom,
                   stGot, stAnyRun>>

\* Mutant: the buffer is not closed, so that Pull waits for ever.
RemoveReaderOpen(r) ==
    /\ Free /\ stOwner[r] = "leaving" /\ r \in stKnown
    /\ stLock' = <<r>>
    /\ stPaused' = [f \in StFormats |-> stPaused[f] \ {r}]
    /\ stRunning' = [f \in StFormats |-> stRunning[f] \ {r}]
    /\ stKnown' = stKnown \ {r}
    /\ UNCHANGED <<stQueue, stClosed, stGo, stOwner, stUnits, stFrom, stGot, stAnyRun>>

\* RemoveReader, up to buffer.Close: the formats forget the reader.
RemoveReader(r) ==
    /\ Free /\ stOwner[r] = "leaving" /\ r \in stKnown
    /\ stLock' = <<r>>
    /\ stPaused' = [f \in StFormats |-> stPaused[f] \ {r}]
    /\ stRunning' = [f \in StFormats |-> stRunning[f] \ {r}]
    /\ stKnown' = stKnown \ {r} /\ stClosed' = stClosed \cup {r}
    /\ UNCHANGED <<stQueue, stGo, stOwner, stUnits, stFrom, stGot, stAnyRun>>

\* Mutant: stop does not wait for the goroutine.
StopReaderNoWait(r) ==
    /\ stLock = <<r>>
    /\ stLock' = <<>> /\ stOwner' = [stOwner EXCEPT ![r] = "gone"]
    /\ UNCHANGED <<stKnown, stPaused, stRunning, stQueue, stClosed, stGo, stUnits, stFrom, stGot,
                   stAnyRun>>

\* stop: if the reader was started, a value of w.err, or its end, is awaited.
StopReader(r) ==
    /\ stLock = <<r>>
    /\ stGo[r] \in {"none", "report", "end"}
    /\ stGo' = [stGo EXCEPT ![r] = IF @ = "report" THEN "end" ELSE @]
    /\ stLock' = <<>> /\ stOwner' = [stOwner EXCEPT ![r] = "gone"]
    /\ UNCHANGED <<stKnown, stPaused, stRunning, stQueue, stClosed, stUnits, stFrom, stGot,
                   stAnyRun>>

StNext ==
    \/ \E f \in StFormats : WriteUnit(f)
    \/ \E r \in StReaders :
         \/ \E f \in StFormats : AddReader(r, f)
         \/ StartReader(r) \/ PullUnit(r) \/ CallbackReturns(r) \/ PullClosed(r)
         \/ ReaderError(r) \/ SessionEnds(r) \/ RemoveReader(r) \/ StopReader(r)

\* Callbacks return (their writes have deadlines), goroutines run, and a
\* session that leaves gets the lock at last.
StFair == \A r \in StReaders :
    /\ WF_stVars(CallbackReturns(r)) /\ WF_stVars(PullClosed(r)) /\ WF_stVars(StopReader(r))
    /\ SF_stVars(RemoveReader(r))

StSpec == StInit /\ [][StNext]_stVars /\ StFair

-----------------------------------------------------------------------------

StTypeOK ==
    /\ stKnown \subseteq StReaders /\ stClosed \subseteq StReaders
    /\ stPaused \in [StFormats -> SUBSET StReaders]
    /\ stRunning \in [StFormats -> SUBSET StReaders]
    /\ stQueue \in [StReaders -> Seq(Nat)] /\ stGot \in [StReaders -> Seq(Nat)]
    /\ \A r \in StReaders : Len(stQueue[r]) <= QueueSize
    /\ stGo \in [StReaders -> {"none", "pull", "call", "report", "end"}]
    /\ stOwner \in [StReaders -> {"out", "adding", "reading", "leaving", "gone"}]
    /\ stLock \in {<<>>} \cup {<<r>> : r \in StReaders}
    /\ stUnits \in 0..MaxUnits /\ stFrom \in [StReaders -> 0..MaxUnits]
    /\ stAnyRun \in BOOLEAN

\* A reader receives units in the order they were written, none from before it
\* was started and none twice, across all its formats; once RemoveReader has
\* returned no callback of it runs any more, so that the session may free what
\* the callback uses; and the stream has forgotten it.
ReadersServedInOrder ==
    \A r \in StReaders :
      LET all == stGot[r] \o stQueue[r] IN
      /\ \A j, k \in DOMAIN all : j < k => all[j] < all[k]
      /\ \A k \in DOMAIN all : stFrom[r] < all[k] /\ all[k] <= stUnits
      /\ stOwner[r] = "gone" =>
           /\ stGo[r] \in {"none", "end"} /\ r \notin stKnown
           /\ \A f \in StFormats : r \notin stPaused[f] \cup stRunning[f]

\* A session that leaves is let go, whatever its goroutine was doing and
\* however many units are in its queue, and so the stream's lock is released.
LeavingReaderIsReleased ==
    \A r \in StReaders : (stOwner[r] = "leaving") ~> (stOwner[r] = "gone")
=============================================================================
