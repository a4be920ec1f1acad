------------------------------ MODULE LiveProofs ------------------------------
(***************************************************************************)
(* Proofs about StaticSource, for every kind of source and any number of     *)
(* reloads, and about StreamReaders, for any readers, formats and queue size.*)
(* The last part puts the theorems of the components of MCLive together.     *)
(***************************************************************************)
EXTENDS MCLive, PathProofs, CoreProofs, SequenceTheorems, TLAPS

VodP == INSTANCE VodPipelineProofs

-----------------------------------------------------------------------------
(* A static source.  What stop leaves behind, and whether a stream has a     *)
(* source, is a matter of three goroutines: the inductive invariant says     *)
(* which of their states go together, and which versions of the              *)
(* configuration may be on their way between them.                           *)

USE SsBounds

\* The loop and Run: one waits in a request exactly while the other passes it
\* on, and Run is there exactly while the loop is and does not pause.
LoopAndRun ==
    /\ ssLoop = "setReady" <=> ssRun = "waitReady"
    /\ ssLoop = "setNotReady" <=> ssRun = "waitNot"
    /\ ssRun = "off" <=> ssLoop = "off" \/ ssPause
    /\ ssPause => ssLoop \in {"select", "off"}

\* The path and the loop: until stop is called the loop runs exactly when the
\* source was asked for, with a context that is open.
PathAndLoop ==
    /\ ssPath \in {"select", "ending"} =>
         /\ ssLoop = "off" <=> ssOnDemand /\ ssOd = "initial"
         /\ ssLoop # "off" => ssCtx = "open" /\ ssLoop # "await"
    /\ ssPath \in {"stop", "endstop"} => ssCtx = "done"
    /\ ssPath = "stop" => ssOnDemand /\ ssOd = "initial"
    /\ ssPath = "ended" => ssLoop = "off"
    /\ ssLoop = "await" => ssCtx = "done"
    /\ ~ssOnDemand => ssOd = "initial"

\* The stream: a source that is not asked for, not ready yet or stopped has
\* none, and readers have one unless the source does not say that it ends.
StreamAndPath ==
    /\ ssOnDemand /\ ssOd \in {"initial", "waiting"} => ~ssStream
    /\ ssPath \in {"stop", "endstop", "ended"} => ~ssStream
    /\ TellsNotReady /\ ssUser = "reading" => ssStream

\* The versions: what is on its way to the loop, or to Run, is the newest one
\* and the only one, or what arrived last is the newest.
VersionsOnTheWay ==
    /\ ssLoop \in {"off", "await"} \/ ssPause => ssNews.run = {}
    /\ ~ssMissed =>
         \/ ssNews.loop \cup ssNews.late = {ssVer.path}
         \/ ssNews.loop \cup ssNews.late = {} /\ ssVer.loop = ssVer.path
    /\ ~ssMissed /\ ssKind = "rpicamera" /\ ssRun # "off" /\ ssLoop # "await" =>
         \/ ssNews.run = {ssVer.loop}
         \/ ssNews.run = {} /\ ssVer.run = ssVer.loop

\* The inductive strengthening of SourceSound.
SsInv ==
    /\ SsTypeOK /\ LoopAndRun /\ PathAndLoop /\ StreamAndPath /\ StreamHasSource
    /\ VersionsOnTheWay

-----------------------------------------------------------------------------
\* Clients come and go.
LEMMA ClientsKeep ==
  ASSUME SsInv, FirstDemand \/ ClientArrives \/ ClientLeaves
  PROVE  SsInv'
  <1> USE DEF SsInv, ssPathVars, ssConfVars
  <1>1. CASE FirstDemand
    <2> USE <1>1 DEF FirstDemand
    <2>1. SsTypeOK'
      BY DEF SsTypeOK
    <2>2. LoopAndRun' /\ PathAndLoop'
      BY DEF SsTypeOK, LoopAndRun, PathAndLoop
    <2>3. StreamAndPath' /\ StreamHasSource'
      BY DEF SsTypeOK, LoopAndRun, PathAndLoop, StreamAndPath, StreamHasSource,
         TellsNotReady
    <2>4. VersionsOnTheWay'
      BY DEF SsTypeOK, LoopAndRun, VersionsOnTheWay
    <2>5. QED BY <2>1, <2>2, <2>3, <2>4
  <1>2. CASE ClientArrives
    <2> USE <1>2 DEF ClientArrives
    <2>1. SsTypeOK'
      BY DEF SsTypeOK
    <2>2. LoopAndRun' /\ PathAndLoop'
      BY DEF SsTypeOK, LoopAndRun, PathAndLoop
    <2>3. StreamAndPath' /\ StreamHasSource'
      BY DEF SsTypeOK, LoopAndRun, PathAndLoop, StreamAndPath, StreamHasSource,
         TellsNotReady
    <2>4. VersionsOnTheWay'
      BY DEF SsTypeOK, LoopAndRun, VersionsOnTheWay
    <2>5. QED BY <2>1, <2>2, <2>3, <2>4
  <1>3. CASE ClientLeaves
    <2> USE <1>3 DEF ClientLeaves
    <2>1. SsTypeOK'
      BY DEF SsTypeOK
    <2>2. LoopAndRun' /\ PathAndLoop'
      BY DEF SsTypeOK, LoopAndRun, PathAndLoop
    <2>3. StreamAndPath' /\ StreamHasSource'
      BY DEF SsTypeOK, LoopAndRun, PathAndLoop, StreamAndPath, StreamHasSource,
         TellsNotReady
    <2>4. VersionsOnTheWay'
      BY DEF SsTypeOK, LoopAndRun, VersionsOnTheWay
    <2>5. QED BY <2>1, <2>2, <2>3, <2>4
  <1>4. QED BY <1>1, <1>2, <1>3

\* What was on its way to the loop that is told to stop is late.
LEMMA StopSourceTypes ==
  ASSUME SsTypeOK, NEW next, StopSource(next)
  PROVE  /\ ssPath' = next /\ ssCtx' = "done"
         /\ ssNews' \in [loop : SUBSET (0 .. MaxSsReloads), late : SUBSET (0 .. MaxSsReloads),
                        run : SUBSET (0 .. MaxSsReloads)]
  BY DEF SsTypeOK, StopSource

\* The path stops the source, on a timer or at its own end.
LEMMA StopsKeep ==
  ASSUME SsInv, StartTimesOut \/ CloseTimer \/ SourceStopped \/ PathEnds \/
           PathCloses
  PROVE  SsInv'
  <1> USE DEF SsInv, ssPathVars, ssConfVars
  <1>1. CASE StartTimesOut
    <2> USE <1>1 DEF StartTimesOut, StopSource
    <2>1. SsTypeOK'
      BY DEF SsTypeOK
    <2>2. LoopAndRun' /\ PathAndLoop'
      BY DEF SsTypeOK, LoopAndRun, PathAndLoop
    <2>3. StreamAndPath' /\ StreamHasSource'
      BY DEF SsTypeOK, LoopAndRun, PathAndLoop, StreamAndPath, StreamHasSource,
         TellsNotReady
    <2>4. VersionsOnTheWay'
      BY DEF SsTypeOK, LoopAndRun, VersionsOnTheWay
    <2>5. QED BY <2>1, <2>2, <2>3, <2>4
  <1>2. CASE CloseTimer
    <2> USE <1>2 DEF CloseTimer, StopSource
    <2>1. SsTypeOK'
      BY DEF SsTypeOK
    <2>2. LoopAndRun' /\ PathAndLoop'
      BY DEF SsTypeOK, LoopAndRun, PathAndLoop
    <2>3. StreamAndPath' /\ StreamHasSource'
      BY DEF SsTypeOK, LoopAndRun, PathAndLoop, StreamAndPath, StreamHasSource,
         TellsNotReady
    <2>4. VersionsOnTheWay'
      BY DEF SsTypeOK, LoopAndRun, VersionsOnTheWay
    <2>5. QED BY <2>1, <2>2, <2>3, <2>4
  <1>3. CASE SourceStopped
    <2> USE <1>3 DEF SourceStopped
    <2>1. SsTypeOK'
      BY DEF SsTypeOK
    <2>2. LoopAndRun' /\ PathAndLoop'
      BY DEF SsTypeOK, LoopAndRun, PathAndLoop
    <2>3. StreamAndPath' /\ StreamHasSource'
      BY DEF SsTypeOK, LoopAndRun, PathAndLoop, StreamAndPath, StreamHasSource,
         TellsNotReady
    <2>4. VersionsOnTheWay'
      BY DEF SsTypeOK, LoopAndRun, VersionsOnTheWay
    <2>5. QED BY <2>1, <2>2, <2>3, <2>4
  <1>4. CASE PathEnds
    <2> USE <1>4 DEF PathEnds
    <2>1. SsTypeOK'
      BY DEF SsTypeOK
    <2>2. LoopAndRun' /\ PathAndLoop'
      BY DEF SsTypeOK, LoopAndRun, PathAndLoop
    <2>3. StreamAndPath' /\ StreamHasSource'
      BY DEF SsTypeOK, LoopAndRun, PathAndLoop, StreamAndPath, StreamHasSource,
         TellsNotReady
    <2>4. VersionsOnTheWay'
      BY DEF SsTypeOK, LoopAndRun, VersionsOnTheWay
    <2>5. QED BY <2>1, <2>2, <2>3, <2>4
  <1>5. CASE PathCloses
    <2> USE <1>5 DEF PathCloses, StopSource
    <2>1. SsTypeOK'
      <3> HIDE DEF StopSource
      <3>1. CASE ~ssOnDemand \/ ssOd # "initial"
        <4>1. StopSource("endstop")
          BY <3>1
        <4>2. /\ ssPath' = "endstop" /\ ssCtx' = "done"
              /\ ssNews' \in [loop : SUBSET (0 .. MaxSsReloads),
                             late : SUBSET (0 .. MaxSsReloads),
                             run : SUBSET (0 .. MaxSsReloads)]
          BY <4>1, StopSourceTypes
        <4>3. QED BY <4>2 DEF SsTypeOK
      <3>2. CASE ~(~ssOnDemand \/ ssOd # "initial")
        BY <3>2 DEF SsTypeOK
      <3>3. QED BY <3>1, <3>2
    <2>2. LoopAndRun' /\ PathAndLoop'
      BY DEF SsTypeOK, LoopAndRun, PathAndLoop
    <2>3. StreamAndPath' /\ StreamHasSource'
      BY DEF SsTypeOK, LoopAndRun, PathAndLoop, StreamAndPath, StreamHasSource,
         TellsNotReady
    <2>4. VersionsOnTheWay'
      BY DEF SsTypeOK, LoopAndRun, VersionsOnTheWay
    <2>5. QED BY <2>1, <2>2, <2>3, <2>4
  <1>6. QED BY <1>1, <1>2, <1>3, <1>4, <1>5

\* The path serves what the source asks for, or nobody does any more.
LEMMA AsksKeep ==
  ASSUME SsInv, DoSetReady \/ DoSetReadyFails \/ DoSetNotReady \/ GiveUp
  PROVE  SsInv'
  <1> USE DEF SsInv, ssPathVars, ssConfVars
  <1>1. CASE DoSetReady
    <2> USE <1>1 DEF DoSetReady
    <2>1. SsTypeOK'
      BY DEF SsTypeOK
    <2>2. LoopAndRun' /\ PathAndLoop'
      BY DEF SsTypeOK, LoopAndRun, PathAndLoop
    <2>3. StreamAndPath' /\ StreamHasSource'
      BY DEF SsTypeOK, LoopAndRun, PathAndLoop, StreamAndPath, StreamHasSource,
         TellsNotReady
    <2>4. VersionsOnTheWay'
      BY DEF SsTypeOK, LoopAndRun, VersionsOnTheWay
    <2>5. QED BY <2>1, <2>2, <2>3, <2>4
  <1>2. CASE DoSetReadyFails
    <2> USE <1>2 DEF DoSetReadyFails, Refused
    <2>1. SsTypeOK'
      BY DEF SsTypeOK
    <2>2. LoopAndRun' /\ PathAndLoop'
      BY DEF SsTypeOK, LoopAndRun, PathAndLoop
    <2>3. StreamAndPath' /\ StreamHasSource'
      <3>a. ssStream' => ssStream
        BY Zenon
      <3>1. (ssStream' => ssStream) /\ UNCHANGED <<ssKind, ssOnDemand, ssPath, ssOd, ssUser>>
        BY <3>a
      <3>2. TellsNotReady => ~ssStream /\ ssUser # "reading"
        BY DEF LoopAndRun, StreamAndPath, StreamHasSource
      <3>3. QED BY <3>1, <3>2 DEF StreamAndPath, StreamHasSource, TellsNotReady
    <2>4. VersionsOnTheWay'
      BY DEF SsTypeOK, LoopAndRun, VersionsOnTheWay
    <2>5. QED BY <2>1, <2>2, <2>3, <2>4
  <1>3. CASE DoSetNotReady
    <2> USE <1>3 DEF DoSetNotReady, StopSource
    <2>1. SsTypeOK'
      <3> HIDE DEF StopSource
      <3>1. CASE ssOnDemand /\ ssOd # "initial"
        BY <3>1, StopSourceTypes DEF SsTypeOK
      <3>2. CASE ~(ssOnDemand /\ ssOd # "initial")
        BY <3>2 DEF SsTypeOK
      <3>3. QED BY <3>1, <3>2
    <2>2. LoopAndRun' /\ PathAndLoop'
      BY DEF SsTypeOK, LoopAndRun, PathAndLoop
    <2>3. StreamAndPath' /\ StreamHasSource'
      BY DEF SsTypeOK, LoopAndRun, PathAndLoop, StreamAndPath, StreamHasSource,
         TellsNotReady
    <2>4. VersionsOnTheWay'
      BY DEF SsTypeOK, LoopAndRun, VersionsOnTheWay
    <2>5. QED BY <2>1, <2>2, <2>3, <2>4
  <1>4. CASE GiveUp
    <2> USE <1>4 DEF GiveUp, Refused
    <2>1. SsTypeOK'
      BY DEF SsTypeOK
    <2>2. LoopAndRun' /\ PathAndLoop'
      BY DEF SsTypeOK, LoopAndRun, PathAndLoop
    <2>3. StreamAndPath' /\ StreamHasSource'
      BY DEF SsTypeOK, LoopAndRun, PathAndLoop, StreamAndPath, StreamHasSource,
         TellsNotReady
    <2>4. VersionsOnTheWay'
      BY DEF SsTypeOK, LoopAndRun, VersionsOnTheWay
    <2>5. QED BY <2>1, <2>2, <2>3, <2>4
  <1>5. QED BY <1>1, <1>2, <1>3, <1>4

\* The loop of the handler.
LEMMA LoopKeeps ==
  ASSUME SsInv, RunFails \/ TakeSetReady \/ TakeSetNotReady \/ Recreate \/
           LoopDone \/ RunAwaited
  PROVE  SsInv'
  <1> USE DEF SsInv, ssPathVars, ssConfVars
  <1>1. CASE RunFails
    <2> USE <1>1 DEF RunFails, Cancelled
    <2>1. SsTypeOK'
      BY DEF SsTypeOK
    <2>2. LoopAndRun' /\ PathAndLoop'
      BY DEF SsTypeOK, LoopAndRun, PathAndLoop
    <2>3. StreamAndPath' /\ StreamHasSource'
      BY DEF SsTypeOK, LoopAndRun, PathAndLoop, StreamAndPath, StreamHasSource,
         TellsNotReady
    <2>4. VersionsOnTheWay'
      BY DEF SsTypeOK, LoopAndRun, VersionsOnTheWay
    <2>5. QED BY <2>1, <2>2, <2>3, <2>4
  <1>2. CASE TakeSetReady
    <2> USE <1>2 DEF TakeSetReady
    <2>1. SsTypeOK'
      BY DEF SsTypeOK
    <2>2. LoopAndRun' /\ PathAndLoop'
      BY DEF SsTypeOK, LoopAndRun, PathAndLoop
    <2>3. StreamAndPath' /\ StreamHasSource'
      BY DEF SsTypeOK, LoopAndRun, PathAndLoop, StreamAndPath, StreamHasSource,
         TellsNotReady
    <2>4. VersionsOnTheWay'
      BY DEF SsTypeOK, LoopAndRun, VersionsOnTheWay
    <2>5. QED BY <2>1, <2>2, <2>3, <2>4
  <1>3. CASE TakeSetNotReady
    <2> USE <1>3 DEF TakeSetNotReady
    <2>1. SsTypeOK'
      BY DEF SsTypeOK
    <2>2. LoopAndRun' /\ PathAndLoop'
      BY DEF SsTypeOK, LoopAndRun, PathAndLoop
    <2>3. StreamAndPath' /\ StreamHasSource'
      BY DEF SsTypeOK, LoopAndRun, PathAndLoop, StreamAndPath, StreamHasSource,
         TellsNotReady
    <2>4. VersionsOnTheWay'
      BY DEF SsTypeOK, LoopAndRun, VersionsOnTheWay
    <2>5. QED BY <2>1, <2>2, <2>3, <2>4
  <1>4. CASE Recreate
    <2> USE <1>4 DEF Recreate
    <2>1. SsTypeOK'
      BY DEF SsTypeOK
    <2>2. LoopAndRun' /\ PathAndLoop'
      BY DEF SsTypeOK, LoopAndRun, PathAndLoop
    <2>3. StreamAndPath' /\ StreamHasSource'
      BY DEF SsTypeOK, LoopAndRun, PathAndLoop, StreamAndPath, StreamHasSource,
         TellsNotReady
    <2>4. VersionsOnTheWay'
      BY DEF SsTypeOK, LoopAndRun, VersionsOnTheWay
    <2>5. QED BY <2>1, <2>2, <2>3, <2>4
  <1>5. CASE LoopDone
    <2> USE <1>5 DEF LoopDone, Cancelled
    <2>1. SsTypeOK'
      BY DEF SsTypeOK
    <2>2. LoopAndRun' /\ PathAndLoop'
      BY DEF SsTypeOK, LoopAndRun, PathAndLoop
    <2>3. StreamAndPath' /\ StreamHasSource'
      BY DEF SsTypeOK, LoopAndRun, PathAndLoop, StreamAndPath, StreamHasSource,
         TellsNotReady
    <2>4. VersionsOnTheWay'
      BY DEF SsTypeOK, LoopAndRun, VersionsOnTheWay
    <2>5. QED BY <2>1, <2>2, <2>3, <2>4
  <1>6. CASE RunAwaited
    <2> USE <1>6 DEF RunAwaited
    <2>1. SsTypeOK'
      BY DEF SsTypeOK
    <2>2. LoopAndRun' /\ PathAndLoop'
      BY DEF SsTypeOK, LoopAndRun, PathAndLoop
    <2>3. StreamAndPath' /\ StreamHasSource'
      BY DEF SsTypeOK, LoopAndRun, PathAndLoop, StreamAndPath, StreamHasSource,
         TellsNotReady
    <2>4. VersionsOnTheWay'
      BY DEF SsTypeOK, LoopAndRun, VersionsOnTheWay
    <2>5. QED BY <2>1, <2>2, <2>3, <2>4
  <1>7. QED BY <1>1, <1>2, <1>3, <1>4, <1>5, <1>6

\* Run of the source.
LEMMA RunKeeps ==
  ASSUME SsInv, Connected \/ ConnectFails \/ SourceFails \/ SourceTerminated
  PROVE  SsInv'
  <1> USE DEF SsInv, ssPathVars, ssConfVars
  <1>1. CASE Connected
    <2> USE <1>1 DEF Connected
    <2>1. SsTypeOK'
      BY DEF SsTypeOK
    <2>2. LoopAndRun' /\ PathAndLoop'
      BY DEF SsTypeOK, LoopAndRun, PathAndLoop
    <2>3. StreamAndPath' /\ StreamHasSource'
      BY DEF SsTypeOK, LoopAndRun, PathAndLoop, StreamAndPath, StreamHasSource,
         TellsNotReady
    <2>4. VersionsOnTheWay'
      BY DEF SsTypeOK, LoopAndRun, VersionsOnTheWay
    <2>5. QED BY <2>1, <2>2, <2>3, <2>4
  <1>2. CASE ConnectFails
    <2> USE <1>2 DEF ConnectFails
    <2>1. SsTypeOK'
      BY DEF SsTypeOK
    <2>2. LoopAndRun' /\ PathAndLoop'
      BY DEF SsTypeOK, LoopAndRun, PathAndLoop
    <2>3. StreamAndPath' /\ StreamHasSource'
      BY DEF SsTypeOK, LoopAndRun, PathAndLoop, StreamAndPath, StreamHasSource,
         TellsNotReady
    <2>4. VersionsOnTheWay'
      BY DEF SsTypeOK, LoopAndRun, VersionsOnTheWay
    <2>5. QED BY <2>1, <2>2, <2>3, <2>4
  <1>3. CASE SourceFails
    <2> USE <1>3 DEF SourceFails, TellsNotReady
    <2>1. SsTypeOK'
      BY DEF SsTypeOK
    <2>2. LoopAndRun' /\ PathAndLoop'
      BY DEF SsTypeOK, LoopAndRun, PathAndLoop
    <2>3. StreamAndPath' /\ StreamHasSource'
      BY DEF SsTypeOK, LoopAndRun, PathAndLoop, StreamAndPath, StreamHasSource,
         TellsNotReady
    <2>4. VersionsOnTheWay'
      BY DEF SsTypeOK, LoopAndRun, VersionsOnTheWay
    <2>5. QED BY <2>1, <2>2, <2>3, <2>4
  <1>4. CASE SourceTerminated
    <2> USE <1>4 DEF SourceTerminated, Refused
    <2>1. SsTypeOK'
      BY DEF SsTypeOK
    <2>2. LoopAndRun' /\ PathAndLoop'
      BY DEF SsTypeOK, LoopAndRun, PathAndLoop
    <2>3. StreamAndPath' /\ StreamHasSource'
      BY DEF SsTypeOK, LoopAndRun, PathAndLoop, StreamAndPath, StreamHasSource,
         TellsNotReady
    <2>4. VersionsOnTheWay'
      BY DEF SsTypeOK, LoopAndRun, VersionsOnTheWay
    <2>5. QED BY <2>1, <2>2, <2>3, <2>4
  <1>5. QED BY <1>1, <1>2, <1>3, <1>4

\* New configurations, on their way or lost.
LEMMA ReloadsKeep ==
  ASSUME SsInv, TakeReload \/ RunReloads \/ ReloadSource \/ ReloadDropped
  PROVE  SsInv'
  <1> USE DEF SsInv, ssPathVars, ssConfVars
  <1>1. CASE TakeReload
    <2> USE <1>1 DEF TakeReload, Received
    <2>1. SsTypeOK'
      BY DEF SsTypeOK
    <2>2. LoopAndRun' /\ PathAndLoop'
      BY DEF SsTypeOK, LoopAndRun, PathAndLoop
    <2>3. StreamAndPath' /\ StreamHasSource'
      BY DEF SsTypeOK, LoopAndRun, PathAndLoop, StreamAndPath, StreamHasSource,
         TellsNotReady
    <2>4. VersionsOnTheWay'
      <3>1. PICK v \in ssNews.loop \cup ssNews.late :
              ssVer' = [ssVer EXCEPT !.loop = v] /\ ssNews' = Received(v)
        BY Zenon
      <3>2. /\ ssVer'.path = ssVer.path /\ ssVer'.loop = v /\ ssVer'.run = ssVer.run
            /\ ssNews'.loop = ssNews.loop \ {v} /\ ssNews'.late = ssNews.late \ {v}
            /\ ssNews'.run = IF ssPause THEN {} ELSE ssNews.run \cup {v}
        BY <3>1 DEF SsTypeOK
      <3>3. ~ssMissed' => ~ssMissed /\ ssNews.run = {}
        OBVIOUS
      <3>4. ~ssMissed => ssNews.loop \cup ssNews.late = {ssVer.path}
        BY <3>1 DEF VersionsOnTheWay
      <3>5. ~ssMissed' => ssNews'.loop \cup ssNews'.late = {} /\ ssVer'.loop = ssVer'.path
        BY <3>2, <3>3, <3>4
      <3>6. ssRun # "off" => ~ssPause
        BY DEF LoopAndRun
      <3>7. QED BY <3>2, <3>3, <3>5, <3>6 DEF VersionsOnTheWay
    <2>5. QED BY <2>1, <2>2, <2>3, <2>4
  <1>2. CASE RunReloads
    <2> USE <1>2 DEF RunReloads, TakesReload
    <2>1. SsTypeOK'
      BY DEF SsTypeOK
    <2>2. LoopAndRun' /\ PathAndLoop'
      BY DEF SsTypeOK, LoopAndRun, PathAndLoop
    <2>3. StreamAndPath' /\ StreamHasSource'
      BY DEF SsTypeOK, LoopAndRun, PathAndLoop, StreamAndPath, StreamHasSource,
         TellsNotReady
    <2>4. VersionsOnTheWay'
      BY DEF SsTypeOK, LoopAndRun, VersionsOnTheWay
    <2>5. QED BY <2>1, <2>2, <2>3, <2>4
  <1>3. CASE ReloadSource
    <2> USE <1>3 DEF ReloadSource
    <2>1. SsTypeOK'
      <3>1. ssVer.path + 1 \in 0 .. MaxSsReloads
        BY DEF SsTypeOK
      <3>2. ssVer' \in [path : 0 .. MaxSsReloads, loop : 0 .. MaxSsReloads,
                        run : 0 .. MaxSsReloads]
        BY <3>1 DEF SsTypeOK
      <3>3. ssNews' \in [loop : SUBSET (0 .. MaxSsReloads), late : SUBSET (0 .. MaxSsReloads),
                         run : SUBSET (0 .. MaxSsReloads)]
        BY <3>1 DEF SsTypeOK
      <3>4. ssMissed' \in BOOLEAN
        BY DEF SsTypeOK
      <3>5. QED BY <3>2, <3>3, <3>4 DEF SsTypeOK
    <2>2. LoopAndRun' /\ PathAndLoop'
      BY DEF SsTypeOK, LoopAndRun, PathAndLoop
    <2>3. StreamAndPath' /\ StreamHasSource'
      BY DEF SsTypeOK, LoopAndRun, PathAndLoop, StreamAndPath, StreamHasSource,
         TellsNotReady
    <2>4. VersionsOnTheWay'
      <3>1. /\ ssVer'.path = ssVer.path + 1
            /\ ssVer'.loop = ssVer.loop /\ ssVer'.run = ssVer.run
        BY DEF SsTypeOK
      <3>2. CASE ssLoop = "off"
        <4>1. ssMissed' /\ ssNews' = ssNews /\ ssLoop' = ssLoop /\ ssPause' = ssPause
          BY <3>2
        <4>2. QED BY <4>1 DEF VersionsOnTheWay
      <3>3. CASE ssLoop # "off"
        <4>1. /\ ssNews'.loop = ssNews.loop \cup {ssVer.path + 1}
              /\ ssNews'.late = ssNews.late /\ ssNews'.run = ssNews.run
          BY <3>3 DEF SsTypeOK
        <4>2. ~ssMissed' => ~ssMissed /\ ssNews.loop \cup ssNews.late = {}
          BY <3>3
        <4>3. ~ssMissed' => ssNews'.loop \cup ssNews'.late = {ssVer'.path}
          BY <3>1, <4>1, <4>2
        <4>4. UNCHANGED <<ssKind, ssRun, ssLoop, ssPause>>
          OBVIOUS
        <4>5. QED BY <3>1, <4>1, <4>2, <4>3, <4>4 DEF VersionsOnTheWay
      <3>4. QED BY <3>2, <3>3
    <2>5. QED BY <2>1, <2>2, <2>3, <2>4
  <1>4. CASE ReloadDropped
    <2> USE <1>4 DEF ReloadDropped
    <2>1. SsTypeOK'
      BY DEF SsTypeOK
    <2>2. LoopAndRun' /\ PathAndLoop'
      BY DEF SsTypeOK, LoopAndRun, PathAndLoop
    <2>3. StreamAndPath' /\ StreamHasSource'
      BY DEF SsTypeOK, LoopAndRun, PathAndLoop, StreamAndPath, StreamHasSource,
         TellsNotReady
    <2>4. VersionsOnTheWay'
      BY DEF SsTypeOK, LoopAndRun, VersionsOnTheWay
    <2>5. QED BY <2>1, <2>2, <2>3, <2>4
  <1>5. QED BY <1>1, <1>2, <1>3, <1>4

-----------------------------------------------------------------------------
\* The inductive invariant of a path with a static source.
LEMMA SourceSafe == SsInit /\ [][SsNext]_ssVars => []SsInv
  <1>1. SsInit => SsInv
    <2>1. SUFFICES ASSUME SsInit PROVE SsInv
      OBVIOUS
    <2>2. SsTypeOK
      <3>1. /\ ssVer = [path |-> 0, loop |-> 0, run |-> 0]
            /\ ssNews = [loop |-> {}, late |-> {}, run |-> {}]
            /\ ssStream = FALSE /\ ssPause = FALSE /\ ssMissed = FALSE
            /\ ssKind \in SsKinds /\ ssOnDemand \in BOOLEAN
            /\ ssPath = "select" /\ ssOd = "initial" /\ ssUser = "none"
        BY <2>1 DEF SsInit
      <3>2. /\ ssCtx \in {"none", "open"} /\ ssLoop \in {"off", "select"}
            /\ ssRun \in {"off", "connect"}
        BY <2>1 DEF SsInit
      <3>3. 0 \in 0 .. MaxSsReloads /\ {} \in SUBSET (0 .. MaxSsReloads)
        OBVIOUS
      <3>4. ssVer \in [path : 0 .. MaxSsReloads, loop : 0 .. MaxSsReloads,
                        run : 0 .. MaxSsReloads]
        BY <3>1, <3>3
      <3>5. ssNews \in [loop : SUBSET (0 .. MaxSsReloads), late : SUBSET (0 .. MaxSsReloads),
                         run : SUBSET (0 .. MaxSsReloads)]
        BY <3>1, <3>3
      <3>6. QED BY <3>1, <3>2, <3>4, <3>5 DEF SsTypeOK
    <2>3. LoopAndRun /\ PathAndLoop
      BY <2>1 DEF SsInit, LoopAndRun, PathAndLoop
    <2>4. StreamAndPath /\ StreamHasSource /\ VersionsOnTheWay
      BY <2>1 DEF SsInit, StreamAndPath, StreamHasSource, VersionsOnTheWay
    <2>5. QED BY <2>2, <2>3, <2>4 DEF SsInv
  <1>2. SsInv /\ [SsNext]_ssVars => SsInv'
    <2>1. SsInv /\ SsNext => SsInv'
      BY ClientsKeep, StopsKeep, AsksKeep, LoopKeeps, RunKeeps, ReloadsKeep DEF SsNext
    <2>2. SsInv /\ UNCHANGED ssVars => SsInv'
      BY DEF ssVars, SsInv, SsTypeOK, LoopAndRun, PathAndLoop, StreamAndPath,
         StreamHasSource, TellsNotReady, VersionsOnTheWay
    <2>3. QED BY <2>1, <2>2
  <1>3. QED BY <1>1, <1>2, PTL

\* The same of the specification with its fairness.
THEOREM SourceInvariant == SsSpec => []SsInv
  BY SourceSafe, PTL DEF SsSpec

\* The types of the path, the loop and Run, and of what they exchange.
THEOREM SourceTypeCorrect == SsSpec => []SsTypeOK
  <1>1. SsInv => SsTypeOK
    BY DEF SsInv
  <1>2. QED BY <1>1, SourceInvariant, PTL

\* What stop leaves is gone; a stream has a Run behind it; and the loop and
\* the camera work with the configuration of the path: for every kind of
\* source and however clients, timers, failures and reloads interleave.
THEOREM SourcesSound == SsSpec => []SourceSound
  <1>1. SsInv => SourceSound
    <2>1. SsInv => StoppedMeansGone
      BY DEF SsInv, LoopAndRun, PathAndLoop, StreamAndPath, StoppedMeansGone
    <2>2. SsInv => SourceConfCurrent
      BY DEF SsInv, SsTypeOK, VersionsOnTheWay, SourceConfCurrent
    <2>3. QED BY <2>1, <2>2 DEF SsInv, SourceSound
  <1>2. QED BY <1>1, SourceInvariant, PTL

-----------------------------------------------------------------------------
(* The readers of a stream.  That no callback runs after RemoveReader has    *)
(* returned, and that the units arrive in order, hangs on where the session  *)
(* of a reader stands: the inductive invariant says what the stream and the  *)
(* goroutine know of the reader at each of its stations.                     *)

USE StBounds

\* What the reader received and what waits for it.
All(r) == stGot[r] \o stQueue[r]

\* Units come in the order of their numbers, later than "from", up to "last".
Rising(s, from, last) ==
    /\ \A j, k \in DOMAIN s : j < k => s[j] < s[k]
    /\ \A k \in DOMAIN s : from < s[k] /\ s[k] <= last

\* The reader has no callback in the stream.
Unserved(r) == \A f \in StFormats : r \notin stPaused[f] /\ r \notin stRunning[f]

\* Where the session of a reader stands, and what the stream knows of it.
Stations ==
    \A r \in StReaders :
      /\ stOwner[r] = "out" => r \notin stKnown /\ stGo[r] = "none"
      /\ stOwner[r] = "adding" => r \in stKnown /\ stGo[r] = "none"
      /\ stOwner[r] = "reading" => r \in stKnown
      /\ stOwner[r] = "leaving" /\ r \notin stKnown => stLock = <<r>>
      /\ stLock = <<r>> => stOwner[r] = "leaving" /\ r \notin stKnown
      /\ stOwner[r] = "gone" => r \notin stKnown /\ stGo[r] \in {"none", "end"}
      /\ r \notin stKnown => Unserved(r)

\* A reader that was not started is not served, and has no unit.
NotStarted ==
    \A r \in StReaders : stGo[r] = "none" =>
      /\ stQueue[r] = <<>> /\ stGot[r] = <<>>
      /\ \A f \in StFormats : r \notin stRunning[f]

\* The units of every reader.
UnitsInOrder ==
    \A r \in StReaders : stFrom[r] <= stUnits /\ Rising(All(r), stFrom[r], stUnits)

\* The inductive strengthening of ReadersServedInOrder.
StInv == StTypeOK /\ Stations /\ NotStarted /\ UnitsInOrder

-----------------------------------------------------------------------------
(* Sequences.                                                               *)

\* A unit that moves from the queue to the callback stays where it was.
LEMMA PullKeepsAll ==
  ASSUME NEW s \in Seq(Nat), NEW t \in Seq(Nat), t # <<>>
  PROVE  Append(s, Head(t)) \o Tail(t) = s \o t
  <1> DEFINE u == Append(s, Head(t))
  <1>1. /\ Head(t) \in Nat /\ Tail(t) \in Seq(Nat) /\ Len(Tail(t)) = Len(t) - 1
        /\ Len(t) \in Nat \ {0} /\ Len(s) \in Nat /\ Head(t) = t[1]
        /\ \A i \in 1 .. Len(Tail(t)) : Tail(t)[i] = t[i + 1]
    BY HeadTailProperties, LenProperties
  <1>2. /\ u \in Seq(Nat) /\ Len(u) = Len(s) + 1 /\ u[Len(s) + 1] = t[1]
        /\ \A i \in 1 .. Len(s) : u[i] = s[i]
    BY <1>1
  <1> HIDE DEF u
  <1>3. /\ u \o Tail(t) \in Seq(Nat) /\ Len(u \o Tail(t)) = Len(s) + Len(t)
        /\ \A i \in 1 .. Len(s) + Len(t) : (u \o Tail(t))[i] =
              IF i <= Len(u) THEN u[i] ELSE Tail(t)[i - Len(u)]
    <2>1. /\ u \o Tail(t) \in Seq(Nat) /\ Len(u \o Tail(t)) = Len(u) + Len(Tail(t))
          /\ \A i \in 1 .. Len(u) + Len(Tail(t)) : (u \o Tail(t))[i] =
                IF i <= Len(u) THEN u[i] ELSE Tail(t)[i - Len(u)]
      BY <1>1, <1>2, ConcatProperties
    <2>2. Len(u) + Len(Tail(t)) = Len(s) + Len(t)
      BY <1>1, <1>2
    <2>3. QED BY <2>1, <2>2
  <1>4. /\ s \o t \in Seq(Nat) /\ Len(s \o t) = Len(s) + Len(t)
        /\ \A i \in 1 .. Len(s) + Len(t) : (s \o t)[i] =
              IF i <= Len(s) THEN s[i] ELSE t[i - Len(s)]
    BY ConcatProperties
  <1>5. ASSUME NEW i \in 1 .. Len(s) + Len(t) PROVE (u \o Tail(t))[i] = (s \o t)[i]
    <2>1. CASE i <= Len(s)
      BY <1>1, <1>2, <1>3, <1>4, <2>1
    <2>2. CASE i = Len(s) + 1
      BY <1>1, <1>2, <1>3, <1>4, <2>2
    <2>3. CASE i > Len(s) + 1
      <3>1. i - Len(u) \in 1 .. Len(Tail(t)) /\ i - Len(u) + 1 = i - Len(s)
        BY <1>1, <1>2, <2>3
      <3>2. QED BY <1>1, <1>2, <1>3, <1>4, <2>3, <3>1
    <2>4. i <= Len(s) \/ i = Len(s) + 1 \/ i > Len(s) + 1
      BY <1>1
    <2>5. QED BY <2>1, <2>2, <2>3, <2>4
  <1>6. QED BY <1>3, <1>4, <1>5, SeqEqual DEF u

\* Where an index is in a sequence made of two and one more element.
LEMMA ThreeParts ==
  ASSUME NEW i \in Int, NEW a \in Nat, NEW b \in Nat, i <= a + b + 1
  PROVE  i <= a \/ (i > a /\ i <= a + b) \/ i = a + b + 1
  OBVIOUS

\* A unit at the end of the queue is at the end of everything.
LEMMA PushAtEnd ==
  ASSUME NEW s \in Seq(Nat), NEW t \in Seq(Nat), NEW e \in Nat
  PROVE  s \o Append(t, e) = Append(s \o t, e)
  <1> DEFINE u == Append(t, e)
             v == Append(s \o t, e)
  <1>1. /\ s \o t \in Seq(Nat) /\ Len(s \o t) = Len(s) + Len(t)
        /\ \A i \in 1 .. Len(s) + Len(t) : (s \o t)[i] =
              IF i <= Len(s) THEN s[i] ELSE t[i - Len(s)]
    BY ConcatProperties
  <1>2. /\ u \in Seq(Nat) /\ Len(u) = Len(t) + 1 /\ u[Len(t) + 1] = e
        /\ \A i \in 1 .. Len(t) : u[i] = t[i]
        /\ Len(s) \in Nat /\ Len(t) \in Nat
    OBVIOUS
  <1>3. /\ v \in Seq(Nat) /\ Len(v) = Len(s) + Len(t) + 1 /\ v[Len(s) + Len(t) + 1] = e
        /\ \A i \in 1 .. Len(s) + Len(t) : v[i] = (s \o t)[i]
    BY <1>1
  <1> HIDE DEF u, v
  <1>4. /\ s \o u \in Seq(Nat) /\ Len(s \o u) = Len(s) + Len(u)
        /\ \A i \in 1 .. Len(s) + Len(u) : (s \o u)[i] =
              IF i <= Len(s) THEN s[i] ELSE u[i - Len(s)]
    BY <1>2, ConcatProperties
  <1>5. ASSUME NEW i \in 1 .. Len(v) PROVE (s \o u)[i] = v[i]
    <2>1. CASE i <= Len(s)
      <3>1. i \in 1 .. Len(s) + Len(t) /\ i \in 1 .. Len(s) + Len(u)
        BY <1>2, <1>5, <2>1
      <3>2. QED BY <1>1, <1>3, <1>4, <2>1, <3>1
    <2>2. CASE i > Len(s) /\ i <= Len(s) + Len(t)
      <3>1. /\ i - Len(s) \in 1 .. Len(t) /\ ~(i <= Len(s))
            /\ i \in 1 .. Len(s) + Len(t) /\ i \in 1 .. Len(s) + Len(u)
        BY <1>2, <1>5, <2>2
      <3>2. (s \o u)[i] = u[i - Len(s)] /\ v[i] = t[i - Len(s)]
        BY <1>1, <1>3, <1>4, <3>1
      <3>3. QED BY <1>2, <3>1, <3>2
    <2>3. CASE i = Len(s) + Len(t) + 1
      BY <1>1, <1>2, <1>3, <1>4, <2>3
    <2>4. i \in Int /\ i <= Len(s) + Len(t) + 1 /\ Len(s) \in Nat /\ Len(t) \in Nat
      BY <1>2, <1>3, <1>5
    <2>5. \/ i <= Len(s)
          \/ i > Len(s) /\ i <= Len(s) + Len(t)
          \/ i = Len(s) + Len(t) + 1
      BY <2>4, ThreeParts
    <2>6. QED BY <2>1, <2>2, <2>3, <2>5
  <1>6. QED BY <1>2, <1>3, <1>4, <1>5, SeqEqual DEF u, v

\* The next unit comes after all the others.
LEMMA NextUnitRises ==
  ASSUME NEW s \in Seq(Nat), NEW n \in Nat, NEW from \in Nat, from <= n,
         Rising(s, from, n)
  PROVE  Rising(Append(s, n + 1), from, n + 1)
  <1> DEFINE u == Append(s, n + 1)
  <1>1. /\ DOMAIN u = 1 .. Len(s) + 1 /\ u[Len(s) + 1] = n + 1 /\ DOMAIN s = 1 .. Len(s)
        /\ \A i \in 1 .. Len(s) : u[i] = s[i] /\ s[i] \in Nat
        /\ Len(s) \in Nat
    OBVIOUS
  <1> HIDE DEF u
  <1>2. \A k \in DOMAIN u : from < u[k] /\ u[k] <= n + 1
    BY <1>1 DEF Rising
  <1>3. ASSUME NEW j \in DOMAIN u, NEW k \in DOMAIN u, j < k PROVE u[j] < u[k]
    <2>1. j \in 1 .. Len(s) /\ u[j] <= n
      BY <1>1, <1>3 DEF Rising
    <2>2. QED BY <1>1, <1>3, <2>1 DEF Rising
  <1>4. QED BY <1>2, <1>3 DEF Rising, u

\* More units may have been written than the reader has.
LEMMA RisingLater ==
  ASSUME NEW s \in Seq(Nat), NEW from, NEW n \in Nat, Rising(s, from, n)
  PROVE  Rising(s, from, n + 1)
  <1>1. \A k \in DOMAIN s : s[k] \in Nat
    OBVIOUS
  <1>2. QED BY <1>1 DEF Rising

-----------------------------------------------------------------------------
(* Steps.                                                                   *)

\* Steps that neither write nor pull a unit nor start a reader.
LEMMA UnitsKept ==
  ASSUME UnitsInOrder, UNCHANGED <<stQueue, stGot, stFrom, stUnits>>
  PROVE  UnitsInOrder'
  BY DEF UnitsInOrder, All, Rising

\* AddReader.
LEMMA AddKeeps ==
  ASSUME StInv, NEW r \in StReaders, NEW f \in StFormats, AddReader(r, f)
  PROVE  StInv'
  <1> USE DEF StInv, AddReader, Free
  <1>1. StTypeOK'
    BY DEF StTypeOK
  <1>2. Stations'
    BY DEF StTypeOK, Stations, Unserved
  <1>3. NotStarted'
    BY DEF NotStarted
  <1>4. UnitsInOrder'
    BY UnitsKept
  <1>5. QED BY <1>1, <1>2, <1>3, <1>4

\* StartReader: nothing waits for the reader, so that its first unit is one
\* written from now on.
LEMMA StartKeeps ==
  ASSUME StInv, NEW r \in StReaders, StartReader(r)
  PROVE  StInv'
  <1> USE DEF StInv, StartReader, Free
  <1>1. StTypeOK'
    BY DEF StTypeOK
  <1>2. Stations'
    BY DEF StTypeOK, Stations, Unserved
  <1>3. NotStarted'
    BY DEF StTypeOK, NotStarted
  <1>4. UnitsInOrder'
    <2>1. stQueue[r] = <<>> /\ stGot[r] = <<>>
      BY DEF Stations, NotStarted
    <2>2. All(r)' = <<>>
      BY <2>1 DEF All
    <2>3. stFrom'[r] = stUnits /\ stUnits' = stUnits /\ stUnits \in Nat
      BY DEF StTypeOK
    <2>4. stFrom'[r] <= stUnits' /\ Rising(All(r)', stFrom'[r], stUnits')
      BY <2>2, <2>3 DEF Rising
    <2>5. ASSUME NEW q \in StReaders, q # r
          PROVE  stFrom'[q] <= stUnits' /\ Rising(All(q)', stFrom'[q], stUnits')
      <3>1. stFrom'[q] = stFrom[q] /\ All(q)' = All(q)
        BY <2>5 DEF StTypeOK, All
      <3>2. QED BY <3>1, <2>3 DEF UnitsInOrder
    <2>6. QED BY <2>4, <2>5 DEF UnitsInOrder
  <1>5. QED BY <1>1, <1>2, <1>3, <1>4

\* WriteUnit: a new unit at the end of the queues that have room.
LEMMA WriteKeeps ==
  ASSUME StInv, NEW f \in StFormats, WriteUnit(f)
  PROVE  StInv'
  <1> USE DEF StInv
  <1>1. /\ stUnits \in Nat /\ stUnits' = stUnits + 1 /\ stUnits' \in 0 .. MaxUnits
        /\ UNCHANGED <<stKnown, stPaused, stRunning, stClosed, stGo, stOwner, stLock,
                       stFrom, stGot, stAnyRun>>
    BY DEF WriteUnit, StTypeOK
  <1>2. ASSUME NEW r \in StReaders
        PROVE  /\ stQueue[r] \in Seq(Nat) /\ stGot[r] \in Seq(Nat) /\ stFrom[r] \in Nat
               /\ \/ stQueue'[r] = stQueue[r]
                  \/ /\ r \in stRunning[f] /\ Len(stQueue[r]) < QueueSize
                     /\ stQueue'[r] = Append(stQueue[r], stUnits + 1)
    BY DEF WriteUnit, StTypeOK
  <1>3. StTypeOK'
    <2>1. stQueue' \in [StReaders -> Seq(Nat)]
      BY <1>1 DEF WriteUnit, StTypeOK
    <2>2. ASSUME NEW r \in StReaders PROVE Len(stQueue'[r]) <= QueueSize
      <3>1. CASE stQueue'[r] = stQueue[r]
        BY <2>2, <3>1 DEF StTypeOK
      <3>2. CASE Len(stQueue[r]) < QueueSize /\ stQueue'[r] = Append(stQueue[r], stUnits + 1)
        <4>1. stQueue[r] \in Seq(Nat) /\ stUnits + 1 \in Nat
          BY <1>1, <1>2, <2>2
        <4>2. Len(stQueue'[r]) = Len(stQueue[r]) + 1 /\ Len(stQueue[r]) \in Nat
          BY <3>2, <4>1
        <4>3. QED BY <3>2, <4>2
      <3>3. QED BY <1>2, <2>2, <3>1, <3>2
    <2>3. QED BY <1>1, <2>1, <2>2 DEF StTypeOK
  <1>4. Stations'
    BY <1>1 DEF Stations, Unserved
  <1>5. NotStarted'
    BY <1>1, <1>2 DEF NotStarted
  <1>6. UnitsInOrder'
    <2>1. ASSUME NEW r \in StReaders
          PROVE  stFrom'[r] <= stUnits' /\ Rising(All(r)', stFrom'[r], stUnits')
      <3>1. /\ All(r) \in Seq(Nat) /\ stFrom[r] <= stUnits
            /\ Rising(All(r), stFrom[r], stUnits)
        BY <1>2, <2>1, ConcatProperties DEF UnitsInOrder, All
      <3>2. CASE stQueue'[r] = stQueue[r]
        <4>1. All(r)' = All(r)
          BY <1>1, <3>2 DEF All
        <4>2. QED BY <1>1, <1>2, <3>1, <4>1, RisingLater
      <3>3. CASE stQueue'[r] = Append(stQueue[r], stUnits + 1)
        <4>1. All(r)' = Append(All(r), stUnits + 1)
          <5>1. stGot[r] \in Seq(Nat) /\ stQueue[r] \in Seq(Nat) /\ stUnits + 1 \in Nat
            BY <1>1, <1>2, <2>1
          <5>2. stGot[r] \o Append(stQueue[r], stUnits + 1) = Append(All(r), stUnits + 1)
            BY <5>1, PushAtEnd DEF All
          <5>3. QED BY <1>1, <3>3, <5>2 DEF All
        <4>2. QED BY <1>1, <1>2, <3>1, <4>1, NextUnitRises
      <3>4. QED BY <1>2, <3>2, <3>3
    <2>2. QED BY <2>1 DEF UnitsInOrder
  <1>7. QED BY <1>3, <1>4, <1>5, <1>6

\* The goroutine pulls the first unit of the queue.
LEMMA PullKeeps ==
  ASSUME StInv, NEW r \in StReaders, PullUnit(r)
  PROVE  StInv'
  <1> USE DEF StInv, PullUnit
  <1>1. /\ stQueue[r] \in Seq(Nat) /\ stGot[r] \in Seq(Nat) /\ stQueue[r] # <<>>
        /\ Head(stQueue[r]) \in Nat /\ Tail(stQueue[r]) \in Seq(Nat)
        /\ Len(Tail(stQueue[r])) <= QueueSize
    BY HeadTailProperties DEF StTypeOK
  <1>2. StTypeOK'
    BY <1>1 DEF StTypeOK
  <1>3. Stations'
    BY DEF StTypeOK, Stations, Unserved
  <1>4. NotStarted'
    BY DEF StTypeOK, NotStarted
  <1>5. \A q \in StReaders : All(q)' = All(q)
    BY <1>1, PullKeepsAll DEF StTypeOK, All
  <1>6. UnitsInOrder'
    BY <1>5 DEF UnitsInOrder
  <1>7. QED BY <1>2, <1>3, <1>4, <1>6

\* The goroutine of a reader, without a unit.
LEMMA GoroutineKeeps ==
  ASSUME StInv, NEW r \in StReaders, CallbackReturns(r) \/ PullClosed(r) \/ ReaderError(r)
  PROVE  StInv'
  <1> USE DEF StInv
  <1>1. CASE CallbackReturns(r)
    <2> USE <1>1 DEF CallbackReturns, Free
    <2>1. StTypeOK'
      BY DEF StTypeOK
    <2>2. Stations'
      BY DEF StTypeOK, Stations, Unserved
    <2>3. NotStarted'
      BY DEF StTypeOK, Stations, NotStarted, Unserved
    <2>4. UnitsInOrder'
      BY UnitsKept
    <2>5. QED BY <2>1, <2>2, <2>3, <2>4
  <1>2. CASE PullClosed(r)
    <2> USE <1>2 DEF PullClosed, Free
    <2>1. StTypeOK'
      BY DEF StTypeOK
    <2>2. Stations'
      BY DEF StTypeOK, Stations, Unserved
    <2>3. NotStarted'
      BY DEF StTypeOK, Stations, NotStarted, Unserved
    <2>4. UnitsInOrder'
      BY UnitsKept
    <2>5. QED BY <2>1, <2>2, <2>3, <2>4
  <1>3. CASE ReaderError(r)
    <2> USE <1>3 DEF ReaderError, Free
    <2>1. StTypeOK'
      BY DEF StTypeOK
    <2>2. Stations'
      BY DEF StTypeOK, Stations, Unserved
    <2>3. NotStarted'
      BY DEF StTypeOK, Stations, NotStarted, Unserved
    <2>4. UnitsInOrder'
      BY UnitsKept
    <2>5. QED BY <2>1, <2>2, <2>3, <2>4
  <1>4. QED BY <1>1, <1>2, <1>3

\* The session leaves, and is let go.
LEMMA LeavingKeeps ==
  ASSUME StInv, NEW r \in StReaders, SessionEnds(r) \/ RemoveReader(r) \/ StopReader(r)
  PROVE  StInv'
  <1> USE DEF StInv
  <1>1. CASE SessionEnds(r)
    <2> USE <1>1 DEF SessionEnds, Free
    <2>1. StTypeOK'
      BY DEF StTypeOK
    <2>2. Stations'
      BY DEF StTypeOK, Stations, Unserved
    <2>3. NotStarted'
      BY DEF StTypeOK, Stations, NotStarted, Unserved
    <2>4. UnitsInOrder'
      BY UnitsKept
    <2>5. QED BY <2>1, <2>2, <2>3, <2>4
  <1>2. CASE RemoveReader(r)
    <2> USE <1>2 DEF RemoveReader, Free
    <2>1. StTypeOK'
      BY DEF StTypeOK
    <2>2. Stations'
      BY DEF StTypeOK, Stations, Unserved
    <2>3. NotStarted'
      BY DEF StTypeOK, Stations, NotStarted, Unserved
    <2>4. UnitsInOrder'
      BY UnitsKept
    <2>5. QED BY <2>1, <2>2, <2>3, <2>4
  <1>3. CASE StopReader(r)
    <2> USE <1>3 DEF StopReader, Free
    <2>1. StTypeOK'
      BY DEF StTypeOK
    <2>2. Stations'
      BY DEF StTypeOK, Stations, Unserved
    <2>3. NotStarted'
      BY DEF StTypeOK, Stations, NotStarted, Unserved
    <2>4. UnitsInOrder'
      BY UnitsKept
    <2>5. QED BY <2>1, <2>2, <2>3, <2>4
  <1>4. QED BY <1>1, <1>2, <1>3

-----------------------------------------------------------------------------
\* The inductive invariant of a stream and its readers.
LEMMA StreamSafe == StInit /\ [][StNext]_stVars => []StInv
  <1>1. StInit => StInv
    <2>1. SUFFICES ASSUME StInit PROVE StInv
      OBVIOUS
    <2>a. <<>> \in Seq(Nat) /\ Len(<<>>) = 0 /\ 0 \in 0 .. MaxUnits
      OBVIOUS
    <2>b. \A r \in StReaders : stQueue[r] = <<>> /\ stGot[r] = <<>> /\ stFrom[r] = 0
      BY <2>1 DEF StInit
    <2>2. StTypeOK
      <3>1. stPaused \in [StFormats -> SUBSET StReaders] /\ stRunning = stPaused
        BY <2>1 DEF StInit
      <3>2. stQueue \in [StReaders -> Seq(Nat)] /\ stGot \in [StReaders -> Seq(Nat)]
        BY <2>1, <2>a DEF StInit
      <3>3. \A r \in StReaders : Len(stQueue[r]) <= QueueSize
        <4>1. ASSUME NEW r \in StReaders PROVE Len(stQueue[r]) <= QueueSize
          <5>1. stQueue[r] = <<>>
            BY <2>b
          <5>2. Len(stQueue[r]) = 0
            BY <5>1
          <5>3. QED BY <5>2
        <4>2. QED BY <4>1
      <3>4. stFrom \in [StReaders -> 0 .. MaxUnits] /\ stUnits \in 0 .. MaxUnits
        BY <2>1, <2>a DEF StInit
      <3>5. QED BY <2>1, <3>1, <3>2, <3>3, <3>4 DEF StInit, StTypeOK
    <2>3. Stations /\ NotStarted
      BY <2>1 DEF StInit, Stations, NotStarted, Unserved
    <2>4. \A r \in StReaders : All(r) = <<>> /\ stFrom[r] = 0
      <3>1. ASSUME NEW r \in StReaders PROVE All(r) = <<>> /\ stFrom[r] = 0
        <4>1. stGot[r] = <<>> /\ stQueue[r] = <<>> /\ stFrom[r] = 0
          BY <2>b
        <4>2. QED BY <4>1 DEF All
      <3>2. QED BY <3>1
    <2>5. UnitsInOrder
      <3>1. stUnits = 0 /\ Rising(<<>>, 0, 0)
        BY <2>1 DEF StInit, Rising
      <3>2. ASSUME NEW r \in StReaders
            PROVE  stFrom[r] <= stUnits /\ Rising(All(r), stFrom[r], stUnits)
        <4>1. All(r) = <<>> /\ stFrom[r] = 0
          BY <2>4
        <4>2. Rising(All(r), stFrom[r], stUnits)
          BY <3>1, <4>1
        <4>3. QED BY <3>1, <4>1, <4>2
      <3>3. QED BY <3>2 DEF UnitsInOrder
    <2>6. QED BY <2>2, <2>3, <2>5 DEF StInv
  <1>2. StInv /\ [StNext]_stVars => StInv'
    <2>1. StInv /\ StNext => StInv'
      BY AddKeeps, StartKeeps, WriteKeeps, PullKeeps, GoroutineKeeps, LeavingKeeps DEF StNext
    <2>2. StInv /\ UNCHANGED stVars => StInv'
      BY UnitsKept DEF stVars, StInv, StTypeOK, Stations, NotStarted, Unserved
    <2>3. QED BY <2>1, <2>2
  <1>3. QED BY <1>1, <1>2, PTL

\* The same of the specification with its fairness.
THEOREM StreamInvariant == StSpec => []StInv
  BY StreamSafe, PTL DEF StSpec

\* The types of the stream and its readers; no ring buffer ever holds more
\* than its size.
THEOREM StreamTypeCorrect == StSpec => []StTypeOK
  <1>1. StInv => StTypeOK
    BY DEF StInv
  <1>2. QED BY <1>1, StreamInvariant, PTL

\* Every reader gets its units in order, once, and none from before it was
\* started, and nothing of it runs once RemoveReader has returned: for any
\* number of readers, formats and units and every size of the queue.
THEOREM ReadersServed == StSpec => []ReadersServedInOrder
  <1>1. StInv => ReadersServedInOrder
    BY DEF StInv, StTypeOK, Stations, Unserved, UnitsInOrder, All, Rising,
       ReadersServedInOrder
  <1>2. QED BY <1>1, StreamInvariant, PTL

-----------------------------------------------------------------------------
(* The five components of MCLive.                                            *)

\* VodPipeline, instantiated in MCLive, and in VodPipelineProofs, is the same:
\* the types and the channel of the VOD pipeline.
LEMMA VodSafe ==
  Vod!Init /\ [][Vod!Next]_vodVars => [](Vod!TypeOK /\ Vod!ChannelSurvives)
  <1>1. (VodP!Spec => []VodP!TypeOK) /\ (VodP!Spec => []VodP!ChannelSurvives)
    BY VodConstants, VodP!PipelineTypeCorrect, VodP!ChannelKept
  <1>2. Vod!Init => VodP!Init
    BY Zenon DEF Vod!Init, VodP!Init, Vod!SetUps, VodP!SetUps
  <1>3. [Vod!Next]_vodVars => [VodP!Next]_(VodP!vars)
    <2>1. ASSUME NEW j \in Jobs
          PROVE  Vod!Insert(j) \/ Vod!Publish(j) \/ Vod!Deliver(j)
                 => VodP!Insert(j) \/ VodP!Publish(j) \/ VodP!Deliver(j)
      BY Zenon DEF Vod!Insert, VodP!Insert, Vod!Publish, VodP!Publish, Vod!PublishFrame,
         VodP!PublishFrame, Vod!Deliver, VodP!Deliver, Vod!brokerVars,
         VodP!brokerVars, Vod!countVars, VodP!countVars
    <2>2. Vod!ConsumerNext => VodP!ConsumerNext
      BY Zenon DEF Vod!ConsumerNext, VodP!ConsumerNext, Vod!Receive, VodP!Receive, Vod!LoopEnds,
         VodP!LoopEnds, Vod!Transcode, VodP!Transcode, Vod!Update, VodP!Update,
         Vod!Nack, VodP!Nack, Vod!Ack, VodP!Ack, Vod!SendOf, VodP!SendOf,
         Vod!NackFrame, VodP!NackFrame, Vod!AckFrame, VodP!AckFrame, Vod!brokerVars,
         VodP!brokerVars, Vod!countVars, VodP!countVars
    <2>3. Vod!BrokerTakesFrame \/ Vod!ClientSeesClose
          => VodP!BrokerTakesFrame \/ VodP!ClientSeesClose
      BY Zenon DEF Vod!BrokerTakesFrame, VodP!BrokerTakesFrame, Vod!TakePublish,
         VodP!TakePublish, Vod!TakeNack, VodP!TakeNack, Vod!TakeAck, VodP!TakeAck,
         Vod!Known, VodP!Known, Vod!CloseChannel, VodP!CloseChannel, Vod!JobsOf,
         VodP!JobsOf, Vod!ClientSeesClose, VodP!ClientSeesClose, Vod!brokerVars,
         VodP!brokerVars, Vod!countVars, VodP!countVars
    <2>4. Vod!Crash \/ Vod!Restart \/ Vod!BrokerRestart
          => VodP!Crash \/ VodP!Restart \/ VodP!BrokerRestart
      BY Zenon DEF Vod!Crash, VodP!Crash, Vod!Restart, VodP!Restart, Vod!SetUps,
         VodP!SetUps, Vod!BrokerRestart, VodP!BrokerRestart, Vod!JobsOf, VodP!JobsOf, Vod!Published, VodP!Published,
         Vod!PublishFrame, VodP!PublishFrame, Vod!brokerVars, VodP!brokerVars,
         Vod!countVars, VodP!countVars
    <2>5. Vod!Next => VodP!Next
      BY <2>1, <2>2, <2>3, <2>4, Zenon DEF Vod!Next, VodP!Next
    <2>6. UNCHANGED vodVars => UNCHANGED VodP!vars
      BY DEF vodVars, VodP!vars, VodP!brokerVars, VodP!countVars
    <2>7. QED BY <2>5, <2>6, Zenon
  <1>4. VodP!TypeOK /\ VodP!ChannelSurvives => Vod!TypeOK /\ Vod!ChannelSurvives
    BY Zenon DEF Vod!TypeOK, VodP!TypeOK, Vod!ChannelSurvives, VodP!ChannelSurvives,
       Vod!Deliveries, VodP!Deliveries, Vod!Frames, VodP!Frames
  <1>5. QED BY <1>1, <1>2, <1>3, <1>4, PTL DEF VodP!Spec

\* The components share no state: every step is a step of each, or leaves it.
LEMMA LiveSteps ==
  ASSUME [LiveNext]_liveAll
  PROVE  /\ [Next]_vars /\ [PmNext]_pmVars /\ [SsNext]_ssVars /\ [StNext]_stVars
         /\ [Vod!Next]_vodVars
  <1>1. CASE LiveNext
    BY <1>1, Zenon DEF LiveNext, InPath, InManager, InSource, InReaders, InVod
  <1>2. CASE UNCHANGED liveAll
    BY <1>2, Zenon DEF liveAll
  <1>3. QED BY <1>1, <1>2

\* The types of the components with liveness properties, together: a path,
\* the path manager, a static source, the readers of a stream and the VOD
\* pipeline, for every value of the constants.
THEOREM LiveTypesCorrect == LiveInit /\ [][LiveNext]_liveAll => []LiveTypeOK
  <1>1. LiveInit => Init /\ PmInit /\ SsInit /\ StInit /\ Vod!Init
    BY Zenon DEF LiveInit
  <1>2. Init /\ [][Next]_vars => []TypeOK
    BY PathTypeCorrect, PTL DEF Spec
  <1>3. PmInit /\ [][PmNext]_pmVars => []PmTypeOK
    <2>1. PmInv => PmTypeOK
      BY DEF PmInv
    <2>2. QED BY <2>1, ManagerSafe, PTL
  <1>4. SsInit /\ [][SsNext]_ssVars => []SsTypeOK
    <2>1. SsInv => SsTypeOK
      BY DEF SsInv
    <2>2. QED BY <2>1, SourceSafe, PTL
  <1>5. StInit /\ [][StNext]_stVars => []StTypeOK
    <2>1. StInv => StTypeOK
      BY DEF StInv
    <2>2. QED BY <2>1, StreamSafe, PTL
  <1>6. TypeOK /\ PmTypeOK /\ SsTypeOK /\ StTypeOK /\ Vod!TypeOK => LiveTypeOK
    BY Zenon DEF LiveTypeOK
  <1>7. [LiveNext]_liveAll => [Next]_vars
    BY LiveSteps
  <1>8. [LiveNext]_liveAll => [PmNext]_pmVars
    BY LiveSteps
  <1>9. [LiveNext]_liveAll => [SsNext]_ssVars
    BY LiveSteps
  <1>10. [LiveNext]_liveAll => [StNext]_stVars
    BY LiveSteps
  <1>11. [LiveNext]_liveAll => [Vod!Next]_vodVars
    BY LiveSteps
  <1>12. LiveInit /\ [][LiveNext]_liveAll => []TypeOK /\ []PmTypeOK
    BY <1>1, <1>2, <1>3, <1>7, <1>8, PTL
  <1>13. LiveInit /\ [][LiveNext]_liveAll => []SsTypeOK /\ []StTypeOK
    BY <1>1, <1>4, <1>5, <1>9, <1>10, PTL
  <1>14. LiveInit /\ [][LiveNext]_liveAll => []Vod!TypeOK
    BY <1>1, <1>11, VodSafe, PTL
  <1>15. QED BY <1>6, <1>12, <1>13, <1>14, PTL

\* Completed jobs never make the broker close the one channel that uploads
\* and the consumer share, as the run that checks the liveness states it.
THEOREM SharedChannelSurvives == LiveInit /\ [][LiveNext]_liveAll => []ChannelSurvives
  <1>1. LiveInit => Vod!Init
    BY Zenon DEF LiveInit
  <1>2. [LiveNext]_liveAll => [Vod!Next]_vodVars
    BY LiveSteps
  <1>3. Vod!ChannelSurvives => ChannelSurvives
    BY Zenon DEF ChannelSurvives
  <1>4. QED BY <1>1, <1>2, <1>3, VodSafe, PTL
=============================================================================
