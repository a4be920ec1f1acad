---------------------------- MODULE ServersProofs ----------------------------
(***************************************************************************)
(* Proofs about the HLS server, about the clients of the other media       *)
(* servers, for any number of muxers, connections and sessions, about the  *)
(* opening of an RTMP connection, for a path of any length, and about all  *)
(* of them together with the path manager and the core.                    *)
(***************************************************************************)
EXTENDS MCServers, CoreProofs, SequenceTheorems, TLAPS

-----------------------------------------------------------------------------
(* The HLS server.                                                           *)

\* The muxer in the index was created, by the path if the server always remuxes.
IndexedMuxer ==
    hlMap # 0 => hlMux[hlMap].st # "unborn" /\ (hlAlways => hlMux[hlMap].auto)

\* A server that always remuxes and missed nothing has no muxer of a path that
\* is not ready: PathReady will create one.
NotReadyForgotten == (hlUp = "up" /\ hlAlways /\ ~hlReady /\ ~hlLost) => hlMap = 0

\* A server the path manager was not told of yet has not heard what became ready,
\* and if it always remuxes it has no muxer at all.
NewServerIdle == hlUp = "new" => (hlAlways => hlMap = 0) /\ (hlReady => hlUnheard)

\* The inductive strengthening of MuxersMatchPath.
HlsInv == HlsTypeOK /\ IndexedMuxer /\ NotReadyForgotten /\ NewServerIdle /\ MuxersMatchPath

\* The fields of a muxer.
LEMMA MuxerFields ==
  ASSUME HlsTypeOK
  PROVE  /\ \A m \in Muxers : hlMux[m].auto \in BOOLEAN /\ hlMux[m].cancelled \in BOOLEAN
         /\ hlMap # 0 => hlMap \in Muxers
         /\ 0 \notin Muxers /\ 0 \in 0 .. MaxMuxers /\ \A m \in Muxers : m \in 0 .. MaxMuxers
  BY HlsBounds DEF HlsTypeOK, Muxers

\* A step of one muxer, within its life.
LEMMA MuxerMoves ==
  ASSUME HlsTypeOK, NEW m \in Muxers, NEW s \in {"converting", "failed", "ending", "gone"},
         hlMux' = [hlMux EXCEPT ![m].st = s]
  PROVE  /\ hlMux' \in [Muxers -> [st : Alive \cup {"unborn", "ending", "gone"},
                                   auto : BOOLEAN, cancelled : BOOLEAN, idle : BOOLEAN]]
         /\ hlMux'[m].st = s
         /\ \A k \in Muxers : /\ hlMux'[k].auto = hlMux[k].auto
                              /\ hlMux'[k].cancelled = hlMux[k].cancelled
                              /\ k # m => hlMux'[k].st = hlMux[k].st
  BY DEF HlsTypeOK, Alive

\* createMuxer
LEMMA CreateMuxer ==
  ASSUME HlsTypeOK, NEW auto \in BOOLEAN, Create(auto)
  PROVE  /\ hlMux' \in [Muxers -> [st : Alive \cup {"unborn", "ending", "gone"},
                                   auto : BOOLEAN, cancelled : BOOLEAN, idle : BOOLEAN]]
         /\ hlMap' \in Muxers /\ hlMux[hlMap'].st = "unborn"
         /\ hlMux'[hlMap'].st = "adding" /\ hlMux'[hlMap'].auto = auto
         /\ hlMux'[hlMap'].cancelled = FALSE
         /\ \A k \in Muxers : k # hlMap' => hlMux'[k] = hlMux[k]
  <1> DEFINE new == [NoMuxer EXCEPT !.st = "adding", !.auto = auto]
  <1>1. PICK m \in Muxers :
          hlMux[m].st = "unborn" /\ hlMap' = m /\ hlMux' = [hlMux EXCEPT ![m] = new]
    BY DEF Create
  <1>2. /\ new \in [st : Alive \cup {"unborn", "ending", "gone"},
                    auto : BOOLEAN, cancelled : BOOLEAN, idle : BOOLEAN]
        /\ new.st = "adding" /\ new.auto = auto /\ new.cancelled = FALSE
    BY DEF NoMuxer, Alive
  <1> HIDE DEF new
  <1>3. QED BY <1>1, <1>2 DEF HlsTypeOK

\* muxer.Close
LEMMA CancelMuxers ==
  ASSUME HlsTypeOK, NEW ms, hlMux' = Cancel(ms)
  PROVE  /\ hlMux' \in [Muxers -> [st : Alive \cup {"unborn", "ending", "gone"},
                                   auto : BOOLEAN, cancelled : BOOLEAN, idle : BOOLEAN]]
         /\ \A k \in Muxers : /\ hlMux'[k].st = hlMux[k].st /\ hlMux'[k].auto = hlMux[k].auto
                              /\ hlMux'[k].cancelled = (k \in ms \/ hlMux[k].cancelled)
  <1>1. \A k \in Muxers : hlMux'[k] = IF k \in ms THEN [hlMux[k] EXCEPT !.cancelled = TRUE] ELSE hlMux[k]
    BY DEF Cancel
  <1>2. \A k \in Muxers : hlMux[k] \in [st : Alive \cup {"unborn", "ending", "gone"},
                                        auto : BOOLEAN, cancelled : BOOLEAN, idle : BOOLEAN]
    BY DEF HlsTypeOK
  <1>3. ASSUME NEW k \in Muxers
        PROVE  /\ hlMux'[k] \in [st : Alive \cup {"unborn", "ending", "gone"},
                                 auto : BOOLEAN, cancelled : BOOLEAN, idle : BOOLEAN]
               /\ hlMux'[k].st = hlMux[k].st /\ hlMux'[k].auto = hlMux[k].auto
               /\ hlMux'[k].cancelled = (k \in ms \/ hlMux[k].cancelled)
    BY <1>1, <1>2
  <1>4. DOMAIN hlMux' = Muxers /\ hlMux' = [k \in Muxers |-> hlMux'[k]]
    BY DEF Cancel
  <1>5. QED BY <1>3, <1>4

\* The server's loop: the path becomes ready or not, a client asks, the end.
LEMMA ServerLoopKeeps ==
  ASSUME HlsInv, HlsPathReady \/ HlsPathNotReady \/ HlsPathKilled \/ HlsRequest \/ HlsClose
  PROVE  HlsInv'
  <1> USE DEF HlsInv, MuxersMatchPath
  <1> DEFINE Types == /\ hlMux' \in [Muxers -> [st : Alive \cup {"unborn", "ending", "gone"},
                                       auto : BOOLEAN, cancelled : BOOLEAN, idle : BOOLEAN]]
                      /\ hlMap' \in 0 .. MaxMuxers /\ hlReaders' \subseteq Muxers
  <1>1. CASE HlsPathReady
    <2>1. CASE hlUp = "up" /\ hlAlways /\ hlMap = 0
      <3>1. /\ Create(TRUE) /\ hlReady' = TRUE /\ hlUnheard' = FALSE
            /\ UNCHANGED <<hlAlways, hlUp, hlReaders, hlLost, hlGaveUp>>
        BY <1>1, <2>1 DEF HlsPathReady
      <3>2. Types
        BY <3>1, CreateMuxer, MuxerFields DEF HlsTypeOK
      <3>3. HlsTypeOK'
        BY <3>1, <3>2 DEF HlsTypeOK
      <3>4. IndexedMuxer' /\ NotReadyForgotten' /\ NewServerIdle'
        BY <2>1, <3>1, CreateMuxer, MuxerFields DEF IndexedMuxer, NotReadyForgotten, NewServerIdle
      <3>5. RunningMuxerIsIndexed' /\ ReadyPathIsRemuxed'
        BY <2>1, <3>1, CreateMuxer, MuxerFields
           DEF RunningMuxerIsIndexed, ReadyPathIsRemuxed, Remuxed, Alive
      <3>6. QED BY <3>3, <3>4, <3>5
    <2>2. CASE ~(hlUp = "up" /\ hlAlways /\ hlMap = 0)
      <3>1. /\ ~hlReady /\ hlReady' = TRUE /\ hlUnheard' = (hlUp # "up")
            /\ UNCHANGED <<hlAlways, hlUp, hlReaders, hlLost, hlGaveUp, hlMux, hlMap>>
        BY <1>1, <2>2 DEF HlsPathReady
      <3>2. HlsTypeOK'
        BY <3>1 DEF HlsTypeOK
      <3>3. QED
        BY <2>2, <3>1, <3>2 DEF IndexedMuxer, NotReadyForgotten, NewServerIdle, RunningMuxerIsIndexed,
           ReadyPathIsRemuxed, Remuxed
    <2>3. QED BY <2>1, <2>2
  <1>2. CASE HlsPathNotReady
    <2> DEFINE automatic == hlUp = "up" /\ hlMap # 0 /\ hlMux[hlMap].auto
               ms == hlReaders \cup (IF automatic THEN {hlMap} ELSE {})
    <2>1. /\ hlReady' = FALSE /\ hlMux' = Cancel(ms)
          /\ hlMap' = IF automatic THEN 0 ELSE hlMap
          /\ hlReaders' = {} /\ hlUnheard' = FALSE /\ hlGaveUp' = FALSE
          /\ UNCHANGED <<hlAlways, hlUp, hlLost>>
      BY <1>2 DEF HlsPathNotReady
    <2>2. automatic => hlMap \in ms
      OBVIOUS
    <2> HIDE DEF ms
    <2>3. Types
      BY <2>1, CancelMuxers, MuxerFields DEF HlsTypeOK
    <2>4. HlsTypeOK'
      BY <2>1, <2>3 DEF HlsTypeOK
    <2>5. \A k \in Muxers : /\ hlMux'[k].st = hlMux[k].st /\ hlMux'[k].auto = hlMux[k].auto
                            /\ hlMux'[k].cancelled = (k \in ms \/ hlMux[k].cancelled)
      BY <2>1, CancelMuxers
    <2>6. IndexedMuxer' /\ NotReadyForgotten' /\ NewServerIdle'
      BY <2>1, <2>5, MuxerFields DEF IndexedMuxer, NotReadyForgotten, NewServerIdle
    <2>7. RunningMuxerIsIndexed' /\ ReadyPathIsRemuxed'
      BY <2>1, <2>2, <2>5, MuxerFields DEF RunningMuxerIsIndexed, ReadyPathIsRemuxed, Remuxed
    <2>8. QED BY <2>4, <2>6, <2>7
  <1>3. CASE HlsPathKilled
    <2>1. /\ hlReady' = FALSE /\ hlLost' = TRUE /\ hlMux' = Cancel(hlReaders)
          /\ hlReaders' = {} /\ hlUnheard' = FALSE
          /\ UNCHANGED <<hlAlways, hlUp, hlMap, hlGaveUp>>
      BY <1>3 DEF HlsPathKilled
    <2>2. Types
      BY <2>1, CancelMuxers, MuxerFields DEF HlsTypeOK
    <2>3. HlsTypeOK'
      BY <2>1, <2>2 DEF HlsTypeOK
    <2>4. \A k \in Muxers : /\ hlMux'[k].st = hlMux[k].st /\ hlMux'[k].auto = hlMux[k].auto
                            /\ hlMux'[k].cancelled = (k \in hlReaders \/ hlMux[k].cancelled)
      BY <2>1, CancelMuxers
    <2>5. IndexedMuxer' /\ NotReadyForgotten' /\ NewServerIdle'
      BY <2>1, <2>4, MuxerFields DEF IndexedMuxer, NotReadyForgotten, NewServerIdle
    <2>6. RunningMuxerIsIndexed' /\ ReadyPathIsRemuxed'
      BY <2>1, <2>4, MuxerFields DEF RunningMuxerIsIndexed, ReadyPathIsRemuxed, Remuxed
    <2>7. QED BY <2>3, <2>5, <2>6
  <1>4. CASE HlsRequest
    <2>1. /\ hlUp # "down"
          /\ UNCHANGED <<hlAlways, hlUp, hlReady, hlReaders, hlLost, hlUnheard, hlGaveUp>>
      BY <1>4 DEF HlsRequest, hlPathVars, hlHistory
    <2>2. CASE hlMap # 0 /\ hlMux' = [hlMux EXCEPT ![hlMap].idle = FALSE] /\ UNCHANGED hlMap
      <3>1. Types
        BY <2>1, <2>2, MuxerFields DEF HlsTypeOK
      <3>2. HlsTypeOK'
        BY <2>1, <3>1 DEF HlsTypeOK
      <3>3. \A k \in Muxers : /\ hlMux'[k].st = hlMux[k].st /\ hlMux'[k].auto = hlMux[k].auto
                              /\ hlMux'[k].cancelled = hlMux[k].cancelled
        BY <2>2, MuxerFields DEF HlsTypeOK
      <3>4. QED
        BY <2>1, <2>2, <3>2, <3>3, MuxerFields DEF IndexedMuxer, NotReadyForgotten, NewServerIdle,
           RunningMuxerIsIndexed, ReadyPathIsRemuxed, Remuxed
    <2>3. CASE hlMap = 0 /\ ~hlAlways /\ Create(FALSE)
      <3>1. Types
        BY <2>1, <2>3, CreateMuxer, MuxerFields DEF HlsTypeOK
      <3>2. HlsTypeOK'
        BY <2>1, <3>1 DEF HlsTypeOK
      <3>3. IndexedMuxer' /\ NotReadyForgotten' /\ NewServerIdle'
        BY <2>1, <2>3, CreateMuxer, MuxerFields DEF IndexedMuxer, NotReadyForgotten, NewServerIdle
      <3>4. RunningMuxerIsIndexed' /\ ReadyPathIsRemuxed'
        BY <2>1, <2>3, CreateMuxer, MuxerFields DEF RunningMuxerIsIndexed, ReadyPathIsRemuxed, Remuxed
      <3>5. QED BY <3>2, <3>3, <3>4
    <2>4. QED BY <1>4, <2>2, <2>3 DEF HlsRequest
  <1>5. CASE HlsClose
    <2> DEFINE ms == {m \in Muxers : hlMux[m].st # "unborn"}
    <2>1. /\ hlUp' = "down" /\ hlMux' = Cancel(ms)
          /\ UNCHANGED <<hlAlways, hlReady, hlMap, hlReaders, hlLost, hlUnheard, hlGaveUp>>
      BY <1>5 DEF HlsClose, hlPathVars, hlHistory
    <2> HIDE DEF ms
    <2>2. Types
      BY <2>1, CancelMuxers, MuxerFields DEF HlsTypeOK
    <2>3. HlsTypeOK'
      BY <2>1, <2>2 DEF HlsTypeOK
    <2>4. \A k \in Muxers : hlMux'[k].st = hlMux[k].st /\ hlMux'[k].auto = hlMux[k].auto
      BY <2>1, CancelMuxers
    <2>5. QED
      BY <2>1, <2>3, <2>4, MuxerFields DEF IndexedMuxer, NotReadyForgotten, NewServerIdle,
         RunningMuxerIsIndexed, ReadyPathIsRemuxed, Remuxed
  <1>6. QED BY <1>1, <1>2, <1>3, <1>4, <1>5

\* Core creates the server, the path manager learns of it, and forgets it.
LEMMA ServerLifeKeeps ==
  ASSUME HlsInv, HlsCreate \/ HlsAnnounced \/ HlsForgotten
  PROVE  HlsInv'
  <1> USE DEF HlsInv, MuxersMatchPath
  <1>1. CASE HlsCreate
    <2>1. /\ hlUp' = "new" /\ hlAlways' \in BOOLEAN /\ hlMap' = 0 /\ hlLost' = FALSE
          /\ hlUnheard' = hlReady /\ hlGaveUp' = FALSE
          /\ UNCHANGED <<hlReady, hlReaders, hlMux>>
          /\ \A m \in Muxers : hlMux[m].st \in {"unborn", "gone"}
      BY <1>1 DEF HlsCreate, hlPathVars
    <2>2. HlsTypeOK'
      BY <2>1, MuxerFields DEF HlsTypeOK
    <2>3. RunningMuxerIsIndexed'
      BY <2>1 DEF RunningMuxerIsIndexed, Alive
    <2>4. QED
      BY <2>1, <2>2, <2>3 DEF IndexedMuxer, NotReadyForgotten, NewServerIdle,
         ReadyPathIsRemuxed
  <1>2. CASE HlsAnnounced \/ HlsForgotten
    <2>1. /\ UNCHANGED <<hlAlways, hlReady, hlReaders, hlMux, hlMap, hlLost, hlUnheard, hlGaveUp>>
          /\ <<hlUp, hlUp'>> \in {<<"new", "up">>, <<"up", "leaving">>}
      BY <1>2 DEF HlsAnnounced, HlsForgotten, hlPathVars, hlHistory
    <2>2. HlsTypeOK'
      BY <2>1 DEF HlsTypeOK
    <2>3. QED
      BY <2>1, <2>2 DEF IndexedMuxer, NotReadyForgotten, NewServerIdle,
         RunningMuxerIsIndexed, ReadyPathIsRemuxed
  <1>3. QED BY <1>1, <1>2

\* The goroutine of a muxer.
LEMMA MuxerKeeps ==
  ASSUME HlsInv, NEW m \in Muxers,
         \/ MuxerStarts(m) \/ InstanceError(m) \/ InstanceRecreated(m)
         \/ NoRequests(m) \/ MuxerStops(m) \/ MuxerGone(m)
  PROVE  HlsInv'
  <1> USE DEF HlsInv, MuxersMatchPath
  <1>1. CASE NoRequests(m)
    <2>1. /\ hlMux' = [hlMux EXCEPT ![m].idle = TRUE]
          /\ UNCHANGED <<hlAlways, hlUp, hlReady, hlMap, hlReaders, hlLost, hlUnheard, hlGaveUp>>
      BY <1>1 DEF NoRequests, hlPathVars, hlHistory
    <2>2. HlsTypeOK'
      BY <2>1 DEF HlsTypeOK
    <2>3. \A k \in Muxers : /\ hlMux'[k].st = hlMux[k].st /\ hlMux'[k].auto = hlMux[k].auto
                            /\ hlMux'[k].cancelled = hlMux[k].cancelled
      BY <2>1 DEF HlsTypeOK
    <2>4. QED
      BY <2>1, <2>2, <2>3, MuxerFields DEF IndexedMuxer, NotReadyForgotten, NewServerIdle,
         RunningMuxerIsIndexed, ReadyPathIsRemuxed, Remuxed
  <1>2. CASE MuxerStarts(m) \/ InstanceError(m) \/ InstanceRecreated(m) \/ MuxerStops(m) \/ MuxerGone(m)
    <2>1. PICK s \in {"converting", "failed", "ending", "gone"} : hlMux' = [hlMux EXCEPT ![m].st = s]
      BY <1>2 DEF MuxerStarts, InstanceError, InstanceRecreated, MuxerStops, MuxerGone
    <2>2. /\ hlMux' \in [Muxers -> [st : Alive \cup {"unborn", "ending", "gone"},
                                    auto : BOOLEAN, cancelled : BOOLEAN, idle : BOOLEAN]]
          /\ hlMux'[m].st = s
          /\ \A k \in Muxers : /\ hlMux'[k].auto = hlMux[k].auto
                               /\ hlMux'[k].cancelled = hlMux[k].cancelled
                               /\ k # m => hlMux'[k].st = hlMux[k].st
      BY <2>1, MuxerMoves
    <2>3. /\ UNCHANGED <<hlAlways, hlUp, hlReady, hlLost, hlUnheard>>
          /\ hlReaders' \subseteq Muxers /\ hlGaveUp' \in BOOLEAN /\ (hlGaveUp => hlGaveUp')
      BY <1>2, MuxerFields DEF MuxerStarts, InstanceError, InstanceRecreated, MuxerStops, MuxerGone,
         HlsTypeOK, hlPathVars, hlHistory
    <2>4. hlMap' \in {hlMap, 0} /\ (hlMap' # hlMap => hlMux[m].st = "ending" /\ hlMap = m)
      BY <1>2 DEF MuxerStarts, InstanceError, InstanceRecreated, MuxerStops, MuxerGone
    <2>5. HlsTypeOK'
      BY <2>2, <2>3, <2>4, MuxerFields DEF HlsTypeOK
    <2>6. IndexedMuxer' /\ NotReadyForgotten' /\ NewServerIdle'
      BY <2>2, <2>3, <2>4, MuxerFields DEF IndexedMuxer, NotReadyForgotten, NewServerIdle
    <2>7. s \in Alive => hlMux[m].st \in Alive
      BY <1>2, <2>1, <2>2 DEF MuxerStarts, InstanceError, InstanceRecreated, MuxerStops, MuxerGone, Alive
    <2>8. RunningMuxerIsIndexed'
      BY <2>2, <2>3, <2>4, <2>7 DEF RunningMuxerIsIndexed, Alive
    <2>9. ReadyPathIsRemuxed'
      <3> SUFFICES ASSUME hlUp' = "up", hlAlways', hlReady', ~hlLost', ~hlUnheard', ~hlGaveUp'
                   PROVE  hlMap' # 0 /\ hlMux'[hlMap'].st \in Alive /\ ~hlMux'[hlMap'].cancelled
        <4>1. ASSUME hlUp' = "up", hlAlways', hlReady', ~hlLost', hlUnheard', ~hlGaveUp'
              PROVE  hlMap' = 0
          <5>1. hlMap = 0
            BY <2>3, <4>1 DEF ReadyPathIsRemuxed
          <5>2. QED BY <2>4, <5>1
        <4>2. QED BY <4>1 DEF ReadyPathIsRemuxed, Remuxed
      <3>1. hlMap # 0 /\ hlMux[hlMap].st \in Alive /\ ~hlMux[hlMap].cancelled /\ hlMux[hlMap].auto
        BY <2>3 DEF ReadyPathIsRemuxed, Remuxed, IndexedMuxer
      <3>2. hlMap' = hlMap
        BY <2>4, <3>1 DEF Alive
      <3>3. CASE m # hlMap
        BY <2>2, <3>1, <3>2, <3>3, MuxerFields
      <3>4. CASE m = hlMap
        <4>1. ~MuxerGone(m) /\ ~MuxerStops(m)
          BY <3>1, <3>4, MuxerFields DEF MuxerGone, MuxerStops, Alive
        <4>2. s \in {"converting", "failed"}
          <5>1. CASE MuxerStarts(m)
            BY <2>2, <2>3, <3>1, <3>4, <5>1 DEF MuxerStarts
          <5>2. CASE InstanceError(m)
            BY <2>1, <2>2, <3>1, <3>4, <5>2 DEF InstanceError
          <5>3. CASE InstanceRecreated(m)
            BY <2>1, <2>2, <5>3 DEF InstanceRecreated
          <5>4. QED BY <1>2, <4>1, <5>1, <5>2, <5>3
        <4>3. QED BY <2>2, <3>1, <3>2, <3>4, <4>2 DEF Alive
      <3>5. QED BY <3>3, <3>4
    <2>10. QED BY <2>5, <2>6, <2>8, <2>9
  <1>3. QED BY <1>1, <1>2

\* The invariant holds at the start and through every step.
THEOREM HlsInvariant == HlsSpec => []HlsInv
  <1>1. ASSUME HlsInit PROVE HlsInv
    <2>1. NoMuxer \in [st : Alive \cup {"unborn", "ending", "gone"},
                       auto : BOOLEAN, cancelled : BOOLEAN, idle : BOOLEAN]
      BY DEF NoMuxer
    <2>2. 0 \in 0 .. MaxMuxers
      BY HlsBounds
    <2>3. HlsTypeOK
      BY <1>1, <2>1, <2>2 DEF HlsInit, HlsTypeOK
    <2>4. \A m \in Muxers : hlMux[m].st = "unborn"
      BY <1>1 DEF HlsInit, NoMuxer
    <2>5. QED
      BY <1>1, <2>3, <2>4 DEF HlsInit, HlsInv, IndexedMuxer, NotReadyForgotten,
         NewServerIdle, MuxersMatchPath,
         RunningMuxerIsIndexed, ReadyPathIsRemuxed, Remuxed, Alive
  <1>2. HlsInv /\ [HlsNext]_hlVars => HlsInv'
    <2> SUFFICES ASSUME HlsInv, [HlsNext]_hlVars PROVE HlsInv'
      OBVIOUS
    <2>1. CASE HlsPathReady \/ HlsPathNotReady \/ HlsPathKilled \/ HlsRequest \/ HlsClose
      BY <2>1, ServerLoopKeeps
    <2>2. CASE HlsCreate \/ HlsAnnounced \/ HlsForgotten
      BY <2>2, ServerLifeKeeps
    <2>3. CASE \E m \in Muxers : \/ MuxerStarts(m) \/ InstanceError(m) \/ InstanceRecreated(m)
                                 \/ NoRequests(m) \/ MuxerStops(m) \/ MuxerGone(m)
      BY <2>3, MuxerKeeps
    <2>4. CASE UNCHANGED hlVars
      BY <2>4 DEF hlVars, HlsInv, HlsTypeOK, IndexedMuxer, NotReadyForgotten,
         NewServerIdle, MuxersMatchPath,
         RunningMuxerIsIndexed, ReadyPathIsRemuxed, Remuxed
    <2>5. QED BY <2>1, <2>2, <2>3, <2>4 DEF HlsNext
  <1>3. QED BY <1>1, <1>2, PTL DEF HlsSpec

\* The index and the muxers keep their types, and the muxer in the index is
\* one that was created.
THEOREM HlsTypeCorrect == HlsSpec => [](HlsTypeOK /\ IndexedMuxer)
  <1>1. HlsInv => HlsTypeOK /\ IndexedMuxer
    BY DEF HlsInv
  <1>2. QED BY <1>1, HlsInvariant, PTL

\* For any number of muxers and of servers created one after the other: the muxer
\* that goes on is the one the server finds, and with hlsAlwaysRemux a path that
\* becomes ready while the path manager knows the server is being converted,
\* through every order of readiness, failures and late ends, and a path that was
\* ready before has none (server.go and muxer.go of servers/hls, path_manager.go).
\* It says nothing of a path whose codecs HLS does not carry, nor after the path
\* manager ended a path unheard.
THEOREM MuxersFollowPath == HlsSpec => []MuxersMatchPath
  <1>1. HlsInv => MuxersMatchPath
    BY DEF HlsInv
  <1>2. QED BY <1>1, HlsInvariant, PTL

-----------------------------------------------------------------------------
(* RTMP and SRT connections.                                                 *)

\* Where a connection may stand while it holds something: a place in the path,
\* its network connection, its hook, an entry in the index of a server that is
\* up, or a reader of the stream that somebody will remove.
ConnHoldings ==
    \A c \in MConns :
        /\ c \in mcUsers => mcSt[c] \in {"accepting", "tracks", "active", "leaving"}
        /\ c \in mcNet \cup mcHooked => mcSt[c] \notin {"idle", "gone"}
        /\ mcServer = "up" /\ c \in mcIndex => mcSt[c] \notin {"idle", "gone"}
        /\ c \in mcReaders \ mcLeaked => mcSt[c] = "active"
        /\ mcServer = "down" => mcSt[c] \in {"idle", "gone"}

\* The inductive strengthening of ConnLeavesNothing.
McInv == McTypeOK /\ ConnHoldings

\* The loops of both servers and the path.
LEMMA ConnServersKeep ==
  ASSUME McInv, 
         ServersClose \/ ServersClosed \/ PathStops
  PROVE  McInv'
  <1> USE DEF McInv
  <1>1. CASE ServersClose
    <2> USE <1>1 DEF ServersClose
    <2>1. McTypeOK'
      BY DEF McTypeOK, MConns
    <2>2. ConnHoldings'
      BY DEF McTypeOK, ConnHoldings
    <2>3. QED BY <2>1, <2>2
  <1>2. CASE ServersClosed
    <2> USE <1>2 DEF ServersClosed
    <2>1. McTypeOK'
      BY DEF McTypeOK, MConns
    <2>2. ConnHoldings'
      BY DEF McTypeOK, ConnHoldings
    <2>3. QED BY <2>1, <2>2
  <1>3. CASE PathStops
    <2> USE <1>3 DEF PathStops
    <2>1. McTypeOK'
      BY DEF McTypeOK, MConns
    <2>2. ConnHoldings'
      BY DEF McTypeOK, ConnHoldings
    <2>3. QED BY <2>1, <2>2
  <1>4. QED BY <1>1, <1>2, <1>3

\* A connection is opened, kicked, and joins the path.
LEMMA ConnOpensKeep ==
  ASSUME McInv, NEW c \in MConns,
         RtmpNewConn(c) \/ SrtNewConn(c) \/ KickConn(c) \/ RtmpHandshake(c) \/
           RtmpAddReader(c) \/ RtmpAddPublisher(c) \/ SrtStreamID(c) \/
           SrtPublish(c) \/ SrtRead(c)
  PROVE  McInv'
  <1> USE DEF McInv
  <1>1. CASE RtmpNewConn(c)
    <2> USE <1>1 DEF RtmpNewConn, Goes
    <2>1. McTypeOK'
      BY DEF McTypeOK, MConns
    <2>2. ConnHoldings'
      BY DEF McTypeOK, ConnHoldings
    <2>3. QED BY <2>1, <2>2
  <1>2. CASE SrtNewConn(c)
    <2> USE <1>2 DEF SrtNewConn, Goes
    <2>1. McTypeOK'
      BY DEF McTypeOK, MConns
    <2>2. ConnHoldings'
      BY DEF McTypeOK, ConnHoldings
    <2>3. QED BY <2>1, <2>2
  <1>3. CASE KickConn(c)
    <2> USE <1>3 DEF KickConn
    <2>1. McTypeOK'
      BY DEF McTypeOK, MConns
    <2>2. ConnHoldings'
      BY DEF McTypeOK, ConnHoldings
    <2>3. QED BY <2>1, <2>2
  <1>4. CASE RtmpHandshake(c)
    <2> USE <1>4 DEF RtmpHandshake, Goes
    <2>1. McTypeOK'
      BY DEF McTypeOK, MConns
    <2>2. ConnHoldings'
      BY DEF McTypeOK, ConnHoldings
    <2>3. QED BY <2>1, <2>2
  <1>5. CASE RtmpAddReader(c)
    <2> USE <1>5 DEF RtmpAddReader, Goes
    <2>1. McTypeOK'
      BY DEF McTypeOK, MConns
    <2>2. ConnHoldings'
      BY DEF McTypeOK, ConnHoldings
    <2>3. QED BY <2>1, <2>2
  <1>6. CASE RtmpAddPublisher(c)
    <2> USE <1>6 DEF RtmpAddPublisher, Goes
    <2>1. McTypeOK'
      BY DEF McTypeOK, MConns
    <2>2. ConnHoldings'
      BY DEF McTypeOK, ConnHoldings
    <2>3. QED BY <2>1, <2>2
  <1>7. CASE SrtStreamID(c)
    <2> USE <1>7 DEF SrtStreamID, Goes
    <2>1. McTypeOK'
      BY DEF McTypeOK, MConns
    <2>2. ConnHoldings'
      BY DEF McTypeOK, ConnHoldings
    <2>3. QED BY <2>1, <2>2
  <1>8. CASE SrtPublish(c)
    <2> USE <1>8 DEF SrtPublish, Goes
    <2>1. McTypeOK'
      BY DEF McTypeOK, MConns
    <2>2. ConnHoldings'
      BY DEF McTypeOK, ConnHoldings
    <2>3. QED BY <2>1, <2>2
  <1>9. CASE SrtRead(c)
    <2> USE <1>9 DEF SrtRead, Goes
    <2>1. McTypeOK'
      BY DEF McTypeOK, MConns
    <2>2. ConnHoldings'
      BY DEF McTypeOK, ConnHoldings
    <2>3. QED BY <2>1, <2>2
  <1>10. QED BY <1>1, <1>2, <1>3, <1>4, <1>5, <1>6, <1>7, <1>8, <1>9

\* A connection serves its stream and ends.
LEMMA ConnServesKeep ==
  ASSUME McInv, NEW c \in MConns,
         RtmpReadTracks(c) \/ StartPublishing(c) \/ SrtAccept(c) \/
           SrtReadTracks(c) \/ ConnStops(c) \/ LeavePath(c) \/ ConnGone(c)
  PROVE  McInv'
  <1> USE DEF McInv
  <1>1. CASE RtmpReadTracks(c)
    <2> USE <1>1 DEF RtmpReadTracks, Goes, Registered
    <2>1. McTypeOK'
      BY DEF McTypeOK, MConns
    <2>2. ConnHoldings'
      BY DEF McTypeOK, ConnHoldings
    <2>3. QED BY <2>1, <2>2
  <1>2. CASE StartPublishing(c)
    <2> USE <1>2 DEF StartPublishing, Goes
    <2>1. McTypeOK'
      BY DEF McTypeOK, MConns
    <2>2. ConnHoldings'
      BY DEF McTypeOK, ConnHoldings
    <2>3. QED BY <2>1, <2>2
  <1>3. CASE SrtAccept(c)
    <2> USE <1>3 DEF SrtAccept, Goes
    <2>1. McTypeOK'
      BY DEF McTypeOK, MConns
    <2>2. ConnHoldings'
      BY DEF McTypeOK, ConnHoldings
    <2>3. QED BY <2>1, <2>2
  <1>4. CASE SrtReadTracks(c)
    <2> USE <1>4 DEF SrtReadTracks, Goes, Registered
    <2>1. McTypeOK'
      BY DEF McTypeOK, MConns
    <2>2. ConnHoldings'
      BY DEF McTypeOK, ConnHoldings
    <2>3. QED BY <2>1, <2>2
  <1>5. CASE ConnStops(c)
    <2> USE <1>5 DEF ConnStops, Goes
    <2>1. McTypeOK'
      BY DEF McTypeOK, MConns
    <2>2. ConnHoldings'
      BY DEF McTypeOK, ConnHoldings
    <2>3. QED BY <2>1, <2>2
  <1>6. CASE LeavePath(c)
    <2> USE <1>6 DEF LeavePath, Goes, Publisher
    <2>1. McTypeOK'
      BY DEF McTypeOK, MConns
    <2>2. ConnHoldings'
      BY DEF McTypeOK, ConnHoldings
    <2>3. QED BY <2>1, <2>2
  <1>7. CASE ConnGone(c)
    <2> USE <1>7 DEF ConnGone, Goes
    <2>1. McTypeOK'
      BY DEF McTypeOK, MConns
    <2>2. ConnHoldings'
      BY DEF McTypeOK, ConnHoldings
    <2>3. QED BY <2>1, <2>2
  <1>8. QED BY <1>1, <1>2, <1>3, <1>4, <1>5, <1>6, <1>7

LEMMA McInvariant == McSpec => []McInv
  <1>1. McInit => McInv
    BY DEF McInit, McInv, McTypeOK, ConnHoldings
  <1>2. McInv /\ [McNext]_mcVars => McInv'
    <2> SUFFICES ASSUME McInv, [McNext]_mcVars PROVE McInv'
      OBVIOUS
    <2>1. CASE ServersClose \/ ServersClosed \/ PathStops
      BY <2>1, ConnServersKeep
    <2>2. CASE \E c \in MConns : \/ RtmpNewConn(c) \/ SrtNewConn(c) \/ KickConn(c)
                                 \/ RtmpHandshake(c) \/ RtmpAddReader(c) \/ RtmpAddPublisher(c)
                                 \/ SrtStreamID(c) \/ SrtPublish(c) \/ SrtRead(c)
      BY <2>2, ConnOpensKeep
    <2>3. CASE \E c \in MConns : \/ RtmpReadTracks(c) \/ StartPublishing(c) \/ SrtAccept(c)
                                 \/ SrtReadTracks(c) \/ ConnStops(c) \/ LeavePath(c) \/ ConnGone(c)
      BY <2>3, ConnServesKeep
    <2>4. CASE UNCHANGED mcVars
      BY <2>4 DEF mcVars, McInv, McTypeOK, ConnHoldings
    <2>5. QED BY <2>1, <2>2, <2>3, <2>4 DEF McNext
  <1>3. QED BY <1>1, <1>2, PTL DEF McSpec

\* An RTMP or SRT connection that is over left nothing behind, for any number of
\* them (conn.go of servers/rtmp and servers/srt).
THEOREM ConnsLeaveNothing == McSpec => []ConnLeavesNothing
  <1>1. McInv => ConnLeavesNothing
    BY DEF McInv, McTypeOK, ConnHoldings, ConnLeavesNothing
  <1>2. QED BY <1>1, McInvariant, PTL

-----------------------------------------------------------------------------
(* RTSP sessions.                                                            *)

\* A session that was neither kicked during a callback nor refused after one:
\* the callback that runs fits the library's state, and so does what the
\* session holds, which is what onClose relies on.
SessionHoldings ==
    \A s \in RtspSessions \ rsOdd :
        /\ rsCall[s] = "announce" => rsState[s] = "initial"
        /\ rsCall[s] = "setup" => rsState[s] \in {"initial", "prePlay"}
        /\ rsCall[s] = "play" => rsState[s] = "prePlay"
        /\ rsState[s] \notin {"none", "closed"} => s \in rsIndex
        /\ rsState[s] \in {"prePlay", "play", "preRecord", "record"} => s \in rsPath
        /\ s \in rsUsers => \/ rsState[s] \in {"prePlay", "play", "preRecord", "record"}
                            \/ rsState[s] = "initial" /\ rsCall[s] \in {"announce", "setup"}
        /\ s \in rsHook => rsState[s] = "play" \/ rsCall[s] = "play"

\* The inductive strengthening of SessionLeavesNothing.
RtspInv == RtspTypeOK /\ SessionHoldings

\* The callbacks of a session.
LEMMA SessionCallsKeep ==
  ASSUME RtspInv, NEW s \in RtspSessions,
         OpenSession(s) \/ Announce(s) \/ AnnounceReturns(s) \/ SetupCall(s) \/
           SetupReturns(s) \/ Play(s) \/ PlayReturns(s) \/ Record(s) \/ Pause(s)
  PROVE  RtspInv'
  <1> USE DEF RtspInv, locks
  <1>1. CASE OpenSession(s)
    <2> USE <1>1 DEF OpenSession
    <2>1. RtspTypeOK'
      BY DEF RtspTypeOK
    <2>2. SessionHoldings'
      BY DEF RtspTypeOK, SessionHoldings
    <2>3. QED BY <2>1, <2>2
  <1>2. CASE Announce(s)
    <2> USE <1>2 DEF Announce, Free, Enters
    <2>1. RtspTypeOK'
      BY DEF RtspTypeOK
    <2>2. SessionHoldings'
      BY DEF RtspTypeOK, SessionHoldings
    <2>3. QED BY <2>1, <2>2
  <1>3. CASE AnnounceReturns(s)
    <2> USE <1>3 DEF AnnounceReturns, Becomes
    <2>1. RtspTypeOK'
      BY DEF RtspTypeOK
    <2>2. SessionHoldings'
      BY DEF RtspTypeOK, SessionHoldings
    <2>3. QED BY <2>1, <2>2
  <1>4. CASE SetupCall(s)
    <2> USE <1>4 DEF SetupCall, Free, Enters
    <2>1. RtspTypeOK'
      BY DEF RtspTypeOK
    <2>2. SessionHoldings'
      BY DEF RtspTypeOK, SessionHoldings
    <2>3. QED BY <2>1, <2>2
  <1>5. CASE SetupReturns(s)
    <2> USE <1>5 DEF SetupReturns, Becomes
    <2>1. RtspTypeOK'
      BY DEF RtspTypeOK
    <2>2. SessionHoldings'
      BY DEF RtspTypeOK, SessionHoldings
    <2>3. QED BY <2>1, <2>2
  <1>6. CASE Play(s)
    <2> USE <1>6 DEF Play, Free, Enters
    <2>1. RtspTypeOK'
      BY DEF RtspTypeOK
    <2>2. SessionHoldings'
      BY DEF RtspTypeOK, SessionHoldings
    <2>3. QED BY <2>1, <2>2
  <1>7. CASE PlayReturns(s)
    <2> USE <1>7 DEF PlayReturns, Becomes
    <2>1. RtspTypeOK'
      BY DEF RtspTypeOK
    <2>2. SessionHoldings'
      BY DEF RtspTypeOK, SessionHoldings
    <2>3. QED BY <2>1, <2>2
  <1>8. CASE Record(s)
    <2> USE <1>8 DEF Record, Free, Becomes
    <2>1. RtspTypeOK'
      BY DEF RtspTypeOK
    <2>2. SessionHoldings'
      BY DEF RtspTypeOK, SessionHoldings
    <2>3. QED BY <2>1, <2>2
  <1>9. CASE Pause(s)
    <2> USE <1>9 DEF Pause, Free, Becomes
    <2>1. RtspTypeOK'
      BY DEF RtspTypeOK
    <2>2. SessionHoldings'
      BY DEF RtspTypeOK, SessionHoldings
    <2>3. QED BY <2>1, <2>2
  <1>10. QED BY <1>1, <1>2, <1>3, <1>4, <1>5, <1>6, <1>7, <1>8, <1>9

\* A session is kicked or ends.
LEMMA SessionClosesKeep ==
  ASSUME RtspInv, NEW s \in RtspSessions,
         KickSession(s) \/ SessionEnds(s)
  PROVE  RtspInv'
  <1> USE DEF RtspInv, locks
  <1>1. CASE KickSession(s)
    <2> USE <1>1 DEF KickSession, OnClose
    <2>1. RtspTypeOK'
      BY DEF RtspTypeOK
    <2>2. SessionHoldings'
      BY DEF RtspTypeOK, SessionHoldings
    <2>3. QED BY <2>1, <2>2
  <1>2. CASE SessionEnds(s)
    <2> USE <1>2 DEF SessionEnds, OnClose
    <2>1. RtspTypeOK'
      BY DEF RtspTypeOK
    <2>2. SessionHoldings'
      BY DEF RtspTypeOK, SessionHoldings
    <2>3. QED BY <2>1, <2>2
  <1>3. QED BY <1>1, <1>2

LEMMA RtspInvariant == RtspSpec => []RtspInv
  <1>1. RtspInit => RtspInv
    BY DEF RtspInit, RtspInv, RtspTypeOK, SessionHoldings
  <1>2. RtspInv /\ [RtspNext]_rsVars => RtspInv'
    <2> SUFFICES ASSUME RtspInv, [RtspNext]_rsVars PROVE RtspInv'
      OBVIOUS
    <2>1. CASE \E s \in RtspSessions :
                 \/ OpenSession(s) \/ Announce(s) \/ AnnounceReturns(s) \/ SetupCall(s)
                 \/ SetupReturns(s) \/ Play(s) \/ PlayReturns(s) \/ Record(s) \/ Pause(s)
      BY <2>1, SessionCallsKeep
    <2>2. CASE \E s \in RtspSessions : KickSession(s) \/ SessionEnds(s)
      BY <2>2, SessionClosesKeep
    <2>3. CASE WantLock \/ GetLock \/ ListConns \/ ListOneConn \/ ListEnds
      BY <2>3 DEF WantLock, GetLock, ListConns, ListOneConn, ListEnds, sessions, RtspInv, RtspTypeOK,
         SessionHoldings
    <2>4. CASE UNCHANGED rsVars
      BY <2>4 DEF rsVars, RtspInv, RtspTypeOK, SessionHoldings
    <2>5. QED BY <2>1, <2>2, <2>3, <2>4 DEF RtspNext
  <1>3. QED BY <1>1, <1>2, PTL DEF RtspSpec

\* An RTSP session that is over left nothing behind, for any number of them,
\* unless it is one of the exceptions the property names (server.go and
\* session.go of servers/rtsp).
THEOREM SessionsLeaveNothing == RtspSpec => []SessionLeavesNothing
  <1>1. RtspInv => SessionLeavesNothing
    BY DEF RtspInv, RtspTypeOK, SessionHoldings, SessionLeavesNothing
  <1>2. QED BY <1>1, RtspInvariant, PTL

-----------------------------------------------------------------------------
(* WebRTC sessions.                                                          *)

\* Where a session may stand while it holds something, and while the handler of
\* its POST waits.
WtHoldings ==
    \A w \in WtSessions :
        /\ wtPost[w] = "idle" => wtSt[w] = "none"
        /\ wtPost[w] = "waiting" => wtSt[w] \in {"asking", "tracks", "start", "offer"}
        /\ wtSt[w] = "tracks" => wtRole[w] = "read"
        /\ w \in wtUsers => wtSt[w] \in {"tracks", "start", "offer", "connecting", "serve",
                                         "gather", "active", "leaving"}
        /\ w \in wtPc => wtSt[w] \in {"offer", "connecting", "serve", "gather", "active",
                                      "leaving"}
        /\ w \in wtHooked => wtSt[w] = "active"
        /\ wtServer = "up" /\ w \in wtIndex => wtSt[w] \notin {"none", "gone"}
        /\ w \in wtReaders \ wtLeaked =>
             wtRole[w] = "read" /\ wtSt[w] \in {"start", "offer", "connecting", "serve", "active"}
        /\ wtServer = "down" => wtSt[w] \in {"none", "gone"}

\* The inductive strengthening of SessionAnswersAndLeaves.
WtInv == WtTypeOK /\ WtHoldings

\* The server's loop and the path.
LEMMA WtServerKeep ==
  ASSUME WtInv, 
         WtClose \/ WtClosed \/ PathGetsStream \/ PathEnds
  PROVE  WtInv'
  <1> USE DEF WtInv, pathState
  <1>1. CASE WtClose
    <2> USE <1>1 DEF WtClose, At
    <2>1. WtTypeOK'
      BY DEF WtTypeOK
    <2>2. WtHoldings'
      BY DEF WtTypeOK, WtHoldings
    <2>3. QED BY <2>1, <2>2
  <1>2. CASE WtClosed
    <2> USE <1>2 DEF WtClosed
    <2>1. WtTypeOK'
      BY DEF WtTypeOK
    <2>2. WtHoldings'
      BY DEF WtTypeOK, WtHoldings
    <2>3. QED BY <2>1, <2>2
  <1>3. CASE PathGetsStream
    <2> USE <1>3 DEF PathGetsStream
    <2>1. WtTypeOK'
      BY DEF WtTypeOK
    <2>2. WtHoldings'
      BY DEF WtTypeOK, WtHoldings
    <2>3. QED BY <2>1, <2>2
  <1>4. CASE PathEnds
    <2> USE <1>4 DEF PathEnds
    <2>1. WtTypeOK'
      BY DEF WtTypeOK
    <2>2. WtHoldings'
      BY DEF WtTypeOK, WtHoldings
    <2>3. QED BY <2>1, <2>2
  <1>5. QED BY <1>1, <1>2, <1>3, <1>4

\* The handlers of HTTP requests.
LEMMA WtHandlersKeep ==
  ASSUME WtInv, NEW w \in WtSessions,
         PostNewSession(w) \/ PostMeetsSession(w) \/ PostTerminated(w) \/
           PatchFinds(w) \/ PatchServed(w) \/ PatchTerminated(w) \/
           CandidatesEnd(w) \/ DeleteSession(w)
  PROVE  WtInv'
  <1> USE DEF WtInv, pathState
  <1>1. CASE PostNewSession(w)
    <2> USE <1>1 DEF PostNewSession, At, To, Answer
    <2>1. WtTypeOK'
      BY DEF WtTypeOK
    <2>2. WtHoldings'
      BY DEF WtTypeOK, WtHoldings
    <2>3. QED BY <2>1, <2>2
  <1>2. CASE PostMeetsSession(w)
    <2> USE <1>2 DEF PostMeetsSession, At, To, Answer
    <2>1. WtTypeOK'
      BY DEF WtTypeOK
    <2>2. WtHoldings'
      BY DEF WtTypeOK, WtHoldings
    <2>3. QED BY <2>1, <2>2
  <1>3. CASE PostTerminated(w)
    <2> USE <1>3 DEF PostTerminated, At, To, Answer
    <2>1. WtTypeOK'
      BY DEF WtTypeOK
    <2>2. WtHoldings'
      BY DEF WtTypeOK, WtHoldings
    <2>3. QED BY <2>1, <2>2
  <1>4. CASE PatchFinds(w)
    <2> USE <1>4 DEF PatchFinds
    <2>1. WtTypeOK'
      BY DEF WtTypeOK
    <2>2. WtHoldings'
      BY DEF WtTypeOK, WtHoldings
    <2>3. QED BY <2>1, <2>2
  <1>5. CASE PatchServed(w)
    <2> USE <1>5 DEF PatchServed
    <2>1. WtTypeOK'
      BY DEF WtTypeOK
    <2>2. WtHoldings'
      BY DEF WtTypeOK, WtHoldings
    <2>3. QED BY <2>1, <2>2
  <1>6. CASE PatchTerminated(w)
    <2> USE <1>6 DEF PatchTerminated
    <2>1. WtTypeOK'
      BY DEF WtTypeOK
    <2>2. WtHoldings'
      BY DEF WtTypeOK, WtHoldings
    <2>3. QED BY <2>1, <2>2
  <1>7. CASE CandidatesEnd(w)
    <2> USE <1>7 DEF CandidatesEnd
    <2>1. WtTypeOK'
      BY DEF WtTypeOK
    <2>2. WtHoldings'
      BY DEF WtTypeOK, WtHoldings
    <2>3. QED BY <2>1, <2>2
  <1>8. CASE DeleteSession(w)
    <2> USE <1>8 DEF DeleteSession
    <2>1. WtTypeOK'
      BY DEF WtTypeOK
    <2>2. WtHoldings'
      BY DEF WtTypeOK, WtHoldings
    <2>3. QED BY <2>1, <2>2
  <1>9. QED BY <1>1, <1>2, <1>3, <1>4, <1>5, <1>6, <1>7, <1>8

\* The goroutine of a session.
LEMMA WtSessionKeep ==
  ASSUME WtInv, NEW w \in WtSessions,
         FreshTerminated(w) \/ JoinPath(w) \/ FromStream(w) \/ StartPeer(w) \/
           AnswerOffer(w) \/ WaitUntilReady(w) \/ StartReading(w) \/
           PublishTracks(w) \/ StopServing(w) \/ WtLeavePath(w) \/ SessionGone(w)
  PROVE  WtInv'
  <1> USE DEF WtInv, pathState
  <1>1. CASE FreshTerminated(w)
    <2> USE <1>1 DEF FreshTerminated, At, To, Answer
    <2>1. WtTypeOK'
      BY DEF WtTypeOK
    <2>2. WtHoldings'
      BY DEF WtTypeOK, WtHoldings
    <2>3. QED BY <2>1, <2>2
  <1>2. CASE JoinPath(w)
    <2> USE <1>2 DEF JoinPath, At, To, Answer
    <2>1. WtTypeOK'
      BY DEF WtTypeOK
    <2>2. WtHoldings'
      BY DEF WtTypeOK, WtHoldings
    <2>3. QED BY <2>1, <2>2
  <1>3. CASE FromStream(w)
    <2> USE <1>3 DEF FromStream, At, To, Answer, Register
    <2>1. WtTypeOK'
      BY DEF WtTypeOK
    <2>2. WtHoldings'
      BY DEF WtTypeOK, WtHoldings
    <2>3. QED BY <2>1, <2>2
  <1>4. CASE StartPeer(w)
    <2> USE <1>4 DEF StartPeer, At, To, Answer
    <2>1. WtTypeOK'
      BY DEF WtTypeOK
    <2>2. WtHoldings'
      BY DEF WtTypeOK, WtHoldings
    <2>3. QED BY <2>1, <2>2
  <1>5. CASE AnswerOffer(w)
    <2> USE <1>5 DEF AnswerOffer, At, To, Answer
    <2>1. WtTypeOK'
      BY DEF WtTypeOK
    <2>2. WtHoldings'
      BY DEF WtTypeOK, WtHoldings
    <2>3. QED BY <2>1, <2>2
  <1>6. CASE WaitUntilReady(w)
    <2> USE <1>6 DEF WaitUntilReady, At, To, Answer
    <2>1. WtTypeOK'
      BY DEF WtTypeOK
    <2>2. WtHoldings'
      BY DEF WtTypeOK, WtHoldings
    <2>3. QED BY <2>1, <2>2
  <1>7. CASE StartReading(w)
    <2> USE <1>7 DEF StartReading, At, To, Answer
    <2>1. WtTypeOK'
      BY DEF WtTypeOK
    <2>2. WtHoldings'
      BY DEF WtTypeOK, WtHoldings
    <2>3. QED BY <2>1, <2>2
  <1>8. CASE PublishTracks(w)
    <2> USE <1>8 DEF PublishTracks, At, To, Answer
    <2>1. WtTypeOK'
      BY DEF WtTypeOK
    <2>2. WtHoldings'
      BY DEF WtTypeOK, WtHoldings
    <2>3. QED BY <2>1, <2>2
  <1>9. CASE StopServing(w)
    <2> USE <1>9 DEF StopServing, At, To, Answer
    <2>1. WtTypeOK'
      BY DEF WtTypeOK
    <2>2. WtHoldings'
      BY DEF WtTypeOK, WtHoldings
    <2>3. QED BY <2>1, <2>2
  <1>10. CASE WtLeavePath(w)
    <2> USE <1>10 DEF WtLeavePath, At, To, Answer
    <2>1. WtTypeOK'
      BY DEF WtTypeOK
    <2>2. WtHoldings'
      BY DEF WtTypeOK, WtHoldings
    <2>3. QED BY <2>1, <2>2
  <1>11. CASE SessionGone(w)
    <2> USE <1>11 DEF SessionGone, At, To, Answer
    <2>1. WtTypeOK'
      BY DEF WtTypeOK
    <2>2. WtHoldings'
      BY DEF WtTypeOK, WtHoldings
    <2>3. QED BY <2>1, <2>2
  <1>12. QED BY <1>1, <1>2, <1>3, <1>4, <1>5, <1>6, <1>7, <1>8, <1>9, <1>10, <1>11

LEMMA WtInvariant == WtSpec => []WtInv
  <1>1. WtInit => WtInv
    BY DEF WtInit, WtInv, WtTypeOK, WtHoldings
  <1>2. WtInv /\ [WtNext]_wtVars => WtInv'
    <2> SUFFICES ASSUME WtInv, [WtNext]_wtVars PROVE WtInv'
      OBVIOUS
    <2>1. CASE WtClose \/ WtClosed \/ PathGetsStream \/ PathEnds
      BY <2>1, WtServerKeep
    <2>2. CASE \E w \in WtSessions :
                 \/ PostNewSession(w) \/ PostMeetsSession(w) \/ PostTerminated(w) \/ PatchFinds(w)
                 \/ PatchServed(w) \/ PatchTerminated(w) \/ CandidatesEnd(w) \/ DeleteSession(w)
      BY <2>2, WtHandlersKeep
    <2>3. CASE \E w \in WtSessions :
                 \/ FreshTerminated(w) \/ JoinPath(w) \/ FromStream(w) \/ StartPeer(w)
                 \/ AnswerOffer(w) \/ WaitUntilReady(w) \/ StartReading(w) \/ PublishTracks(w)
                 \/ StopServing(w) \/ WtLeavePath(w) \/ SessionGone(w)
      BY <2>3, WtSessionKeep
    <2>4. CASE UNCHANGED wtVars
      BY <2>4 DEF wtVars, WtInv, WtTypeOK, WtHoldings
    <2>5. QED BY <2>1, <2>2, <2>3, <2>4 DEF WtNext
  <1>3. QED BY <1>1, <1>2, PTL DEF WtSpec

\* A WebRTC session that is over answered its POST and left nothing behind, for
\* any number of them (server.go and session.go of servers/webrtc).
THEOREM WtSessionsLeaveNothing == WtSpec => []SessionAnswersAndLeaves
  <1>1. WtInv => SessionAnswersAndLeaves
    BY DEF WtInv, WtTypeOK, WtHoldings, SessionAnswersAndLeaves
  <1>2. QED BY <1>1, WtInvariant, PTL

\* Whatever protocol its clients speak, a server that runs beside the others
\* keeps nothing of one that is gone.
THEOREM ServersKeepNothing == ClientsSpec => []ClientsLeaveNothing
  BY ConnsLeaveNothing, SessionsLeaveNothing, WtSessionsLeaveNothing, PTL
     DEF ClientsSpec, ClientsLeaveNothing

-----------------------------------------------------------------------------
(* How an RTMP connection opens.                                             *)

Modes == [publish: BOOLEAN, enc: BOOLEAN, path: UrlPaths]

\* The steps of a client.
ClientProgram(mode) ==
    (IF mode.enc THEN doClientEncrypted ELSE doClientPlain) \o
    (IF mode.publish THEN clientPublish(mode.path) ELSE clientPlay(mode.path))

\* Version and digests of a handshake.
Version(enc) == IF enc THEN 6 ELSE 3
C1Digest(enc) == IF enc THEN DigestC1 ELSE 0
S1Digest(enc) == IF enc THEN DigestS1 ELSE 0

Said(kind, n) == Msg(kind, n, <<>>)
ConnectOf(mode) == Msg("connect", 1, splitPath(mode.path)[1])
PlayOf(mode) == Msg("play", 3, splitPath(mode.path)[2])
PublishOf(mode) == Msg("publish", 5, splitPath(mode.path)[2])

\* Everything the two sides write when nothing fails.
ClientSays(mode) ==
    <<Said("c0", Version(mode.enc)), Said("c1", C1Digest(mode.enc)),
      Said("c2", S1Digest(mode.enc)),
      Said("setWindowAckSize", 0), Said("setPeerBandwidth", 0), Said("setChunkSize", 0),
      ConnectOf(mode)>> \o
    (IF mode.publish
     THEN <<Said("releaseStream", 2), Said("FCPublish", 3), Said("createStream", 4),
            PublishOf(mode)>>
     ELSE <<Said("createStream", 2), Said("setBufferLength", 0), PlayOf(mode)>>)

ServerSays(mode) ==
    <<Said("s0", Version(mode.enc)), Said("s1", S1Digest(mode.enc)),
      Said("s2", C1Digest(mode.enc)),
      Said("setWindowAckSize", 0), Said("setPeerBandwidth", 0), Said("setChunkSize", 0),
      Said("_result", 1)>> \o
    (IF mode.publish
     THEN <<Said("_result", 4), Said("onStatus", 5)>>
     ELSE <<Said("_result", 2), Said("streamIsRecorded", 0), Said("streamBegin", 0),
            Said("onStatus", 3), Said("onStatus", 3), Said("onStatus", 3), Said("onStatus", 3)>>)

\* A side that has written and read n messages in all: how many of them it has
\* written, and how many steps of its program it has done.
ClientEnd(mode) == IF mode.publish THEN 20 ELSE 21
ClientWrote(mode, n) ==
    IF n <= 2 THEN n ELSE IF n <= 5 THEN 2 ELSE IF n <= 10 THEN n - 3 ELSE IF n <= 14 THEN 7
    ELSE IF mode.publish
    THEN IF n <= 17 THEN n - 7 ELSE IF n = 18 THEN 10 ELSE 11
    ELSE IF n <= 16 THEN 8 ELSE IF n = 17 THEN 9 ELSE 10
ClientDid(mode, n) ==
    IF n <= 10 THEN n ELSE IF n <= 13 THEN 10 ELSE IF mode.publish THEN n - 3
    ELSE IF n <= 18 THEN n - 3 ELSE IF n <= 20 THEN 15 ELSE 16

ServerEnd(mode) == IF mode.publish THEN 20 ELSE 24
ServerWrote(mode, n) ==
    IF n <= 2 THEN 0 ELSE IF n <= 5 THEN n - 2 ELSE IF n <= 10 THEN 3 ELSE IF n <= 14 THEN n - 7
    ELSE IF mode.publish
    THEN IF n <= 17 THEN 7 ELSE IF n <= 19 THEN 8 ELSE 9
    ELSE IF n = 15 THEN 7 ELSE IF n <= 18 THEN 8 ELSE n - 10
ServerDid(mode, n) ==
    IF n = 0 THEN 0 ELSE IF n <= 6 THEN n - 1 ELSE IF n <= 9 THEN 5 ELSE IF n <= 14 THEN n - 10
    ELSE IF mode.publish
    THEN IF n <= 16 THEN 4 ELSE IF n \in {17, 19} THEN 0 ELSE 1
    ELSE IF n = 15 THEN 0 ELSE IF n <= 17 THEN 1 ELSE n - 18

\* The program that initializeServer is in then.
ServerProgram(mode, n) ==
    IF n = 0 THEN <<Await("c0", 0)>>
    ELSE IF n <= 9
    THEN (IF mode.enc THEN doServerEncrypted ELSE doServerPlain) \o <<Await("connect", 0)>>
    ELSE IF n <= 14 THEN ServerConnected(ConnectOf(mode))
    ELSE IF mode.publish
    THEN IF n <= 16 THEN ServerConnected(ConnectOf(mode))
         ELSE IF n <= 18 THEN ServerCreateStream(Said("createStream", 4))
         ELSE ServerPublish(PublishOf(mode))
    ELSE IF n <= 17 THEN ServerCreateStream(Said("createStream", 2))
         ELSE ServerPlay(PlayOf(mode))

\* What NewServerConn has heard then.
Told(mode, n) == n >= IF mode.publish THEN 19 ELSE 18
ServedAt(mode, n) ==
    [publish |-> Told(mode, n) /\ mode.publish, path |-> IF Told(mode, n) THEN mode.path ELSE <<>>,
     app |-> IF n >= 10 THEN splitPath(mode.path)[1] ELSE <<>>]

LEMMA ModeTyped ==
    ASSUME NEW mode \in Modes
    PROVE  mode.publish \in BOOLEAN /\ mode.enc \in BOOLEAN /\ mode.path \in UrlPaths
  BY DEF Modes

\* The step i of a program writes the message m, is answered by it, or reads on.
Writes(step, m) == step.op = "write" /\ step.m = m
Answers(step, m) == step.op # "write" /\ m.kind = step.m.kind /\ m.n = step.m.n
Skips(step, m) == step.op = "await" /\ m.kind # step.m.kind

LEMMA ClientRows ==
    ASSUME NEW mode \in Modes
    PROVE  LET p == ClientProgram(mode)
               w == ClientSays(mode)
               r == ServerSays(mode)
           IN  /\ Writes(p[1], w[1]) /\ Writes(p[2], w[2])
               /\ Answers(p[3], r[1]) /\ Answers(p[4], r[2]) /\ Answers(p[5], r[3])
               /\ Writes(p[6], w[3]) /\ Writes(p[7], w[4]) /\ Writes(p[8], w[5])
               /\ Writes(p[9], w[6]) /\ Writes(p[10], w[7])
               /\ Skips(p[11], r[4]) /\ Skips(p[11], r[5]) /\ Skips(p[11], r[6])
               /\ Answers(p[11], r[7])
               /\ mode.publish =>
                    /\ Writes(p[12], w[8]) /\ Writes(p[13], w[9]) /\ Writes(p[14], w[10])
                    /\ Answers(p[15], r[8]) /\ Writes(p[16], w[11]) /\ Answers(p[17], r[9])
               /\ ~mode.publish =>
                    /\ Writes(p[12], w[8]) /\ Answers(p[13], r[8]) /\ Writes(p[14], w[9])
                    /\ Writes(p[15], w[10]) /\ Skips(p[16], r[9]) /\ Skips(p[16], r[10])
                    /\ Answers(p[16], r[11])
  BY ModeTyped DEF ClientProgram, ServerSays, ClientSays, Writes, Answers, Skips,
         doClientEncrypted, doClientPlain, clientPublish, clientPlay, Setup,
         Write, WritePath, ReadOf, Await, Do, Msg, Said, ConnectOf, PlayOf, PublishOf,
         Version, C1Digest, S1Digest, DigestC1, DigestS1

\* The step a client does with its next message, by the rows of the table.
LEMMA ClientTable ==
    ASSUME NEW mode \in Modes, NEW u \in 0..(ClientEnd(mode) - 1)
    PROVE  LET step == ClientProgram(mode)[ClientDid(mode, u) + 1]
               m == ServerSays(mode)[(u - ClientWrote(mode, u)) + 1]
           IN  \/ /\ Writes(step, ClientSays(mode)[ClientWrote(mode, u) + 1])
                  /\ ClientWrote(mode, u + 1) = ClientWrote(mode, u) + 1
                  /\ ClientDid(mode, u + 1) = ClientDid(mode, u) + 1
               \/ /\ Answers(step, m)
                  /\ ClientWrote(mode, u + 1) = ClientWrote(mode, u)
                  /\ ClientDid(mode, u + 1) = ClientDid(mode, u) + 1
               \/ /\ Skips(step, m)
                  /\ ClientWrote(mode, u + 1) = ClientWrote(mode, u)
                  /\ ClientDid(mode, u + 1) = ClientDid(mode, u)
<1> DEFINE p == ClientProgram(mode)
           w == ClientSays(mode)
           r == ServerSays(mode)
<1>1. u \in Nat /\ u <= 20 /\ (mode.publish => u <= 19)
  BY DEF ClientEnd
<1>2. CASE u <= 9
  <2>1. \/ u = 0 \/ u = 1 \/ u = 2 \/ u = 3 \/ u = 4 \/ u = 5 \/ u = 6 \/ u = 7 \/ u = 8 \/ u = 9
    BY <1>1, <1>2
  <2> QED BY <2>1, ClientRows DEF ClientDid, ClientWrote
<1>3. CASE u \in 10..13
  <2>1. u = 10 \/ u = 11 \/ u = 12 \/ u = 13
    BY <1>3
  <2> QED BY <2>1, ClientRows DEF ClientDid, ClientWrote
<1>4. CASE u >= 14 /\ mode.publish
  <2>1. u = 14 \/ u = 15 \/ u = 16 \/ u = 17 \/ u = 18 \/ u = 19
    BY <1>1, <1>4
  <2> QED BY <1>4, <2>1, ClientRows DEF ClientDid, ClientWrote
<1>5. CASE u >= 14 /\ ~mode.publish
  <2>1. u = 14 \/ u = 15 \/ u = 16 \/ u = 17 \/ u = 18 \/ u = 19 \/ u = 20
    BY <1>1, <1>5
  <2> QED BY <1>5, <2>1, ClientRows DEF ClientDid, ClientWrote
<1> QED BY <1>1, <1>2, <1>3, <1>4, <1>5

\* What the table says of the numbers alone.
LEMMA ClientNumbers ==
    ASSUME NEW mode \in Modes, NEW u \in 0..ClientEnd(mode)
    PROVE  /\ ClientEnd(mode) \in Nat
           /\ ClientWrote(mode, u) \in 0..u /\ ClientDid(mode, u) \in 0..u
           /\ ClientWrote(mode, u) <= (IF mode.publish THEN 11 ELSE 10)
           /\ u - ClientWrote(mode, u) <= (IF mode.publish THEN 9 ELSE 11)
           /\ ClientDid(mode, u) <= (IF mode.publish THEN 17 ELSE 16)
           /\ ClientDid(mode, u) = (IF mode.publish THEN 17 ELSE 16) <=> u = ClientEnd(mode)
  BY ModeTyped DEF ClientEnd, ClientWrote, ClientDid

LEMMA ServerNumbers ==
    ASSUME NEW mode \in Modes, NEW v \in 0..ServerEnd(mode)
    PROVE  /\ ServerEnd(mode) \in Nat
           /\ ServerWrote(mode, v) \in 0..v /\ ServerDid(mode, v) \in 0..v
           /\ ServerWrote(mode, v) <= (IF mode.publish THEN 9 ELSE 14)
           /\ v - ServerWrote(mode, v) <= (IF mode.publish THEN 11 ELSE 10)
  BY ModeTyped DEF ServerEnd, ServerWrote, ServerDid

LEMMA Lengths ==
    ASSUME NEW mode \in Modes
    PROVE  /\ Len(ClientProgram(mode)) = IF mode.publish THEN 17 ELSE 16
           /\ Len(ClientSays(mode)) = IF mode.publish THEN 11 ELSE 10
           /\ Len(ServerSays(mode)) = IF mode.publish THEN 9 ELSE 14
  BY ModeTyped DEF ClientProgram, ServerSays, ClientSays,
         doClientEncrypted, doClientPlain, clientPublish, clientPlay, Setup

\* The same of the server: the step that is next, and the program it is in.
LEMMA ServerRows ==
    ASSUME NEW mode \in Modes
    PROVE  LET h == (IF mode.enc THEN doServerEncrypted ELSE doServerPlain) \o <<Await("connect", 0)>>
               c == ServerConnected(ConnectOf(mode))
               r == ClientSays(mode)
               w == ServerSays(mode)
           IN  /\ Len(h) = 6 /\ Len(c) = 5
               /\ Answers(h[1], r[2]) /\ Answers(h[5], r[3]) /\ h[1].op = "read" /\ h[5].op = "read"
               /\ Writes(h[2], w[1]) /\ Writes(h[3], w[2]) /\ Writes(h[4], w[3])
               /\ h[6] = Await("connect", 0) /\ c[5] = Await("command", 0)
               /\ Writes(c[1], w[4]) /\ Writes(c[2], w[5]) /\ Writes(c[3], w[6]) /\ Writes(c[4], w[7])
               /\ mode.publish =>
                    /\ Writes(ServerCreateStream(Said("createStream", 4))[1], w[8])
                    /\ Writes(ServerPublish(PublishOf(mode))[1], w[9])
               /\ ~mode.publish =>
                    /\ Writes(ServerCreateStream(Said("createStream", 2))[1], w[8])
                    /\ \A i \in 1..6 : Writes(ServerPlay(PlayOf(mode))[i], w[i + 8])
  BY ModeTyped DEF ServerSays, ClientSays, Writes, Answers, ServerConnected, ServerCreateStream,
         ServerPublish, ServerPlay, doServerEncrypted, doServerPlain, Setup,
         Write, ReadOf, Await, Do, Msg, Said, ConnectOf, PlayOf, PublishOf,
         Version, C1Digest, S1Digest, DigestC1, DigestS1

\* The elements a + 1 to b of a sequence.
Between(s, a, b) == [i \in 1..(b - a) |-> s[a + i]]

LEMMA BetweenTyped ==
    ASSUME NEW s, NEW a \in Nat, NEW b \in Nat, a <= b
    PROVE  Between(s, a, b) \in Seq({s[i] : i \in Nat}) /\ Len(Between(s, a, b)) = b - a
  BY DEF Between

LEMMA BetweenShrinks ==
    ASSUME NEW s, NEW a \in Nat, NEW b \in Nat, a < b
    PROVE  /\ Between(s, a, b) # <<>> /\ Head(Between(s, a, b)) = s[a + 1]
           /\ Tail(Between(s, a, b)) = Between(s, a + 1, b)
<1> DEFINE S == {s[i] : i \in Nat}
           t == Between(s, a, b)
           t2 == Between(s, a + 1, b)
<1>1. t \in Seq(S) /\ Len(t) = b - a /\ t2 \in Seq(S) /\ Len(t2) = (b - a) - 1
  <2>1. a <= b /\ a + 1 \in Nat /\ a + 1 <= b /\ b - (a + 1) = (b - a) - 1
    OBVIOUS
  <2>2. t \in Seq(S) /\ Len(t) = b - a
    BY <2>1, BetweenTyped
  <2>3. t2 \in Seq(S) /\ Len(t2) = b - (a + 1)
    BY <2>1, BetweenTyped
  <2> QED BY <2>1, <2>2, <2>3
<1>2. t # <<>> /\ Head(t) = t[1] /\ t[1] = s[a + 1]
  BY <1>1 DEF Between
<1>3. ASSUME NEW i \in 1..((b - a) - 1) PROVE t[i + 1] = t2[i]
  <2>1. i + 1 \in 1..(b - a) /\ a + (i + 1) = (a + 1) + i /\ i \in 1..(b - (a + 1))
    OBVIOUS
  <2> QED BY <2>1 DEF Between
<1> HIDE DEF S, t, t2
<1>4. /\ Tail(t) \in Seq(S) /\ Len(Tail(t)) = Len(t) - 1
      /\ \A i \in 1..Len(Tail(t)) : Tail(t)[i] = t[i + 1]
  BY <1>1, <1>2, HeadTailProperties
<1>5. Tail(t) = t2
  BY <1>1, <1>3, <1>4, SeqEqual
<1> QED BY <1>2, <1>5 DEF t, t2

LEMMA BetweenGrows ==
    ASSUME NEW s, NEW a \in Nat, NEW b \in Nat, a <= b
    PROVE  Append(Between(s, a, b), s[b + 1]) = Between(s, a, b + 1)
<1> DEFINE S == {s[i] : i \in Nat}
           t == Between(s, a, b)
           t2 == Between(s, a, b + 1)
<1>1. /\ t \in Seq(S) /\ Len(t) = b - a /\ t2 \in Seq(S) /\ Len(t2) = (b - a) + 1
      /\ s[b + 1] \in S
  <2>1. b + 1 \in Nat /\ a <= b + 1 /\ (b + 1) - a = (b - a) + 1
    OBVIOUS
  <2>2. t \in Seq(S) /\ Len(t) = b - a
    BY BetweenTyped
  <2>3. t2 \in Seq(S) /\ Len(t2) = (b + 1) - a
    BY <2>1, BetweenTyped
  <2>4. s[b + 1] \in S
    BY <2>1
  <2> QED BY <2>1, <2>2, <2>3, <2>4
<1>2. ASSUME NEW i \in 1..(b - a) PROVE t2[i] = t[i]
  <2>1. i \in 1..((b + 1) - a)
    OBVIOUS
  <2> QED BY <2>1 DEF Between
<1>3. t2[(b - a) + 1] = s[b + 1]
  <2>1. a + ((b - a) + 1) = b + 1 /\ (b - a) + 1 \in 1..((b + 1) - a)
    OBVIOUS
  <2> QED BY <2>1 DEF Between
<1> HIDE DEF t, t2, S
<1>4. Append(t, s[b + 1]) = t2
  BY <1>1, <1>2, <1>3
<1> QED BY <1>4 DEF t, t2

LEMMA BetweenEmpty ==
    ASSUME NEW s, NEW a \in Nat, NEW b \in Nat
    PROVE  /\ a = b => Between(s, a, b) = <<>>
           /\ a < b => Between(s, a, b) # <<>>
  BY BetweenShrinks DEF Between

LEMMA BetweenWhole ==
    ASSUME NEW S, NEW s \in Seq(S)
    PROVE  s = Between(s, 0, Len(s))
  BY DEF Between

\* createURL undoes splitPath: the server's path is that of the client's URL.
LEMMA UrlsSurvive ==
    ASSUME NEW path \in UrlPaths
    PROVE  /\ createURL(splitPath(path)[1], splitPath(path)[2]) = path
           /\ path \in Seq(Nat) /\ splitPath(path)[1] \in Seq(Nat) /\ splitPath(path)[2] \in Seq(Nat)
<1>1. path \in Seq(Nat) /\ Len(path) \in Nat \ {0}
  BY SegmentsBound DEF UrlPaths
<1>2. CASE Len(path) = 1
  BY <1>1, <1>2 DEF splitPath, createURL
<1>3. CASE Len(path) = 2
  BY <1>1, <1>3 DEF splitPath, createURL
<1>4. CASE Len(path) > 2
  <2> DEFINE a == SubSeq(path, 1, 2)
             b == SubSeq(path, 3, Len(path))
  <2>1. splitPath(path) = <<a, b>>
    BY <1>4 DEF splitPath
  <2>2. a \in Seq(Nat) /\ Len(a) = 2 /\ \A i \in 1..2 : a[i] = path[i]
    BY <1>1, <1>4
  <2>3. /\ b \in Seq(Nat) /\ Len(b) = Len(path) - 2
        /\ \A i \in 1..(Len(path) - 2) : b[i] = path[i + 2]
    BY <1>1, <1>4
  <2> HIDE DEF a, b
  <2>4. /\ a \o b \in Seq(Nat) /\ Len(a \o b) = Len(path)
        /\ \A i \in 1..Len(path) : (a \o b)[i] = IF i <= 2 THEN a[i] ELSE b[i - 2]
    <3>1. /\ a \o b \in Seq(Nat) /\ Len(a \o b) = Len(a) + Len(b)
          /\ \A i \in 1..(Len(a) + Len(b)) :
               (a \o b)[i] = IF i <= Len(a) THEN a[i] ELSE b[i - Len(a)]
      <4>1. a \in Seq(Nat) /\ b \in Seq(Nat)
        BY <2>2, <2>3
      <4> QED BY ONLY <4>1, ConcatProperties
    <3>2. Len(a) + Len(b) = Len(path)
      BY <1>1, <2>2, <2>3
    <3> QED BY <2>2, <3>1, <3>2
  <2>5. ASSUME NEW i \in 1..Len(path) PROVE (a \o b)[i] = path[i]
    <3>1. CASE i <= 2
      <4>1. i \in 1..2
        BY <1>1, <3>1
      <4> QED BY <2>2, <2>4, <3>1, <4>1
    <3>2. CASE i > 2
      <4>1. (a \o b)[i] = b[i - 2] /\ i - 2 \in 1..(Len(path) - 2) /\ (i - 2) + 2 = i
        BY <1>1, <2>4, <3>2
      <4> QED BY <2>3, <4>1
    <3>3. i <= 2 \/ i > 2
      OBVIOUS
    <3> QED BY <3>1, <3>2, <3>3
  <2>6. a \o b = path
    BY <1>1, <2>4, <2>5, SeqEqual
  <2> QED BY <1>1, <2>1, <2>2, <2>3, <2>6 DEF createURL
<1>5. Len(path) = 1 \/ Len(path) = 2 \/ Len(path) > 2
  <2>1. \A n \in Nat \ {0} : n = 1 \/ n = 2 \/ n > 2
    OBVIOUS
  <2> QED BY Zenon, <1>1, <2>1
<1> QED BY <1>2, <1>3, <1>4, <1>5

RtKinds ==
    Commands \cup {"c0", "c1", "c2", "s0", "s1", "s2", "setWindowAckSize", "setPeerBandwidth",
                  "setChunkSize", "setBufferLength", "streamIsRecorded", "streamBegin", "command"}
RtMsgs == [kind: RtKinds, n: Nat, path: Seq(Nat)]
RtSteps == [op: {"write", "read", "await"}, m: RtMsgs]
SessionTypes ==
    /\ rtMode \in Modes /\ rtCutOff \in BOOLEAN
    /\ rtClient \in Seq(RtSteps) /\ rtServer \in Seq(RtSteps)
    /\ rtToServer \in Seq(RtMsgs) /\ rtToClient \in Seq(RtMsgs)
    /\ rtEnd \in [{"client", "server"} -> {"running", "failed", "done"}]
    /\ rtServed \in [publish: BOOLEAN, path: Seq(Nat), app: Seq(Nat)]

LEMMA StepsTyped ==
    /\ \A kind \in RtKinds, n \in Nat :
         Write(kind, n) \in RtSteps /\ ReadOf(kind, n) \in RtSteps /\ Await(kind, n) \in RtSteps
    /\ \A kind \in RtKinds, n \in Nat, path \in Seq(Nat) : WritePath(kind, n, path) \in RtSteps
  BY DEF Write, WritePath, ReadOf, Await, Do, Msg, RtSteps, RtMsgs

LEMMA ClientTyped ==
    ASSUME NEW mode \in Modes
    PROVE  ClientProgram(mode) \in Seq(RtSteps)
<1>1. /\ splitPath(mode.path)[1] \in Seq(Nat) /\ splitPath(mode.path)[2] \in Seq(Nat)
      /\ mode.publish \in BOOLEAN /\ mode.enc \in BOOLEAN
  BY ModeTyped, UrlsSurvive
<1>2. doClientPlain \in Seq(RtSteps) /\ doClientEncrypted \in Seq(RtSteps)
  BY StepsTyped DEF doClientPlain, doClientEncrypted, DigestC1, DigestS1, RtKinds, Commands
<1>3. Setup \in Seq(RtSteps)
  BY StepsTyped DEF Setup, RtKinds, Commands
<1>4. clientPlay(mode.path) \in Seq(RtSteps)
  <2>1. <<WritePath("connect", 1, splitPath(mode.path)[1]), Await("_result", 1),
          Write("createStream", 2), Await("_result", 2), Write("setBufferLength", 0),
          WritePath("play", 3, splitPath(mode.path)[2]), Await("onStatus", 3)>> \in Seq(RtSteps)
    BY <1>1, StepsTyped DEF RtKinds, Commands
  <2> QED BY <1>3, <2>1, ConcatProperties DEF clientPlay
<1>5. clientPublish(mode.path) \in Seq(RtSteps)
  <2>1. <<WritePath("connect", 1, splitPath(mode.path)[1]), Await("_result", 1),
          Write("releaseStream", 2), Write("FCPublish", 3), Write("createStream", 4),
          Await("_result", 4), WritePath("publish", 5, splitPath(mode.path)[2]),
          Await("onStatus", 5)>> \in Seq(RtSteps)
    BY <1>1, StepsTyped DEF RtKinds, Commands
  <2> QED BY <1>3, <2>1, ConcatProperties DEF clientPublish
<1> QED BY <1>1, <1>2, <1>4, <1>5, ConcatProperties DEF ClientProgram

LEMMA ServerStepsTyped ==
    ASSUME NEW m \in RtMsgs
    PROVE  /\ ServerConnected(m) \in Seq(RtSteps) /\ ServerCreateStream(m) \in Seq(RtSteps)
           /\ ServerPlay(m) \in Seq(RtSteps) /\ ServerPublish(m) \in Seq(RtSteps)
           /\ doServerPlain \o <<Await("connect", 0)>> \in Seq(RtSteps)
           /\ doServerEncrypted \o <<Await("connect", 0)>> \in Seq(RtSteps)
<1>1. m.n \in Nat
  BY DEF RtMsgs
<1>2. doServerPlain \in Seq(RtSteps) /\ doServerEncrypted \in Seq(RtSteps)
      /\ <<Await("connect", 0)>> \in Seq(RtSteps)
  BY StepsTyped DEF doServerPlain, doServerEncrypted, DigestC1, DigestS1, RtKinds, Commands
<1>3. Setup \in Seq(RtSteps) /\ <<Write("_result", m.n), Await("command", 0)>> \in Seq(RtSteps)
  BY <1>1, StepsTyped DEF Setup, RtKinds, Commands
<1>4. ServerPlay(m) \in Seq(RtSteps) /\ ServerPublish(m) \in Seq(RtSteps)
  BY <1>1, StepsTyped DEF ServerPlay, ServerPublish, RtKinds, Commands
<1> QED BY <1>2, <1>3, <1>4, ConcatProperties DEF ServerConnected, ServerCreateStream

LEMMA HeadTyped ==
    ASSUME NEW S, NEW s \in Seq(S), s # <<>>
    PROVE  Head(s) \in S /\ Tail(s) \in Seq(S)
  BY HeadTailProperties

LEMMA SessionTypesStep == SessionTypes /\ [SessionNext]_rtVars => SessionTypes'
<1> SUFFICES ASSUME SessionTypes, [SessionNext]_rtVars PROVE SessionTypes'
  OBVIOUS
<1> DEFINE Ends == [{"client", "server"} -> {"running", "failed", "done"}]
           Served == [publish: BOOLEAN, path: Seq(Nat), app: Seq(Nat)]
<1>1. /\ rtMode \in Modes /\ rtCutOff \in BOOLEAN
      /\ rtClient \in Seq(RtSteps) /\ rtServer \in Seq(RtSteps)
      /\ rtToServer \in Seq(RtMsgs) /\ rtToClient \in Seq(RtMsgs)
      /\ rtEnd \in Ends /\ rtServed \in Served
  BY DEF SessionTypes
<1>2. ASSUME NEW side \in {"client", "server"}, NEW steps, Fails(side) \/ EndsWith(side, steps)
      PROVE  rtEnd' \in Ends
  BY <1>1, <1>2 DEF Fails, EndsWith
<1>3. \A step \in RtSteps : step.m \in RtMsgs
  BY DEF RtSteps
<1>4. CASE ClientWrites
  <2>1. /\ rtClient # <<>> /\ rtClient' = Tail(rtClient)
        /\ \/ Fails("client") /\ rtToServer' = rtToServer
           \/ rtToServer' = Append(rtToServer, Head(rtClient).m) /\ EndsWith("client", Tail(rtClient))
        /\ rtMode' = rtMode /\ rtServer' = rtServer /\ rtToClient' = rtToClient
        /\ rtCutOff' = rtCutOff /\ rtServed' = rtServed
    BY Zenon, <1>4 DEF ClientWrites
  <2>2. Head(rtClient) \in RtSteps /\ Tail(rtClient) \in Seq(RtSteps)
    BY <1>1, <2>1, HeadTyped
  <2>3. rtEnd' \in Ends
    BY <1>2, <2>1
  <2>4. rtToServer' \in Seq(RtMsgs)
    <3>1. Head(rtClient).m \in RtMsgs
      BY <1>3, <2>2
    <3>2. Append(rtToServer, Head(rtClient).m) \in Seq(RtMsgs)
      BY <1>1, <3>1, AppendProperties
    <3> QED BY <1>1, <2>1, <3>2
  <2> QED BY <1>1, <2>1, <2>2, <2>3, <2>4 DEF SessionTypes
<1>5. CASE ClientReads
  <2>1. /\ rtClient # <<>> /\ rtToClient # <<>> /\ rtToClient' = Tail(rtToClient)
        /\ \/ rtClient' = Tail(rtClient) /\ EndsWith("client", Tail(rtClient))
           \/ rtClient' = rtClient /\ (Fails("client") \/ rtEnd' = rtEnd)
        /\ rtMode' = rtMode /\ rtServer' = rtServer /\ rtToServer' = rtToServer
        /\ rtCutOff' = rtCutOff /\ rtServed' = rtServed
    BY Zenon, <1>5 DEF ClientReads
  <2>2. Tail(rtToClient) \in Seq(RtMsgs) /\ Tail(rtClient) \in Seq(RtSteps)
    BY <1>1, <2>1, HeadTyped
  <2>3. rtEnd' \in Ends
    BY <1>1, <1>2, <2>1
  <2> QED BY <1>1, <2>1, <2>2, <2>3 DEF SessionTypes
<1>6. CASE ServerWrites
  <2>1. /\ rtServer # <<>> /\ rtServer' = Tail(rtServer)
        /\ \/ Fails("server") /\ rtToClient' = rtToClient
           \/ rtToClient' = Append(rtToClient, Head(rtServer).m) /\ EndsWith("server", Tail(rtServer))
        /\ rtMode' = rtMode /\ rtClient' = rtClient /\ rtToServer' = rtToServer
        /\ rtCutOff' = rtCutOff /\ rtServed' = rtServed
    BY Zenon, <1>6 DEF ServerWrites
  <2>2. Head(rtServer) \in RtSteps /\ Tail(rtServer) \in Seq(RtSteps)
    BY <1>1, <2>1, HeadTyped
  <2>3. rtEnd' \in Ends
    BY <1>2, <2>1
  <2>4. rtToClient' \in Seq(RtMsgs)
    <3>1. Head(rtServer).m \in RtMsgs
      BY <1>3, <2>2
    <3>2. Append(rtToClient, Head(rtServer).m) \in Seq(RtMsgs)
      BY <1>1, <3>1, AppendProperties
    <3> QED BY <1>1, <2>1, <3>2
  <2> QED BY <1>1, <2>1, <2>2, <2>3, <2>4 DEF SessionTypes
<1>7. CASE ServerReads
  <2> DEFINE m == Head(rtToServer)
  <2>1. /\ rtServer # <<>> /\ rtToServer # <<>> /\ rtToServer' = Tail(rtToServer)
        /\ \/ ServerReadsVersion(m) \/ ServerReadsHandshake(m) \/ ServerReadsConnect(m)
           \/ ServerReadsCommand(m) \/ ServerSkips(m)
        /\ rtMode' = rtMode /\ rtClient' = rtClient /\ rtToClient' = rtToClient
        /\ rtCutOff' = rtCutOff
    BY Zenon, <1>7 DEF ServerReads
  <2>2. Tail(rtToServer) \in Seq(RtMsgs) /\ Tail(rtServer) \in Seq(RtSteps) /\ m \in RtMsgs
    BY <1>1, <2>1, HeadTyped
  <2> HIDE DEF m
  <2>3. rtServer' \in Seq(RtSteps) /\ rtEnd' \in Ends /\ rtServed' \in Served
    <3>1. CASE ServerReadsVersion(m)
      BY <1>1, <2>2, <3>1, ServerStepsTyped DEF ServerReadsVersion
    <3>2. CASE ServerReadsHandshake(m)
      BY <1>1, <1>2, <2>2, <3>2 DEF ServerReadsHandshake
    <3>3. CASE ServerReadsConnect(m)
      <4>1. m.path \in Seq(Nat)
        BY <2>2 DEF RtMsgs
      <4>2. [rtServed EXCEPT !.app = m.path] \in Served
        BY <1>1, <4>1
      <4> HIDE DEF Served
      <4> QED BY <1>1, <1>2, <2>2, <3>3, <4>2, ServerStepsTyped DEF ServerReadsConnect
    <3>4. CASE ServerReadsCommand(m)
      <4>1. createURL(rtServed.app, m.path) \in Seq(Nat)
        BY <1>1, <2>2, ConcatProperties DEF RtMsgs, createURL
      <4>2. rtServed' \in Served
        BY <1>1, <3>4, <4>1 DEF ServerReadsCommand
      <4>3. rtServer' \in Seq(RtSteps)
        BY <1>1, <2>2, <3>4, ServerStepsTyped DEF ServerReadsCommand
      <4> QED BY <1>1, <3>4, <4>2, <4>3 DEF ServerReadsCommand
    <3>5. CASE ServerSkips(m)
      BY <1>1, <3>5 DEF ServerSkips
    <3> QED BY <2>1, <3>1, <3>2, <3>3, <3>4, <3>5
  <2> QED BY <1>1, <2>1, <2>2, <2>3 DEF SessionTypes
<1>8. CASE CutOff
  BY <1>1, <1>8 DEF CutOff, SessionTypes
<1>9. CASE ReadsFail
  <2>1. /\ Fails("client") \/ Fails("server")
        /\ rtMode' = rtMode /\ rtClient' = rtClient /\ rtServer' = rtServer
        /\ rtToServer' = rtToServer /\ rtToClient' = rtToClient
        /\ rtCutOff' = rtCutOff /\ rtServed' = rtServed
    BY Zenon, <1>9 DEF ReadsFail, ReadFails
  <2>2. rtEnd' \in Ends
    BY <1>2, <2>1
  <2> QED BY <1>1, <2>1, <2>2 DEF SessionTypes
<1>10. CASE UNCHANGED rtVars
  BY <1>1, <1>10 DEF rtVars, SessionTypes
<1> QED BY <1>4, <1>5, <1>6, <1>7, <1>8, <1>9, <1>10 DEF SessionNext

LEMMA SessionTypesInit == SessionInit => SessionTypes
<1> SUFFICES ASSUME SessionInit PROVE SessionTypes
  OBVIOUS
<1>1. rtMode \in Modes /\ rtClient = ClientProgram(rtMode)
  BY Zenon DEF SessionInit, Modes, ClientProgram
<1>2. rtServer \in Seq(RtSteps)
  BY StepsTyped DEF SessionInit, RtKinds, Commands
<1>3. /\ rtToServer \in Seq(RtMsgs) /\ rtToClient \in Seq(RtMsgs) /\ rtCutOff \in BOOLEAN
      /\ rtEnd \in [{"client", "server"} -> {"running", "failed", "done"}]
      /\ rtServed \in [publish: BOOLEAN, path: Seq(Nat), app: Seq(Nat)]
  <2>1. <<>> \in Seq(Nat) /\ <<>> \in Seq(RtMsgs)
    OBVIOUS
  <2>2. rtEnd = [s \in {"client", "server"} |-> "running"]
        /\ rtServed = [publish |-> FALSE, path |-> <<>>, app |-> <<>>]
    BY DEF SessionInit
  <2>3. rtEnd \in [{"client", "server"} -> {"running", "failed", "done"}]
    BY <2>2
  <2>4. rtServed \in [publish: BOOLEAN, path: Seq(Nat), app: Seq(Nat)]
    BY Zenon, <2>1, <2>2
  <2> QED BY <2>1, <2>3, <2>4 DEF SessionInit
<1> QED BY <1>1, <1>2, <1>3, ClientTyped DEF SessionTypes

LEMMA SaidKinds ==
    ASSUME NEW mode \in Modes
    PROVE  LET w == ClientSays(mode) IN
           /\ w[1] = Said("c0", Version(mode.enc)) /\ w[2].kind = "c1"
           /\ w[3].kind = "c2" /\ (w[3].n # 0 <=> mode.enc)
           /\ w[4].kind = "setWindowAckSize" /\ w[5].kind = "setPeerBandwidth"
           /\ w[6].kind = "setChunkSize" /\ w[7] = ConnectOf(mode)
           /\ mode.publish => /\ w[8] = Said("releaseStream", 2) /\ w[9] = Said("FCPublish", 3)
                              /\ w[10] = Said("createStream", 4) /\ w[11] = PublishOf(mode)
           /\ ~mode.publish => /\ w[8] = Said("createStream", 2)
                               /\ w[9] = Said("setBufferLength", 0) /\ w[10] = PlayOf(mode)
  BY ModeTyped DEF ClientSays, Said, Msg, ConnectOf, S1Digest, C1Digest, DigestS1

LEMMA OnlyThirdIsC2 ==
    ASSUME NEW mode \in Modes, NEW j \in 1..Len(ClientSays(mode))
    PROVE  ClientSays(mode)[j].kind = "c2" <=> j = 3
<1>1. j \in 1..(IF mode.publish THEN 11 ELSE 10)
  BY Lengths
<1>2. \/ j = 1 \/ j = 2 \/ j = 3 \/ j = 4 \/ j = 5 \/ j = 6 \/ j = 7 \/ j = 8 \/ j = 9 \/ j = 10
      \/ j = 11 /\ mode.publish
  BY <1>1
<1>3. mode.publish \in BOOLEAN
  BY ModeTyped
<1> DEFINE w == ClientSays(mode)
<1>4. /\ w[1].kind = "c0" /\ w[2].kind = "c1" /\ w[3].kind = "c2"
      /\ w[4].kind = "setWindowAckSize" /\ w[5].kind = "setPeerBandwidth"
      /\ w[6].kind = "setChunkSize" /\ w[7].kind = "connect"
  BY ModeTyped DEF ClientSays, Said, Msg, ConnectOf
<1>5. /\ w[8].kind \in {"releaseStream", "createStream"}
      /\ w[9].kind \in {"FCPublish", "setBufferLength"} /\ w[10].kind \in {"createStream", "play"}
      /\ mode.publish => w[11].kind = "publish"
  BY <1>3 DEF ClientSays, Said, Msg, PlayOf, PublishOf
<1> HIDE DEF w
<1>6. w[j].kind = "c2" <=> j = 3
  BY <1>2, <1>4, <1>5
<1> QED BY <1>6 DEF w

\* What a server that has written and read n messages reads next, and with
\* which step.
Hears(mode, n, step, m) ==
    \/ n = 0 /\ step = Await("c0", 0) /\ m = Said("c0", Version(mode.enc))
    \/ n \in {1, 5} /\ step.op = "read" /\ Answers(step, m) /\ m.kind = (IF n = 1 THEN "c1" ELSE "c2")
    \/ n \in {6, 7, 8} /\ step = Await("connect", 0)
       /\ m.kind \in {"setWindowAckSize", "setPeerBandwidth", "setChunkSize"}
    \/ n = 9 /\ step = Await("connect", 0) /\ m = ConnectOf(mode)
    \/ /\ step = Await("command", 0)
       /\ \/ mode.publish /\ n = 14 /\ m = Said("releaseStream", 2)
          \/ mode.publish /\ n = 15 /\ m = Said("FCPublish", 3)
          \/ mode.publish /\ n = 16 /\ m = Said("createStream", 4)
          \/ mode.publish /\ n = 18 /\ m = PublishOf(mode)
          \/ ~mode.publish /\ n = 14 /\ m = Said("createStream", 2)
          \/ ~mode.publish /\ n = 16 /\ m = Said("setBufferLength", 0)
          \/ ~mode.publish /\ n = 17 /\ m = PlayOf(mode)

LEMMA ServerTable ==
    ASSUME NEW mode \in Modes, NEW v \in 0..(ServerEnd(mode) - 1)
    PROVE  LET step == ServerProgram(mode, v)[ServerDid(mode, v) + 1]
           IN  \/ /\ Writes(step, ServerSays(mode)[ServerWrote(mode, v) + 1])
                  /\ ServerWrote(mode, v + 1) = ServerWrote(mode, v) + 1
                  /\ ServerDid(mode, v + 1) = ServerDid(mode, v) + 1
                  /\ v \in (2..4) \cup (10..13) \cup (IF mode.publish THEN {17, 19} ELSE {15} \cup (18..23))
               \/ /\ Hears(mode, v, step, ClientSays(mode)[(v - ServerWrote(mode, v)) + 1])
                  /\ ServerWrote(mode, v + 1) = ServerWrote(mode, v)
<1> DEFINE h == (IF mode.enc THEN doServerEncrypted ELSE doServerPlain) \o <<Await("connect", 0)>>
           c == ServerConnected(ConnectOf(mode))
           r == ClientSays(mode)
           w == ServerSays(mode)
<1> USE ServerRows, SaidKinds
<1>1. v \in Nat /\ v <= 23 /\ (mode.publish => v <= 19)
  BY DEF ServerEnd
<1>2. ServerCreateStream(Said("createStream", 4))[2] = Await("command", 0)
      /\ ServerCreateStream(Said("createStream", 2))[2] = Await("command", 0)
  BY DEF ServerCreateStream
<1>3. CASE v <= 4
  <2>1. v = 0 \/ v = 1 \/ v = 2 \/ v = 3 \/ v = 4
    BY <1>1, <1>3
  <2>2. CASE v = 0
    BY <2>2 DEF ServerDid, ServerWrote, ServerProgram, Hears
  <2>3. CASE v = 1
    BY <2>3 DEF ServerDid, ServerWrote, ServerProgram, Hears
  <2>4. CASE v = 2
    BY <2>4 DEF ServerDid, ServerWrote, ServerProgram, Hears
  <2>5. CASE v = 3
    BY <2>5 DEF ServerDid, ServerWrote, ServerProgram, Hears
  <2>6. CASE v = 4
    BY <2>6 DEF ServerDid, ServerWrote, ServerProgram, Hears
  <2> QED BY <2>1, <2>2, <2>3, <2>4, <2>5, <2>6
<1>4. CASE v \in 5..9
  <2>1. v = 5 \/ v = 6 \/ v = 7 \/ v = 8 \/ v = 9
    BY <1>4
  <2>2. CASE v = 5
    BY <2>2 DEF ServerDid, ServerWrote, ServerProgram, Hears
  <2>3. CASE v = 6
    BY <2>3 DEF ServerDid, ServerWrote, ServerProgram, Hears
  <2>4. CASE v = 7
    BY <2>4 DEF ServerDid, ServerWrote, ServerProgram, Hears
  <2>5. CASE v = 8
    BY <2>5 DEF ServerDid, ServerWrote, ServerProgram, Hears
  <2>6. CASE v = 9
    BY <2>6 DEF ServerDid, ServerWrote, ServerProgram, Hears
  <2> QED BY <2>1, <2>2, <2>3, <2>4, <2>5, <2>6
<1>5. CASE v \in 10..13
  <2>1. v = 10 \/ v = 11 \/ v = 12 \/ v = 13
    BY <1>5
  <2>2. CASE v = 10
    BY <2>2 DEF ServerDid, ServerWrote, ServerProgram, Hears
  <2>3. CASE v = 11
    BY <2>3 DEF ServerDid, ServerWrote, ServerProgram, Hears
  <2>4. CASE v = 12
    BY <2>4 DEF ServerDid, ServerWrote, ServerProgram, Hears
  <2>5. CASE v = 13
    BY <2>5 DEF ServerDid, ServerWrote, ServerProgram, Hears
  <2> QED BY <2>1, <2>2, <2>3, <2>4, <2>5
<1>6. CASE v >= 14 /\ mode.publish
  <2>1. v = 14 \/ v = 15 \/ v = 16 \/ v = 17 \/ v = 18 \/ v = 19
    BY <1>1, <1>6
  <2>2. CASE v = 14
    BY <1>2, <1>6, <2>2 DEF ServerDid, ServerWrote, ServerProgram, Hears
  <2>3. CASE v = 15
    BY <1>2, <1>6, <2>3 DEF ServerDid, ServerWrote, ServerProgram, Hears
  <2>4. CASE v = 16
    BY <1>2, <1>6, <2>4 DEF ServerDid, ServerWrote, ServerProgram, Hears
  <2>5. CASE v = 17
    BY <1>2, <1>6, <2>5 DEF ServerDid, ServerWrote, ServerProgram, Hears
  <2>6. CASE v = 18
    BY <1>2, <1>6, <2>6 DEF ServerDid, ServerWrote, ServerProgram, Hears
  <2>7. CASE v = 19
    BY <1>2, <1>6, <2>7 DEF ServerDid, ServerWrote, ServerProgram, Hears
  <2> QED BY <2>1, <2>2, <2>3, <2>4, <2>5, <2>6, <2>7
<1>7. CASE v \in 14..17 /\ ~mode.publish
  <2>1. v = 14 \/ v = 15 \/ v = 16 \/ v = 17
    BY <1>7
  <2>2. CASE v = 14
    BY <1>2, <1>7, <2>2 DEF ServerDid, ServerWrote, ServerProgram, Hears
  <2>3. CASE v = 15
    BY <1>2, <1>7, <2>3 DEF ServerDid, ServerWrote, ServerProgram, Hears
  <2>4. CASE v = 16
    BY <1>2, <1>7, <2>4 DEF ServerDid, ServerWrote, ServerProgram, Hears
  <2>5. CASE v = 17
    BY <1>2, <1>7, <2>5 DEF ServerDid, ServerWrote, ServerProgram, Hears
  <2> QED BY <2>1, <2>2, <2>3, <2>4, <2>5
<1>8. CASE v >= 18 /\ ~mode.publish
  <2>1. (v - 18) + 1 \in 1..6 /\ (v - 10) + 1 = ((v - 18) + 1) + 8 /\ v + 1 > 18 /\ v \in 18..23
    BY <1>1, <1>8
  <2>2. Writes(ServerPlay(PlayOf(mode))[(v - 18) + 1], w[((v - 18) + 1) + 8])
    BY <1>8, <2>1
  <2>3. /\ ServerDid(mode, v) = v - 18 /\ ServerProgram(mode, v) = ServerPlay(PlayOf(mode))
        /\ ServerDid(mode, v + 1) = (v - 18) + 1
    BY <1>1, <1>8 DEF ServerDid, ServerProgram
  <2>4. ServerWrote(mode, v) = v - 10 /\ ServerWrote(mode, v + 1) = (v - 10) + 1
    BY <1>1, <1>8 DEF ServerWrote
  <2> QED BY <1>8, <2>1, <2>2, <2>3, <2>4
<1> QED BY <1>1, <1>3, <1>4, <1>5, <1>6, <1>7, <1>8

\* A server that writes stays in its program, and is done with its last step.
LEMMA ServerStays ==
    ASSUME NEW mode \in Modes,
           NEW v \in (2..4) \cup (10..13) \cup (IF mode.publish THEN {17, 19} ELSE {15} \cup (18..23))
    PROVE  /\ ServerProgram(mode, v + 1) = ServerProgram(mode, v)
           /\ ServedAt(mode, v + 1) = ServedAt(mode, v) /\ v # 5
  BY ModeTyped DEF ServerProgram, ServedAt, Told

LEMMA ServerLengths ==
    ASSUME NEW mode \in Modes, NEW v \in 0..ServerEnd(mode)
    PROVE  /\ Len(ServerProgram(mode, v)) \in Nat
           /\ ServerDid(mode, v) <= Len(ServerProgram(mode, v))
           /\ ServerDid(mode, v) = Len(ServerProgram(mode, v)) <=> v = ServerEnd(mode)
           /\ ServerProgram(mode, v) \in Seq(RtSteps)
<1>1. /\ ConnectOf(mode) \in RtMsgs /\ PlayOf(mode) \in RtMsgs /\ PublishOf(mode) \in RtMsgs
      /\ Said("createStream", 2) \in RtMsgs /\ Said("createStream", 4) \in RtMsgs
  BY ModeTyped, UrlsSurvive
  DEF ConnectOf, PlayOf, PublishOf, Said, Msg, RtMsgs, RtKinds, Commands
<1>2. ServerProgram(mode, v) \in Seq(RtSteps)
  <2>1. <<Await("c0", 0)>> \in Seq(RtSteps)
    BY StepsTyped DEF RtKinds, Commands
  <2> QED BY <1>1, <2>1, ServerStepsTyped DEF ServerProgram
<1>3. v \in Nat /\ v <= 24 /\ (mode.publish => v <= 20) /\ mode.publish \in BOOLEAN
  BY ModeTyped DEF ServerEnd
<1>4. Len(ServerProgram(mode, v)) =
        IF v = 0 THEN 1 ELSE IF v <= 9 THEN 6 ELSE IF v <= 14 THEN 5
        ELSE IF mode.publish THEN (IF v <= 16 THEN 5 ELSE IF v <= 18 THEN 2 ELSE 1)
        ELSE (IF v <= 17 THEN 2 ELSE 6)
  BY <1>3, ServerRows DEF ServerProgram, ServerCreateStream, ServerPublish, ServerPlay
<1>5. /\ ServerDid(mode, v) <= Len(ServerProgram(mode, v))
      /\ ServerDid(mode, v) = Len(ServerProgram(mode, v)) <=> v = ServerEnd(mode)
  BY <1>3, <1>4 DEF ServerDid, ServerEnd
<1> QED BY <1>2, <1>5

-----------------------------------------------------------------------------
\* The positions u and v of the two sides: what each has read, the other has
\* written before.
InOrder(mode, u, v) ==
    /\ u \in 0..ClientEnd(mode) /\ v \in 0..ServerEnd(mode)
    /\ v - ServerWrote(mode, v) <= ClientWrote(mode, u)
    /\ u - ClientWrote(mode, u) <= ServerWrote(mode, v)

\* A side that has not failed has the rest of its program to do.
ClientThere(mode, u, left, end) ==
    end # "failed" =>
      /\ left = Between(ClientProgram(mode), ClientDid(mode, u), Len(ClientProgram(mode)))
      /\ end = "done" <=> u = ClientEnd(mode)
ServerThere(mode, v, left, end) ==
    end # "failed" =>
      /\ left = Between(ServerProgram(mode, v), ServerDid(mode, v), Len(ServerProgram(mode, v)))
      /\ end = "done" <=> v = ServerEnd(mode)

\* What is written and not read is under way.
UnderWay(mode, u, v, toServer, toClient) ==
    /\ toServer = Between(ClientSays(mode), v - ServerWrote(mode, v), ClientWrote(mode, u))
    /\ toClient = Between(ServerSays(mode), u - ClientWrote(mode, u), ServerWrote(mode, v))

\* The keys of a side that has written or read C2.
KeysThere(mode, side, n, keys) ==
    keys[side] = IF n >= 6 THEN Keys(mode.enc)[side] ELSE <<"none", "none">>

SessionAt(u, v) ==
    /\ InOrder(rtMode, u, v)
    /\ ClientThere(rtMode, u, rtClient, rtEnd["client"])
    /\ ServerThere(rtMode, v, rtServer, rtEnd["server"])
    /\ ~rtCutOff => /\ UnderWay(rtMode, u, v, rtToServer, rtToClient)
                    /\ rtEnd["client"] # "failed" /\ rtEnd["server"] # "failed"
    /\ rtCutOff => rtToServer = <<>> /\ rtToClient = <<>>
    /\ DOMAIN rtKeys = {"client", "server"}
    /\ KeysThere(rtMode, "client", u, rtKeys) /\ KeysThere(rtMode, "server", v, rtKeys)
    /\ rtServed = ServedAt(rtMode, v)

\* What is next for a side that is not done.
LEMMA ClientPlace ==
    ASSUME NEW mode \in Modes, NEW u \in 0..ClientEnd(mode), u # ClientEnd(mode)
    PROVE  LET p == ClientProgram(mode)
               d == ClientDid(mode, u)
               left == Between(p, d, Len(p))
           IN  /\ u \in 0..(ClientEnd(mode) - 1) /\ u + 1 \in 0..ClientEnd(mode)
               /\ ClientWrote(mode, u) \in Nat /\ u - ClientWrote(mode, u) \in Nat
               /\ left # <<>> /\ Head(left) = p[d + 1] /\ Tail(left) = Between(p, d + 1, Len(p))
               /\ ClientDid(mode, u + 1) = d + 1 => (Tail(left) = <<>> <=> u + 1 = ClientEnd(mode))
<1> DEFINE p == ClientProgram(mode)
           d == ClientDid(mode, u)
           n == Len(p)
<1>1. u \in 0..(ClientEnd(mode) - 1) /\ u + 1 \in 0..ClientEnd(mode)
  BY ClientNumbers
<1>2. /\ d \in 0..u /\ ClientWrote(mode, u) \in 0..u /\ d <= (IF mode.publish THEN 17 ELSE 16)
      /\ d = (IF mode.publish THEN 17 ELSE 16) <=> u = ClientEnd(mode)
  BY ClientNumbers
<1>3. n = IF mode.publish THEN 17 ELSE 16
  BY Lengths
<1> HIDE DEF p, d, n
<1>4. d \in Nat /\ n \in Nat /\ d < n /\ d + 1 \in Nat
  BY <1>2, <1>3
<1>5. /\ Between(p, d, n) # <<>> /\ Head(Between(p, d, n)) = p[d + 1]
      /\ Tail(Between(p, d, n)) = Between(p, d + 1, n)
  BY <1>4, BetweenShrinks
<1>6. ClientDid(mode, u + 1) = d + 1 => (d + 1 = n <=> u + 1 = ClientEnd(mode))
  <2>1. ClientDid(mode, u + 1) = (IF mode.publish THEN 17 ELSE 16) <=> u + 1 = ClientEnd(mode)
    BY <1>1, ClientNumbers
  <2> QED BY <1>3, <2>1
<1>7. Between(p, d + 1, n) = <<>> <=> d + 1 = n
  <2>1. /\ d + 1 = n => Between(p, d + 1, n) = <<>>
        /\ d + 1 < n => Between(p, d + 1, n) # <<>>
    BY <1>4, BetweenEmpty
  <2> QED BY <1>4, <2>1
<1>8. ClientWrote(mode, u) \in Nat /\ u - ClientWrote(mode, u) \in Nat
  BY <1>2
<1> QED BY <1>1, <1>5, <1>6, <1>7, <1>8 DEF p, d, n

LEMMA ServerPlace ==
    ASSUME NEW mode \in Modes, NEW v \in 0..ServerEnd(mode), v # ServerEnd(mode)
    PROVE  LET p == ServerProgram(mode, v)
               d == ServerDid(mode, v)
               left == Between(p, d, Len(p))
           IN  /\ v \in 0..(ServerEnd(mode) - 1) /\ v + 1 \in 0..ServerEnd(mode)
               /\ ServerWrote(mode, v) \in Nat /\ v - ServerWrote(mode, v) \in Nat
               /\ left # <<>> /\ Head(left) = p[d + 1] /\ Tail(left) = Between(p, d + 1, Len(p))
               /\ ServerDid(mode, v + 1) = d + 1 /\ ServerProgram(mode, v + 1) = p =>
                    (Tail(left) = <<>> <=> v + 1 = ServerEnd(mode))
<1> DEFINE p == ServerProgram(mode, v)
           d == ServerDid(mode, v)
           n == Len(p)
<1>1. v \in 0..(ServerEnd(mode) - 1) /\ v + 1 \in 0..ServerEnd(mode)
  BY ServerNumbers
<1>2. /\ d \in 0..v /\ ServerWrote(mode, v) \in 0..v
      /\ n \in Nat /\ d <= n /\ (d = n <=> v = ServerEnd(mode))
  BY ServerNumbers, ServerLengths
<1> HIDE DEF p, d, n
<1>4. d \in Nat /\ n \in Nat /\ d < n /\ d + 1 \in Nat
  BY <1>2
<1>5. /\ Between(p, d, n) # <<>> /\ Head(Between(p, d, n)) = p[d + 1]
      /\ Tail(Between(p, d, n)) = Between(p, d + 1, n)
  BY <1>4, BetweenShrinks
<1>6. ServerDid(mode, v + 1) = d + 1 /\ ServerProgram(mode, v + 1) = p =>
        (d + 1 = n <=> v + 1 = ServerEnd(mode))
  BY <1>1, ServerLengths DEF n
<1>7. Between(p, d + 1, n) = <<>> <=> d + 1 = n
  <2>1. /\ d + 1 = n => Between(p, d + 1, n) = <<>>
        /\ d + 1 < n => Between(p, d + 1, n) # <<>>
    BY <1>4, BetweenEmpty
  <2> QED BY <1>4, <2>1
<1>8. ServerWrote(mode, v) \in Nat /\ v - ServerWrote(mode, v) \in Nat
  BY <1>2
<1> QED BY <1>1, <1>5, <1>6, <1>7, <1>8 DEF p, d, n

LEMMA ClientWritesAt ==
    ASSUME SessionTypes, NEW u, NEW v, SessionAt(u, v), ClientWrites
    PROVE  \E x, y : SessionAt(x, y)'
<1> DEFINE mode == rtMode
           p == ClientProgram(mode)
<1>1. /\ rtEnd["client"] = "running" /\ rtClient # <<>> /\ Head(rtClient).op = "write"
      /\ rtClient' = Tail(rtClient)
      /\ rtMode' = rtMode /\ rtServer' = rtServer /\ rtToClient' = rtToClient
      /\ rtCutOff' = rtCutOff /\ rtServed' = rtServed
  BY Zenon DEF ClientWrites, Running
<1>2. /\ mode \in Modes /\ rtCutOff \in BOOLEAN
      /\ rtEnd \in [{"client", "server"} -> {"running", "failed", "done"}]
  BY DEF SessionTypes
<1>3. /\ InOrder(mode, u, v) /\ ClientThere(mode, u, rtClient, rtEnd["client"])
      /\ ServerThere(mode, v, rtServer, rtEnd["server"])
      /\ ~rtCutOff => /\ UnderWay(mode, u, v, rtToServer, rtToClient)
                      /\ rtEnd["client"] # "failed" /\ rtEnd["server"] # "failed"
      /\ rtCutOff => rtToServer = <<>> /\ rtToClient = <<>>
      /\ DOMAIN rtKeys = {"client", "server"}
      /\ KeysThere(mode, "client", u, rtKeys) /\ KeysThere(mode, "server", v, rtKeys)
      /\ rtServed = ServedAt(mode, v)
  BY Zenon DEF SessionAt
<1>4. CASE rtCutOff
  <2>1. /\ rtEnd' = [rtEnd EXCEPT !["client"] = "failed"] /\ rtToServer' = rtToServer
        /\ rtKeys' = rtKeys
    BY Zenon, <1>4 DEF ClientWrites, Fails
  <2>2. rtEnd'["client"] = "failed" /\ rtEnd'["server"] = rtEnd["server"]
    BY <1>2, <2>1
  <2>3. SessionAt(u, v)'
    BY Zenon, <1>1, <1>3, <1>4, <2>1, <2>2 DEF SessionAt, ClientThere
  <2> QED BY <2>3
<1>5. CASE ~rtCutOff
  <2>1. /\ rtToServer' = Append(rtToServer, Head(rtClient).m)
        /\ EndsWith("client", Tail(rtClient)) /\ KeysWith("client", Head(rtClient).m)
    BY Zenon, <1>5 DEF ClientWrites
  <2> DEFINE a == ClientWrote(mode, u)
             d == ClientDid(mode, u)
             n == Len(p)
  <2>2. /\ u \in 0..ClientEnd(mode) /\ u # ClientEnd(mode)
        /\ rtClient = Between(p, d, n)
    BY <1>1, <1>3 DEF InOrder, ClientThere
  <2>3. u \in 0..(ClientEnd(mode) - 1) /\ u + 1 \in 0..ClientEnd(mode) /\ a \in Nat
    BY <1>2, <2>2, ClientPlace
  <2>5. /\ Head(rtClient) = p[d + 1] /\ Tail(rtClient) = Between(p, d + 1, n)
        /\ ClientDid(mode, u + 1) = d + 1 => (Tail(rtClient) = <<>> <=> u + 1 = ClientEnd(mode))
    BY <1>2, <2>2, ClientPlace
  <2>6. /\ Writes(p[d + 1], ClientSays(mode)[a + 1])
        /\ ClientWrote(mode, u + 1) = a + 1 /\ ClientDid(mode, u + 1) = d + 1
    BY <1>1, <1>2, <2>3, <2>5, ClientTable DEF Answers, Skips
  <2>7. Head(rtClient).m = ClientSays(mode)[a + 1]
    BY <2>5, <2>6 DEF Writes
  <2> HIDE DEF a, d, n, p
  <2>8. InOrder(mode, u + 1, v)
    <3>1. /\ v \in 0..ServerEnd(mode) /\ v - ServerWrote(mode, v) <= a
          /\ u - a <= ServerWrote(mode, v) /\ v - ServerWrote(mode, v) \in Int
          /\ ServerWrote(mode, v) \in Int
      BY <1>2, <1>3, ServerNumbers DEF InOrder, a
    <3> QED BY <2>3, <2>6, <3>1 DEF InOrder
  <2>9. ClientThere(mode, u + 1, rtClient', rtEnd'["client"]) /\ rtEnd'["server"] = rtEnd["server"]
        /\ rtEnd'["client"] # "failed"
    <3>2. Tail(rtClient) = <<>> <=> u + 1 = ClientEnd(mode)
      BY <2>5, <2>6
    <3>3. rtEnd'["client"] = (IF u + 1 = ClientEnd(mode) THEN "done" ELSE "running")
          /\ rtEnd'["server"] = rtEnd["server"]
      BY <1>1, <1>2, <2>1, <3>2 DEF EndsWith
    <3> QED BY <1>1, <2>5, <2>6, <3>3 DEF ClientThere, n, p
  <2>10. UnderWay(mode, u + 1, v, rtToServer', rtToClient')
    <3>1. /\ rtToServer = Between(ClientSays(mode), v - ServerWrote(mode, v), a)
          /\ rtToClient = Between(ServerSays(mode), u - a, ServerWrote(mode, v))
      BY <1>3, <1>5 DEF UnderWay, a
    <3>2. v - ServerWrote(mode, v) \in Nat /\ v - ServerWrote(mode, v) <= a
      BY <1>2, <1>3, ServerNumbers DEF InOrder, a
    <3>3. rtToServer' = Between(ClientSays(mode), v - ServerWrote(mode, v), a + 1)
      BY <2>1, <2>3, <2>7, <3>1, <3>2, BetweenGrows
    <3>4. (u + 1) - (a + 1) = u - a
      BY <2>2, <2>3
    <3> QED BY <1>1, <2>6, <3>1, <3>3, <3>4 DEF UnderWay
  <2>11. /\ DOMAIN rtKeys' = {"client", "server"}
         /\ KeysThere(mode, "client", u + 1, rtKeys') /\ KeysThere(mode, "server", v, rtKeys')
    <3> DEFINE m == Head(rtClient).m
    <3>1. a + 1 \in 1..Len(ClientSays(mode))
      <4>1. ClientWrote(mode, u + 1) <= (IF mode.publish THEN 11 ELSE 10)
        BY <1>2, <2>3, ClientNumbers
      <4> QED BY <1>2, <2>3, <2>6, <4>1, Lengths
    <3>2. m.kind = "c2" <=> a = 2
      BY <1>2, <2>3, <2>7, <3>1, OnlyThirdIsC2
    <3>3. a = 2 <=> u = 5
      BY <2>3, <2>6 DEF ClientWrote, a
    <3>4. u = 5 => (m.n # 0 <=> mode.enc)
      BY <1>2, <2>7, <3>3, SaidKinds
    <3>5. rtKeys' = IF u = 5 THEN [rtKeys EXCEPT !["client"] = Keys(m.n # 0)["client"]] ELSE rtKeys
      BY <2>1, <3>2, <3>3 DEF KeysWith
    <3>6. CASE u = 5
      <4>1. Keys(m.n # 0) = Keys(mode.enc)
        BY <1>2, <3>4, <3>6, ModeTyped DEF Keys
      <4>2. rtKeys' = [rtKeys EXCEPT !["client"] = Keys(mode.enc)["client"]]
        BY <3>5, <3>6, <4>1
      <4> HIDE DEF m
      <4> QED BY <1>3, <3>6, <4>2 DEF KeysThere
    <3>7. CASE u # 5
      <4>1. (u + 1 >= 6) <=> (u >= 6)
        BY <2>3, <3>7
      <4> QED BY <1>3, <3>5, <3>7, <4>1 DEF KeysThere
    <3> QED BY <3>6, <3>7
  <2>12. SessionAt(u + 1, v)'
    BY Zenon, <1>1, <1>3, <1>5, <2>8, <2>9, <2>10, <2>11 DEF SessionAt
  <2> QED BY <2>12
<1> QED BY <1>4, <1>5

LEMMA ClientReadsAt ==
    ASSUME SessionTypes, NEW u, NEW v, SessionAt(u, v), ClientReads
    PROVE  \E x, y : SessionAt(x, y)'
<1> DEFINE mode == rtMode
           p == ClientProgram(mode)
           a == ClientWrote(mode, u)
           b == ServerWrote(mode, v)
           d == ClientDid(mode, u)
           n == Len(p)
           m == Head(rtToClient)
           want == Head(rtClient).m
<1>1. /\ rtEnd["client"] = "running" /\ rtClient # <<>> /\ Head(rtClient).op # "write"
      /\ rtToClient # <<>> /\ rtToClient' = Tail(rtToClient)
      /\ rtMode' = rtMode /\ rtServer' = rtServer /\ rtToServer' = rtToServer
      /\ rtCutOff' = rtCutOff /\ rtServed' = rtServed /\ rtKeys' = rtKeys
      /\ m.kind = want.kind /\ m.n = want.n =>
           rtClient' = Tail(rtClient) /\ EndsWith("client", Tail(rtClient))
      /\ ~(m.kind = want.kind /\ m.n = want.n) =>
           /\ rtClient' = rtClient
           /\ Head(rtClient).op # "read" => rtEnd' = rtEnd
  BY Zenon DEF ClientReads, Running
<1>2. /\ mode \in Modes /\ rtCutOff \in BOOLEAN
      /\ rtEnd \in [{"client", "server"} -> {"running", "failed", "done"}]
  BY DEF SessionTypes
<1>3. /\ InOrder(mode, u, v) /\ ClientThere(mode, u, rtClient, rtEnd["client"])
      /\ ServerThere(mode, v, rtServer, rtEnd["server"])
      /\ ~rtCutOff => /\ UnderWay(mode, u, v, rtToServer, rtToClient)
                      /\ rtEnd["client"] # "failed" /\ rtEnd["server"] # "failed"
      /\ rtCutOff => rtToServer = <<>> /\ rtToClient = <<>>
      /\ DOMAIN rtKeys = {"client", "server"}
      /\ KeysThere(mode, "client", u, rtKeys) /\ KeysThere(mode, "server", v, rtKeys)
      /\ rtServed = ServedAt(mode, v)
  BY Zenon DEF SessionAt
<1>4. ~rtCutOff
  BY <1>1, <1>3
<1>5. /\ u \in 0..ClientEnd(mode) /\ u # ClientEnd(mode) /\ rtClient = Between(p, d, n)
  BY <1>1, <1>3 DEF InOrder, ClientThere
<1>6. /\ u \in 0..(ClientEnd(mode) - 1) /\ u + 1 \in 0..ClientEnd(mode) /\ a \in Nat /\ u - a \in Nat
  BY <1>2, <1>5, ClientPlace
<1>7. /\ Head(rtClient) = p[d + 1] /\ Tail(rtClient) = Between(p, d + 1, n)
      /\ ClientDid(mode, u + 1) = d + 1 => (Tail(rtClient) = <<>> <=> u + 1 = ClientEnd(mode))
  BY <1>2, <1>5, ClientPlace
<1>8. /\ v \in 0..ServerEnd(mode) /\ v - b <= a /\ u - a <= b /\ b \in Nat
  BY <1>2, <1>3, ServerNumbers DEF InOrder
<1>9. /\ rtToServer = Between(ClientSays(mode), v - b, a)
      /\ rtToClient = Between(ServerSays(mode), u - a, b)
  BY <1>3, <1>4 DEF UnderWay
<1>10. u - a < b
  <2>1. u - a = b => rtToClient = <<>>
    BY <1>6, <1>8, <1>9, BetweenEmpty
  <2> QED BY <1>1, <1>6, <1>8, <2>1
<1>11. m = ServerSays(mode)[(u - a) + 1] /\ Tail(rtToClient) = Between(ServerSays(mode), (u - a) + 1, b)
  BY <1>6, <1>8, <1>9, <1>10, BetweenShrinks
<1>12. /\ ClientWrote(mode, u + 1) = a
       /\ \/ Answers(p[d + 1], m) /\ ClientDid(mode, u + 1) = d + 1
          \/ Skips(p[d + 1], m) /\ ClientDid(mode, u + 1) = d
  BY <1>1, <1>2, <1>6, <1>7, <1>11, ClientTable DEF Writes
<1> HIDE DEF p, a, b, d, n, m
<1>13. InOrder(mode, u + 1, v)
  BY <1>6, <1>8, <1>10, <1>12 DEF InOrder, b
<1>14. /\ ClientThere(mode, u + 1, rtClient', rtEnd'["client"]) /\ rtEnd'["server"] = rtEnd["server"]
       /\ rtEnd'["client"] # "failed"
  <2>1. CASE Answers(p[d + 1], m) /\ ClientDid(mode, u + 1) = d + 1
    <3>1. rtClient' = Tail(rtClient) /\ EndsWith("client", Tail(rtClient))
      BY <1>1, <1>7, <2>1 DEF Answers
    <3>2. rtEnd'["client"] = (IF u + 1 = ClientEnd(mode) THEN "done" ELSE "running")
          /\ rtEnd'["server"] = rtEnd["server"]
      BY <1>1, <1>2, <1>7, <2>1, <3>1 DEF EndsWith
    <3> QED BY <1>7, <2>1, <3>1, <3>2 DEF ClientThere, n, p
  <2>2. CASE Skips(p[d + 1], m) /\ ClientDid(mode, u + 1) = d
    <3>1. rtClient' = rtClient /\ rtEnd' = rtEnd
      BY <1>1, <1>7, <2>2 DEF Skips
    <3>2. u + 1 # ClientEnd(mode)
      BY <1>2, <1>5, <1>6, <2>2, ClientNumbers DEF d
    <3> QED BY <1>1, <1>5, <2>2, <3>1, <3>2 DEF ClientThere, n, p
  <2> QED BY <1>12, <2>1, <2>2
<1>15. UnderWay(mode, u + 1, v, rtToServer', rtToClient')
  <2>1. (u + 1) - a = (u - a) + 1
    BY <1>5, <1>6
  <2> QED BY <1>1, <1>9, <1>11, <1>12, <2>1 DEF UnderWay, b
<1>16. KeysThere(mode, "client", u + 1, rtKeys)
  <2>1. u # 5
    BY <1>6, <1>12 DEF ClientWrote, a
  <2>2. (u + 1 >= 6) <=> (u >= 6)
    BY <1>6, <2>1
  <2> QED BY <1>3, <2>2 DEF KeysThere
<1>17. SessionAt(u + 1, v)'
  BY Zenon, <1>1, <1>3, <1>4, <1>13, <1>14, <1>15, <1>16 DEF SessionAt
<1> QED BY <1>17

LEMMA ServerWritesAt ==
    ASSUME SessionTypes, NEW u, NEW v, SessionAt(u, v), ServerWrites
    PROVE  \E x, y : SessionAt(x, y)'
<1> DEFINE mode == rtMode
           p == ServerProgram(mode, v)
           a == ClientWrote(mode, u)
           b == ServerWrote(mode, v)
           d == ServerDid(mode, v)
           n == Len(p)
<1>1. /\ rtEnd["server"] = "running" /\ rtServer # <<>> /\ Head(rtServer).op = "write"
      /\ rtServer' = Tail(rtServer)
      /\ rtMode' = rtMode /\ rtClient' = rtClient /\ rtToServer' = rtToServer
      /\ rtCutOff' = rtCutOff /\ rtServed' = rtServed /\ rtKeys' = rtKeys
  BY Zenon DEF ServerWrites, Running
<1>2. /\ mode \in Modes /\ rtCutOff \in BOOLEAN
      /\ rtEnd \in [{"client", "server"} -> {"running", "failed", "done"}]
  BY DEF SessionTypes
<1>3. /\ InOrder(mode, u, v) /\ ClientThere(mode, u, rtClient, rtEnd["client"])
      /\ ServerThere(mode, v, rtServer, rtEnd["server"])
      /\ ~rtCutOff => /\ UnderWay(mode, u, v, rtToServer, rtToClient)
                      /\ rtEnd["client"] # "failed" /\ rtEnd["server"] # "failed"
      /\ rtCutOff => rtToServer = <<>> /\ rtToClient = <<>>
      /\ DOMAIN rtKeys = {"client", "server"}
      /\ KeysThere(mode, "client", u, rtKeys) /\ KeysThere(mode, "server", v, rtKeys)
      /\ rtServed = ServedAt(mode, v)
  BY Zenon DEF SessionAt
<1>4. CASE rtCutOff
  <2>1. /\ rtEnd' = [rtEnd EXCEPT !["server"] = "failed"] /\ rtToClient' = rtToClient
    BY Zenon, <1>4 DEF ServerWrites, Fails
  <2>2. rtEnd'["server"] = "failed" /\ rtEnd'["client"] = rtEnd["client"]
    BY <1>2, <2>1
  <2>3. SessionAt(u, v)'
    BY Zenon, <1>1, <1>3, <1>4, <2>1, <2>2 DEF SessionAt, ServerThere
  <2> QED BY <2>3
<1>5. CASE ~rtCutOff
  <2>1. /\ rtToClient' = Append(rtToClient, Head(rtServer).m)
        /\ EndsWith("server", Tail(rtServer))
    BY Zenon, <1>5 DEF ServerWrites
  <2>2. v \in 0..ServerEnd(mode) /\ v # ServerEnd(mode) /\ rtServer = Between(p, d, n)
    BY <1>1, <1>3 DEF InOrder, ServerThere
  <2>3. /\ v \in 0..(ServerEnd(mode) - 1) /\ v + 1 \in 0..ServerEnd(mode) /\ b \in Nat
        /\ v - b \in Nat
    BY <1>2, <2>2, ServerPlace
  <2>4. /\ Head(rtServer) = p[d + 1] /\ Tail(rtServer) = Between(p, d + 1, n)
        /\ ServerDid(mode, v + 1) = d + 1 /\ ServerProgram(mode, v + 1) = p =>
             (Tail(rtServer) = <<>> <=> v + 1 = ServerEnd(mode))
    BY <1>2, <2>2, ServerPlace
  <2>5. /\ Writes(p[d + 1], ServerSays(mode)[b + 1])
        /\ ServerWrote(mode, v + 1) = b + 1 /\ ServerDid(mode, v + 1) = d + 1
        /\ v \in (2..4) \cup (10..13) \cup (IF mode.publish THEN {17, 19} ELSE {15} \cup (18..23))
    <3>1. ~Hears(mode, v, p[d + 1], ClientSays(mode)[(v - b) + 1])
      <4>1. p[d + 1].op = "write"
        BY <1>1, <2>4
      <4>2. Await("c0", 0).op # "write" /\ Await("connect", 0).op # "write"
            /\ Await("command", 0).op # "write"
        BY DEF Await, Do
      <4> HIDE DEF p, d, b
      <4> QED BY <4>1, <4>2 DEF Hears, Answers
    <3> QED BY <1>2, <2>3, <3>1, ServerTable
  <2>6. /\ ServerProgram(mode, v + 1) = p /\ ServedAt(mode, v + 1) = ServedAt(mode, v) /\ v # 5
    BY <1>2, <2>5, ServerStays
  <2> HIDE DEF p, a, b, d, n
  <2>7. /\ u \in 0..ClientEnd(mode) /\ v - b <= a /\ u - a <= b /\ a \in Nat /\ u - a \in Nat
    BY <1>2, <1>3, ClientNumbers DEF InOrder, a, b
  <2>8. InOrder(mode, u, v + 1)
    BY <2>3, <2>5, <2>7 DEF InOrder, a
  <2>9. /\ ServerThere(mode, v + 1, rtServer', rtEnd'["server"])
        /\ rtEnd'["client"] = rtEnd["client"] /\ rtEnd'["server"] # "failed"
    <3>1. rtEnd'["server"] = (IF v + 1 = ServerEnd(mode) THEN "done" ELSE "running")
          /\ rtEnd'["client"] = rtEnd["client"]
      BY <1>1, <1>2, <2>1, <2>4, <2>5, <2>6 DEF EndsWith
    <3> QED BY <1>1, <2>4, <2>5, <2>6, <3>1 DEF ServerThere, n, p
  <2>10. UnderWay(mode, u, v + 1, rtToServer', rtToClient')
    <3>1. /\ rtToServer = Between(ClientSays(mode), v - b, a)
          /\ rtToClient = Between(ServerSays(mode), u - a, b)
      BY <1>3, <1>5 DEF UnderWay, a, b
    <3>2. rtToClient' = Between(ServerSays(mode), u - a, b + 1)
      <4>1. Head(rtServer).m = ServerSays(mode)[b + 1]
        BY <2>4, <2>5 DEF Writes
      <4> QED BY <2>1, <2>3, <2>7, <3>1, <4>1, BetweenGrows
    <3>3. (v + 1) - (b + 1) = v - b
      BY <2>2, <2>3
    <3> QED BY <1>1, <2>5, <3>1, <3>2, <3>3 DEF UnderWay, a
  <2>11. KeysThere(mode, "server", v + 1, rtKeys)
    <3>1. (v + 1 >= 6) <=> (v >= 6)
      BY <2>3, <2>6
    <3> QED BY <1>3, <3>1 DEF KeysThere
  <2>12. SessionAt(u, v + 1)'
    BY Zenon, <1>1, <1>3, <1>5, <2>6, <2>8, <2>9, <2>10, <2>11 DEF SessionAt
  <2> QED BY <2>12
<1> QED BY <1>4, <1>5

\* The program after C0, and what is served after play or publish.
LEMMA AfterVersion ==
    ASSUME NEW mode \in Modes
    PROVE  /\ ServerProgram(mode, 1) = (IF Version(mode.enc) = 6 THEN doServerEncrypted ELSE doServerPlain)
                                         \o <<Await("connect", 0)>>
           /\ ServerDid(mode, 1) = 0 /\ Said("c0", Version(mode.enc)).n = Version(mode.enc)
<1>1. (Version(mode.enc) = 6) <=> mode.enc
  BY ModeTyped DEF Version
<1>2. ServerProgram(mode, 1) = (IF mode.enc THEN doServerEncrypted ELSE doServerPlain)
                                 \o <<Await("connect", 0)>> /\ ServerDid(mode, 1) = 0
  BY DEF ServerProgram, ServerDid
<1>3. Said("c0", Version(mode.enc)).n = Version(mode.enc)
  BY DEF Said, Msg
<1>4. CASE mode.enc
  BY <1>1, <1>2, <1>3, <1>4
<1>5. CASE ~mode.enc
  BY <1>1, <1>2, <1>3, <1>5
<1> QED BY <1>4, <1>5

LEMMA AfterPublish ==
    ASSUME NEW mode \in Modes,
           NEW v, (mode.publish /\ v = 18) \/ (~mode.publish /\ v = 17)
    PROVE  ServedAt(mode, v + 1) = [ServedAt(mode, v) EXCEPT !.publish = mode.publish, !.path = mode.path]
<1>1. Told(mode, v) = FALSE /\ Told(mode, v + 1) = TRUE /\ v >= 10 /\ v + 1 >= 10
  BY DEF Told
<1>2. ServedAt(mode, v) = [publish |-> FALSE, path |-> <<>>, app |-> splitPath(mode.path)[1]]
  BY Zenon, <1>1 DEF ServedAt
<1>3. ServedAt(mode, v + 1) = [publish |-> mode.publish, path |-> mode.path, app |-> splitPath(mode.path)[1]]
  <2>1. (TRUE /\ mode.publish) = mode.publish
    BY ModeTyped
  <2> QED BY Zenon, <1>1, <2>1 DEF ServedAt
<1>5. PICK old : ServedAt(mode, v) = [publish |-> old, path |-> <<>>, app |-> splitPath(mode.path)[1]]
  BY <1>2
<1> DEFINE pub == mode.publish
           path == mode.path
           app == splitPath(mode.path)[1]
<1>6. ServedAt(mode, v) = [publish |-> old, path |-> <<>>, app |-> app]
      /\ ServedAt(mode, v + 1) = [publish |-> pub, path |-> path, app |-> app]
  BY <1>3, <1>5
<1> HIDE DEF pub, path, app
<1> DEFINE r == ServedAt(mode, v)
           r2 == ServedAt(mode, v + 1)
<1>7. r = [publish |-> old, path |-> <<>>, app |-> app] /\ r2 = [publish |-> pub, path |-> path, app |-> app]
  BY <1>6
<1> HIDE DEF r, r2
<1>8. r2 = [r EXCEPT !.publish = pub, !.path = path]
  <2> DEFINE r1 == [publish |-> pub, path |-> <<>>, app |-> app]
  <2>1. [r EXCEPT !.publish = pub] = r1
    BY ONLY <1>7
  <2>2. [r1 EXCEPT !.path = path] = r2
    BY ONLY <1>7
  <2>3. [r EXCEPT !.publish = pub, !.path = path] = [[r EXCEPT !.publish = pub] EXCEPT !.path = path]
    BY Zenon
  <2> QED BY Zenon, <2>1, <2>2, <2>3
<1> QED BY Zenon, <1>8 DEF pub, path, r, r2

LEMMA CommandHeard ==
    ASSUME NEW mode, NEW v, NEW step, NEW m, Hears(mode, v, step, m),
           step.op # "read", step # Await("c0", 0), step # Await("connect", 0)
    PROVE  \/ mode.publish /\ v = 14 /\ m = Said("releaseStream", 2)
           \/ mode.publish /\ v = 15 /\ m = Said("FCPublish", 3)
           \/ mode.publish /\ v = 16 /\ m = Said("createStream", 4)
           \/ mode.publish /\ v = 18 /\ m = PublishOf(mode)
           \/ ~mode.publish /\ v = 14 /\ m = Said("createStream", 2)
           \/ ~mode.publish /\ v = 16 /\ m = Said("setBufferLength", 0)
           \/ ~mode.publish /\ v = 17 /\ m = PlayOf(mode)
  BY Zenon DEF Hears

LEMMA ServerReadsAt ==
    ASSUME SessionTypes, NEW u, NEW v, SessionAt(u, v), ServerReads
    PROVE  \E x, y : SessionAt(x, y)'
<1> DEFINE mode == rtMode
           p == ServerProgram(mode, v)
           a == ClientWrote(mode, u)
           b == ServerWrote(mode, v)
           d == ServerDid(mode, v)
           n == Len(p)
           m == Head(rtToServer)
           left(x) == Between(ServerProgram(mode, x), ServerDid(mode, x), Len(ServerProgram(mode, x)))
<1>1. /\ rtEnd["server"] = "running" /\ rtServer # <<>> /\ Head(rtServer).op # "write"
      /\ rtToServer # <<>> /\ rtToServer' = Tail(rtToServer)
      /\ \/ ServerReadsVersion(m) \/ ServerReadsHandshake(m) \/ ServerReadsConnect(m)
         \/ ServerReadsCommand(m) \/ ServerSkips(m)
      /\ rtMode' = rtMode /\ rtClient' = rtClient /\ rtToClient' = rtToClient
      /\ rtCutOff' = rtCutOff
  BY Zenon DEF ServerReads, Running
<1>2. /\ mode \in Modes /\ rtCutOff \in BOOLEAN
      /\ rtEnd \in [{"client", "server"} -> {"running", "failed", "done"}]
  BY DEF SessionTypes
<1>3. /\ InOrder(mode, u, v) /\ ClientThere(mode, u, rtClient, rtEnd["client"])
      /\ ServerThere(mode, v, rtServer, rtEnd["server"])
      /\ ~rtCutOff => /\ UnderWay(mode, u, v, rtToServer, rtToClient)
                      /\ rtEnd["client"] # "failed" /\ rtEnd["server"] # "failed"
      /\ rtCutOff => rtToServer = <<>> /\ rtToClient = <<>>
      /\ DOMAIN rtKeys = {"client", "server"}
      /\ KeysThere(mode, "client", u, rtKeys) /\ KeysThere(mode, "server", v, rtKeys)
      /\ rtServed = ServedAt(mode, v)
  BY Zenon DEF SessionAt
<1>4. ~rtCutOff
  BY <1>1, <1>3
<1>5. v \in 0..ServerEnd(mode) /\ v # ServerEnd(mode) /\ rtServer = Between(p, d, n)
  BY <1>1, <1>3 DEF InOrder, ServerThere
<1>6. v \in 0..(ServerEnd(mode) - 1) /\ v + 1 \in 0..ServerEnd(mode) /\ b \in Nat /\ v - b \in Nat
  BY <1>2, <1>5, ServerPlace
<1>7. Head(rtServer) = p[d + 1] /\ Tail(rtServer) = Between(p, d + 1, n)
  BY <1>2, <1>5, ServerPlace
<1>8. /\ u \in 0..ClientEnd(mode) /\ v - b <= a /\ u - a <= b /\ a \in Nat
  BY <1>2, <1>3, ClientNumbers DEF InOrder
<1>9. /\ rtToServer = Between(ClientSays(mode), v - b, a)
      /\ rtToClient = Between(ServerSays(mode), u - a, b)
  BY <1>3, <1>4 DEF UnderWay
<1>10. v - b < a
  <2>1. v - b = a => rtToServer = <<>>
    BY <1>6, <1>8, <1>9, BetweenEmpty
  <2> QED BY <1>1, <1>6, <1>8, <2>1
<1>11. m = ClientSays(mode)[(v - b) + 1] /\ Tail(rtToServer) = Between(ClientSays(mode), (v - b) + 1, a)
  BY <1>6, <1>8, <1>9, <1>10, BetweenShrinks
<1>12. ServerWrote(mode, v + 1) = b /\ Hears(mode, v, Head(rtServer), m)
  <2>1. ~Writes(p[d + 1], ServerSays(mode)[b + 1])
    BY <1>1, <1>7 DEF Writes
  <2> QED BY <1>2, <1>6, <1>7, <1>11, <2>1, ServerTable
<1> DEFINE step == Head(rtServer)
<1> HIDE DEF m, b, a, step
<1>13. \A x \in 0..ServerEnd(mode) :
         ServerDid(mode, x) = 0 => left(x) = ServerProgram(mode, x)
  BY <1>2, ServerLengths, BetweenWhole
<1>14. rtServer = left(v) /\ mode.publish \in BOOLEAN /\ mode.enc \in BOOLEAN /\ v \in Nat
  BY <1>2, <1>5, <1>6, ModeTyped
<1>15. /\ Await("c0", 0).op = "await" /\ Await("c0", 0).m.kind = "c0"
       /\ Await("connect", 0).op = "await" /\ Await("connect", 0).m.kind = "connect"
       /\ Await("command", 0).op = "await" /\ Await("command", 0).m.kind = "command"
  BY DEF Await, Do, Msg
<1>16. /\ rtServer' = left(v + 1) /\ rtEnd' = rtEnd /\ rtServed' = ServedAt(mode, v + 1)
       /\ DOMAIN rtKeys' = {"client", "server"} /\ rtKeys'["client"] = rtKeys["client"]
       /\ KeysThere(mode, "server", v + 1, rtKeys')
  <2> USE <1>1, <1>12, <1>15 DEF step
  <2>1. CASE v = 0
    <3>1. step = Await("c0", 0) /\ m = Said("c0", Version(mode.enc))
      BY <2>1 DEF Hears
    <3>2. m.kind = "c0" /\ (m.n = 6 <=> mode.enc)
      BY <1>14, <3>1 DEF Said, Msg, Version
    <3>3. ServerReadsVersion(m)
      BY <3>1, <3>2
      DEF ServerReadsHandshake, ServerReadsConnect, ServerReadsCommand, ServerSkips
    <3>4. ServerProgram(mode, 1) = (IF m.n = 6 THEN doServerEncrypted ELSE doServerPlain)
                                     \o <<Await("connect", 0)>>
          /\ ServerDid(mode, 1) = 0
      <4>1. m.n = Version(mode.enc)
        BY <1>2, <3>1, AfterVersion
      <4> QED BY <1>2, <4>1, AfterVersion
    <3>5. rtServer' = left(1)
      <4>1. rtServer' = ServerProgram(mode, 1)
        BY <3>3, <3>4 DEF ServerReadsVersion
      <4>2. 1 \in 0..ServerEnd(mode)
        BY <1>6, <2>1
      <4> QED BY <1>13, <3>4, <4>1, <4>2
    <3>6. ServedAt(mode, 1) = ServedAt(mode, 0)
      BY DEF ServedAt, Told
    <3>7. KeysThere(mode, "server", 1, rtKeys)
      BY <1>3, <2>1 DEF KeysThere
    <3> QED BY <1>3, <2>1, <3>3, <3>5, <3>6, <3>7 DEF ServerReadsVersion
  <2>2. CASE v \in {1, 5}
    <3>1. step.op = "read" /\ Answers(step, m) /\ m.kind = (IF v = 1 THEN "c1" ELSE "c2")
      BY <2>2 DEF Hears
    <3>2. ServerReadsHandshake(m)
      BY <2>2, <3>1
      DEF ServerReadsVersion, ServerReadsConnect, ServerReadsCommand, ServerSkips, Answers
    <3>3. rtServer' = Tail(rtServer) /\ rtEnd' = rtEnd /\ KeysWith("server", m) /\ rtServed' = rtServed
      BY <3>1, <3>2 DEF ServerReadsHandshake, Answers
    <3>4. /\ ServerProgram(mode, v + 1) = p /\ ServerDid(mode, v + 1) = d + 1
          /\ ServedAt(mode, v + 1) = ServedAt(mode, v)
      BY <2>2 DEF ServerProgram, ServerDid, ServedAt, Told
    <3>5. rtServer' = left(v + 1)
      BY <1>7, <3>3, <3>4
    <3>6. /\ DOMAIN rtKeys' = {"client", "server"} /\ rtKeys'["client"] = rtKeys["client"]
          /\ KeysThere(mode, "server", v + 1, rtKeys')
      <4>1. CASE v = 1
        BY <1>3, <3>1, <3>3, <4>1 DEF KeysWith, KeysThere
      <4>2. CASE v = 5
        <5>1. m.n # 0 <=> mode.enc
          <6>1. b = 3
            BY <4>2 DEF ServerWrote, b
          <6> QED BY <1>2, <1>11, <4>2, <6>1, SaidKinds
        <5>2. Keys(m.n # 0) = Keys(mode.enc)
          BY <1>14, <5>1 DEF Keys
        <5>3. rtKeys' = [rtKeys EXCEPT !["server"] = Keys(mode.enc)["server"]]
          <6>1. m.kind = "c2"
            BY <3>1, <4>2
          <6> QED BY Zenon, <3>3, <5>2, <6>1 DEF KeysWith
        <5> QED BY <1>3, <4>2, <5>3 DEF KeysThere
      <4> QED BY <2>2, <4>1, <4>2
    <3> QED BY <1>3, <3>3, <3>4, <3>5, <3>6
  <2>3. CASE v \in {6, 7, 8}
    <3>1. step = Await("connect", 0) /\ m.kind \in {"setWindowAckSize", "setPeerBandwidth", "setChunkSize"}
      BY <2>3 DEF Hears
    <3>2. m.kind \notin Commands
      BY <3>1 DEF Commands
    <3>3. ServerSkips(m)
      BY <3>1, <3>2
      DEF ServerReadsVersion, ServerReadsHandshake, ServerReadsConnect, ServerReadsCommand
    <3>4. /\ ServerProgram(mode, v + 1) = p /\ ServerDid(mode, v + 1) = d
          /\ ServedAt(mode, v + 1) = ServedAt(mode, v) /\ v >= 6 /\ v + 1 >= 6
      BY <2>3 DEF ServerProgram, ServerDid, ServedAt, Told
    <3> QED BY <1>3, <1>14, <3>3, <3>4 DEF ServerSkips, KeysThere
  <2>4. CASE v = 9
    <3>1. step = Await("connect", 0) /\ m = ConnectOf(mode)
      BY <2>4 DEF Hears
    <3>2. m.kind = "connect" /\ m.path = splitPath(mode.path)[1] /\ m.kind \in Commands
      BY <3>1 DEF ConnectOf, Msg, Commands
    <3>3. ServerReadsConnect(m)
      BY <3>1, <3>2
      DEF ServerReadsVersion, ServerReadsHandshake, ServerReadsCommand, ServerSkips
    <3>4. ServerProgram(mode, 10) = ServerConnected(m) /\ ServerDid(mode, 10) = 0
      BY <3>1 DEF ServerProgram, ServerDid
    <3>5. rtServer' = left(10)
      <4>1. rtServer' = ServerProgram(mode, 10)
        BY <3>2, <3>3, <3>4 DEF ServerReadsConnect
      <4>2. 10 \in 0..ServerEnd(mode)
        BY <1>6, <2>4
      <4> QED BY <1>13, <3>4, <4>1, <4>2
    <3>6. rtServed' = ServedAt(mode, 10)
      <4>1. ServedAt(mode, 10) = [ServedAt(mode, 9) EXCEPT !.app = m.path]
        BY <1>14, <3>2 DEF ServedAt, Told
      <4> QED BY <1>3, <2>4, <3>2, <3>3, <4>1 DEF ServerReadsConnect
    <3> QED BY <1>3, <2>4, <3>2, <3>3, <3>5, <3>6 DEF ServerReadsConnect, KeysThere
  <2>5. CASE step = Await("command", 0)
    <3>1. \/ mode.publish /\ v = 14 /\ m = Said("releaseStream", 2)
          \/ mode.publish /\ v = 15 /\ m = Said("FCPublish", 3)
          \/ mode.publish /\ v = 16 /\ m = Said("createStream", 4)
          \/ mode.publish /\ v = 18 /\ m = PublishOf(mode)
          \/ ~mode.publish /\ v = 14 /\ m = Said("createStream", 2)
          \/ ~mode.publish /\ v = 16 /\ m = Said("setBufferLength", 0)
          \/ ~mode.publish /\ v = 17 /\ m = PlayOf(mode)
      <4>1. step.m.kind = "command" /\ step.op = "await"
        BY <2>5
      <4>2. step # Await("c0", 0) /\ step # Await("connect", 0)
        BY <4>1
      <4>3. step.op # "read"
        BY <4>1
      <4>4. Hears(mode, v, step, m)
        BY <1>12
      <4> HIDE DEF step
      <4> QED BY <4>2, <4>3, <4>4, CommandHeard
    <3>2. v >= 6 /\ v + 1 >= 6
      BY <3>1
    <3>3. /\ Said("releaseStream", 2).kind = "releaseStream" /\ Said("FCPublish", 3).kind = "FCPublish"
          /\ Said("createStream", 4).kind = "createStream" /\ Said("createStream", 2).kind = "createStream"
          /\ Said("setBufferLength", 0).kind = "setBufferLength"
          /\ PublishOf(mode).kind = "publish" /\ PlayOf(mode).kind = "play"
          /\ PublishOf(mode).path = splitPath(mode.path)[2] /\ PlayOf(mode).path = splitPath(mode.path)[2]
      BY DEF Said, Msg, PublishOf, PlayOf
    <3>4. m.kind # "setBufferLength" => ServerReadsCommand(m)
      <4>1. m.kind # "setBufferLength" => m.kind \in Commands /\ m.kind # "c0"
        BY <3>1, <3>3 DEF Commands
      <4> QED BY <2>5, <4>1 DEF ServerReadsVersion, ServerReadsHandshake, ServerReadsConnect, ServerSkips
    <3>5. ASSUME mode.publish, v \in {14, 15}
          PROVE  /\ rtServer' = left(v + 1) /\ rtEnd' = rtEnd /\ rtServed' = ServedAt(mode, v + 1)
                 /\ rtKeys' = rtKeys
      <4>1. m.kind \in {"releaseStream", "FCPublish"}
        BY <3>1, <3>3, <3>5
      <4>2. rtServer' = rtServer /\ rtEnd' = rtEnd /\ rtServed' = rtServed /\ rtKeys' = rtKeys
        BY <3>4, <4>1 DEF ServerReadsCommand
      <4>3. /\ ServerProgram(mode, v + 1) = p /\ ServerDid(mode, v + 1) = d
            /\ ServedAt(mode, v + 1) = ServedAt(mode, v)
        BY <3>5 DEF ServerProgram, ServerDid, ServedAt, Told
      <4> QED BY <1>3, <1>14, <4>2, <4>3
    <3>6. ASSUME m.kind = "createStream"
          PROVE  /\ rtServer' = left(v + 1) /\ rtEnd' = rtEnd /\ rtServed' = ServedAt(mode, v + 1)
                 /\ rtKeys' = rtKeys
      <4>1. \/ mode.publish /\ v = 16 /\ m = Said("createStream", 4)
            \/ ~mode.publish /\ v = 14 /\ m = Said("createStream", 2)
        BY <3>1, <3>3, <3>6
      <4>2. rtServer' = ServerCreateStream(m) /\ rtEnd' = rtEnd /\ rtServed' = rtServed /\ rtKeys' = rtKeys
        BY <3>4, <3>6 DEF ServerReadsCommand
      <4>3. /\ ServerProgram(mode, v + 1) = ServerCreateStream(m) /\ ServerDid(mode, v + 1) = 0
            /\ ServedAt(mode, v + 1) = ServedAt(mode, v)
        BY <4>1 DEF ServerProgram, ServerDid, ServedAt, Told
      <4> QED BY <1>3, <1>6, <1>13, <4>2, <4>3
    <3>7. ASSUME m.kind \in {"play", "publish"}
          PROVE  /\ rtServer' = left(v + 1) /\ rtEnd' = rtEnd /\ rtServed' = ServedAt(mode, v + 1)
                 /\ rtKeys' = rtKeys
      <4>1. \/ mode.publish /\ v = 18 /\ m = PublishOf(mode)
            \/ ~mode.publish /\ v = 17 /\ m = PlayOf(mode)
        BY <3>1, <3>3, <3>7
      <4>2. /\ rtServer' = IF mode.publish THEN ServerPublish(m) ELSE ServerPlay(m)
            /\ rtEnd' = rtEnd /\ rtKeys' = rtKeys
            /\ rtServed' = [rtServed EXCEPT !.publish = m.kind = "publish",
                                            !.path = createURL(rtServed.app, m.path)]
        BY <3>3, <3>4, <3>7, <4>1 DEF ServerReadsCommand
      <4>3. /\ ServerProgram(mode, v + 1) = (IF mode.publish THEN ServerPublish(m) ELSE ServerPlay(m))
            /\ ServerDid(mode, v + 1) = 0
        BY <4>1 DEF ServerProgram, ServerDid
      <4>4. createURL(splitPath(mode.path)[1], splitPath(mode.path)[2]) = mode.path
        BY <1>2, ModeTyped, UrlsSurvive
      <4>5. rtServed.app = splitPath(mode.path)[1]
        BY <1>3, <4>1 DEF ServedAt, Told
      <4>6. rtServed' = [rtServed EXCEPT !.publish = mode.publish, !.path = mode.path]
        <5>1. CASE mode.publish
          <6>1. (m.kind = "publish") = TRUE /\ mode.publish = TRUE /\ m.path = splitPath(mode.path)[2]
            BY <1>14, <3>3, <4>1, <5>1
          <6> QED BY Zenon, <4>2, <4>4, <4>5, <6>1
        <5>2. CASE ~mode.publish
          <6>1. (m.kind = "publish") = FALSE /\ mode.publish = FALSE /\ m.path = splitPath(mode.path)[2]
            BY <1>14, <3>3, <4>1, <5>2
          <6> QED BY Zenon, <4>2, <4>4, <4>5, <6>1
        <5> QED BY <5>1, <5>2
      <4>7. rtServed' = ServedAt(mode, v + 1)
        <5>1. (mode.publish /\ v = 18) \/ (~mode.publish /\ v = 17)
          BY <4>1
        <5>2. ServedAt(mode, v + 1) = [ServedAt(mode, v) EXCEPT !.publish = mode.publish, !.path = mode.path]
          BY <1>2, <5>1, AfterPublish
        <5> QED BY Zenon, <1>3, <4>6, <5>2
      <4> QED BY <1>6, <1>13, <4>2, <4>3, <4>7
    <3>8. ASSUME m.kind = "setBufferLength"
          PROVE  /\ rtServer' = left(v + 1) /\ rtEnd' = rtEnd /\ rtServed' = ServedAt(mode, v + 1)
                 /\ rtKeys' = rtKeys
      <4>1. ~mode.publish /\ v = 16
        BY <3>1, <3>3, <3>8
      <4>2. m.kind \notin Commands
        BY <3>8 DEF Commands
      <4>3. ServerSkips(m)
        BY <2>5, <3>8, <4>2
        DEF ServerReadsVersion, ServerReadsHandshake, ServerReadsConnect, ServerReadsCommand
      <4>4. /\ ServerProgram(mode, v + 1) = p /\ ServerDid(mode, v + 1) = d
            /\ ServedAt(mode, v + 1) = ServedAt(mode, v)
        BY <4>1 DEF ServerProgram, ServerDid, ServedAt, Told
      <4> QED BY <1>3, <1>14, <4>3, <4>4 DEF ServerSkips
    <3>9. /\ rtServer' = left(v + 1) /\ rtEnd' = rtEnd /\ rtServed' = ServedAt(mode, v + 1)
          /\ rtKeys' = rtKeys
      BY <3>1, <3>3, <3>5, <3>6, <3>7, <3>8
    <3> QED BY <1>3, <3>2, <3>9 DEF KeysThere
  <2>6. v = 0 \/ v \in {1, 5} \/ v \in {6, 7, 8} \/ v = 9 \/ step = Await("command", 0)
    BY DEF Hears
  <2> QED BY <2>1, <2>2, <2>3, <2>4, <2>5, <2>6
<1>17. InOrder(mode, u, v + 1)
  BY <1>6, <1>8, <1>10, <1>12 DEF InOrder, a
<1>18. ServerThere(mode, v + 1, rtServer', rtEnd'["server"])
  <2>1. v + 1 # ServerEnd(mode)
    BY <1>2, <1>5, <1>6, <1>12, <1>14 DEF Hears, ServerEnd, ServerWrote, b
  <2> QED BY <1>1, <1>16, <2>1 DEF ServerThere
<1>19. UnderWay(mode, u, v + 1, rtToServer', rtToClient')
  <2>1. (v + 1) - b = (v - b) + 1
    BY <1>5, <1>6
  <2> QED BY <1>1, <1>9, <1>11, <1>12, <2>1 DEF UnderWay, a
<1>20. KeysThere(mode, "client", u, rtKeys')
  BY <1>3, <1>16 DEF KeysThere
<1>21. SessionAt(u, v + 1)'
  BY Zenon, <1>1, <1>3, <1>4, <1>16, <1>17, <1>18, <1>19, <1>20 DEF SessionAt
<1> QED BY <1>21

\* A broken connection moves nobody.
LEMMA SessionStays ==
    ASSUME SessionTypes, NEW u, NEW v, SessionAt(u, v), CutOff \/ ReadsFail \/ UNCHANGED rtVars
    PROVE  \E x, y : SessionAt(x, y)'
<1>2. rtEnd \in [{"client", "server"} -> {"running", "failed", "done"}]
  BY DEF SessionTypes
<1>4. CASE CutOff
  <2>1. /\ rtCutOff' = TRUE /\ rtToClient' = <<>> /\ rtToServer' = <<>>
        /\ rtMode' = rtMode /\ rtClient' = rtClient /\ rtServer' = rtServer /\ rtEnd' = rtEnd
        /\ rtKeys' = rtKeys /\ rtServed' = rtServed
    BY <1>4 DEF CutOff
  <2>2. SessionAt(u, v)'
    BY Zenon, <2>1 DEF SessionAt
  <2> QED BY <2>2
<1>5. CASE ReadsFail
  <2>1. /\ rtCutOff /\ (Fails("client") \/ Fails("server"))
        /\ rtMode' = rtMode /\ rtClient' = rtClient /\ rtServer' = rtServer
        /\ rtToServer' = rtToServer /\ rtToClient' = rtToClient /\ rtCutOff' = rtCutOff
        /\ rtKeys' = rtKeys /\ rtServed' = rtServed
    BY Zenon, <1>5 DEF ReadsFail, ReadFails
  <2>2. /\ rtEnd'["client"] = "failed" \/ rtEnd'["client"] = rtEnd["client"]
        /\ rtEnd'["server"] = "failed" \/ rtEnd'["server"] = rtEnd["server"]
    BY <1>2, <2>1 DEF Fails
  <2>3. ClientThere(rtMode, u, rtClient, rtEnd'["client"])
    BY Zenon, <2>2 DEF SessionAt, ClientThere
  <2>4. ServerThere(rtMode, v, rtServer, rtEnd'["server"])
    BY Zenon, <2>2 DEF SessionAt, ServerThere
  <2>5. SessionAt(u, v)'
    BY Zenon, <2>1, <2>3, <2>4 DEF SessionAt
  <2> QED BY <2>5
<1>6. CASE UNCHANGED rtVars
  <2>1. SessionAt(u, v)'
    BY Zenon, <1>6 DEF rtVars, SessionAt
  <2> QED BY <2>1
<1> QED BY <1>4, <1>5, <1>6

\* The two sides are somewhere in the conversation.
SessionInv == SessionTypes /\ \E u, v : SessionAt(u, v)

LEMMA SessionInvStep == SessionInv /\ [SessionNext]_rtVars => SessionInv'
<1> SUFFICES ASSUME SessionInv, [SessionNext]_rtVars PROVE SessionInv'
  OBVIOUS
<1>1. SessionTypes /\ SessionTypes'
  BY SessionTypesStep DEF SessionInv
<1>2. PICK u, v : SessionAt(u, v)
  BY DEF SessionInv
<1>3. \E x, y : SessionAt(x, y)'
  <2>1. CASE ClientWrites
    BY <1>1, <1>2, <2>1, ClientWritesAt
  <2>2. CASE ClientReads
    BY <1>1, <1>2, <2>2, ClientReadsAt
  <2>3. CASE ServerWrites
    BY <1>1, <1>2, <2>3, ServerWritesAt
  <2>4. CASE ServerReads
    BY <1>1, <1>2, <2>4, ServerReadsAt
  <2>5. CASE CutOff \/ ReadsFail \/ UNCHANGED rtVars
    BY <1>1, <1>2, <2>5, SessionStays
  <2> QED BY <2>1, <2>2, <2>3, <2>4, <2>5 DEF SessionNext
<1> QED BY Zenon, <1>1, <1>3 DEF SessionInv

LEMMA SessionInvInit == SessionInit => SessionInv
<1> SUFFICES ASSUME SessionInit PROVE SessionInv
  OBVIOUS
<1> DEFINE mode == rtMode
<1>1. SessionTypes /\ mode \in Modes /\ rtClient = ClientProgram(mode)
  BY Zenon, SessionTypesInit DEF SessionInit, SessionTypes, Modes, ClientProgram
<1>2. /\ rtServer = <<Await("c0", 0)>> /\ rtToServer = <<>> /\ rtToClient = <<>>
      /\ rtCutOff = FALSE
      /\ rtEnd = [s \in {"client", "server"} |-> "running"]
      /\ rtKeys = [s \in {"client", "server"} |-> <<"none", "none">>]
      /\ rtServed = [publish |-> FALSE, path |-> <<>>, app |-> <<>>]
  BY Zenon DEF SessionInit
<1>3. /\ ClientWrote(mode, 0) = 0 /\ ClientDid(mode, 0) = 0
      /\ ServerWrote(mode, 0) = 0 /\ ServerDid(mode, 0) = 0
      /\ ServerProgram(mode, 0) = <<Await("c0", 0)>>
      /\ 0 \in 0..ClientEnd(mode) /\ 0 \in 0..ServerEnd(mode)
      /\ 0 # ClientEnd(mode) /\ 0 # ServerEnd(mode) /\ 0 - 0 = 0 /\ 0 <= 0 /\ ~(0 >= 6)
  BY DEF ClientWrote, ClientDid, ServerWrote, ServerDid, ServerProgram, ClientEnd, ServerEnd
<1>4. InOrder(mode, 0, 0)
  BY <1>3 DEF InOrder
<1>5. ClientThere(mode, 0, rtClient, rtEnd["client"])
  <2>1. rtClient = Between(rtClient, 0, Len(rtClient))
    BY <1>1, ClientTyped, BetweenWhole
  <2> QED BY <1>1, <1>2, <1>3, <2>1 DEF ClientThere
<1>6. ServerThere(mode, 0, rtServer, rtEnd["server"])
  <2>1. rtServer = Between(rtServer, 0, Len(rtServer))
    BY <1>1, BetweenWhole DEF SessionTypes
  <2> QED BY <1>2, <1>3, <2>1 DEF ServerThere
<1>7. UnderWay(mode, 0, 0, rtToServer, rtToClient)
  <2>1. Between(ClientSays(mode), 0, 0) = <<>> /\ Between(ServerSays(mode), 0, 0) = <<>>
    BY BetweenEmpty
  <2> QED BY <1>2, <1>3, <2>1 DEF UnderWay
<1>8. KeysThere(mode, "client", 0, rtKeys) /\ KeysThere(mode, "server", 0, rtKeys)
      /\ DOMAIN rtKeys = {"client", "server"}
  BY <1>2, <1>3 DEF KeysThere
<1>9. rtServed = ServedAt(mode, 0)
  <2>1. Told(mode, 0) = FALSE /\ ~(0 >= 10)
    BY DEF Told
  <2> QED BY Zenon, <1>2, <2>1 DEF ServedAt
<1>10. rtEnd["client"] # "failed" /\ rtEnd["server"] # "failed"
  BY <1>2
<1>11. SessionAt(0, 0)
  BY Zenon, <1>2, <1>4, <1>5, <1>6, <1>7, <1>8, <1>9, <1>10 DEF SessionAt
<1> QED BY <1>1, <1>11 DEF SessionInv

LEMMA SessionInvariant == SessionSpec => []SessionInv
  BY SessionInvInit, SessionInvStep, PTL DEF SessionSpec

\* Where a client reads a server writes: between the same numbers of messages
\* there is never a read on both sides.
LEMMA Dual ==
    ASSUME NEW mode \in Modes, NEW k \in Nat, k < ClientEnd(mode), k < ServerEnd(mode),
           ClientWrote(mode, k + 1) = ClientWrote(mode, k),
           ServerWrote(mode, k + 1) = ServerWrote(mode, k)
    PROVE  FALSE
<1>1. k < 21 /\ (mode.publish => k < 20)
  BY DEF ClientEnd
<1>2. mode.publish \in BOOLEAN
  BY ModeTyped
<1>3. k <= 9 \/ k \in 10..13 \/ k >= 14
  OBVIOUS
<1>4. CASE k <= 9
  BY <1>4 DEF ClientWrote, ServerWrote
<1>5. CASE k \in 10..13
  BY <1>5 DEF ClientWrote, ServerWrote
<1>6. CASE k >= 14 /\ mode.publish
  BY <1>1, <1>6 DEF ClientWrote, ServerWrote
<1>7. CASE k >= 14 /\ ~mode.publish
  BY <1>1, <1>7 DEF ClientWrote, ServerWrote
<1> QED BY <1>2, <1>3, <1>4, <1>5, <1>6, <1>7

\* The type invariant of the opening of a connection.
THEOREM SessionTypeCorrect == SessionSpec => []SessionTypeOK
<1>1. SessionInv => SessionTypeOK
  <2> SUFFICES ASSUME SessionInv PROVE SessionTypeOK
    OBVIOUS
  <2>1. SessionTypes
    BY DEF SessionInv
  <2>2. \A s \in Seq(RtSteps) : \A i \in 1..Len(s) : s[i].op \in {"write", "read", "await"}
    <3> SUFFICES ASSUME NEW s \in Seq(RtSteps), NEW i \in 1..Len(s)
                 PROVE  s[i].op \in {"write", "read", "await"}
      OBVIOUS
    <3>1. s[i] \in RtSteps
      OBVIOUS
    <3> QED BY <3>1 DEF RtSteps
  <2>3. rtServed.publish \in BOOLEAN
    BY <2>1 DEF SessionTypes
  <2> QED BY Zenon, <2>1, <2>2, <2>3 DEF SessionTypes, SessionTypeOK
<1> QED BY <1>1, SessionInvariant, PTL

\* A client and a server of the package agree, for URLs with any number of
\* segments: nobody refuses the other, they never wait for each other, and
\* once the client has its onStatus the server serves the path it asked for,
\* with keys that match.
THEOREM SessionsAgree == SessionSpec => []SessionAgrees
<1>1. SessionInv => SessionAgrees
  <2> SUFFICES ASSUME SessionInv PROVE SessionAgrees
    OBVIOUS
  <2> DEFINE mode == rtMode
  <2>1. PICK u, v : SessionAt(u, v)
    BY DEF SessionInv
  <2>2. mode \in Modes
    BY DEF SessionInv, SessionTypes
  <2>3. /\ InOrder(mode, u, v) /\ ClientThere(mode, u, rtClient, rtEnd["client"])
        /\ ServerThere(mode, v, rtServer, rtEnd["server"])
        /\ ~rtCutOff => /\ UnderWay(mode, u, v, rtToServer, rtToClient)
                        /\ rtEnd["client"] # "failed" /\ rtEnd["server"] # "failed"
        /\ KeysThere(mode, "client", u, rtKeys) /\ KeysThere(mode, "server", v, rtKeys)
        /\ rtServed = ServedAt(mode, v)
    BY Zenon, <2>1 DEF SessionAt
  <2> DEFINE a == ClientWrote(mode, u)
             b == ServerWrote(mode, v)
  <2>4. /\ u \in 0..ClientEnd(mode) /\ v \in 0..ServerEnd(mode)
        /\ a \in Nat /\ b \in Nat /\ u - a \in Nat /\ v - b \in Nat
        /\ v - b <= a /\ u - a <= b
    BY <2>2, <2>3, ClientNumbers, ServerNumbers DEF InOrder
  <2>5. ~rtCutOff => \A s \in {"client", "server"} : rtEnd[s] # "failed"
    BY <2>3
  <2>6. ~(~rtCutOff /\ Waits("client", rtClient, rtToClient) /\ Waits("server", rtServer, rtToServer))
    <3> SUFFICES ASSUME ~rtCutOff, Waits("client", rtClient, rtToClient),
                        Waits("server", rtServer, rtToServer)
                 PROVE  FALSE
      BY Zenon
    <3>1. /\ rtEnd["client"] = "running" /\ rtClient # <<>> /\ Head(rtClient).op # "write"
          /\ rtEnd["server"] = "running" /\ rtServer # <<>> /\ Head(rtServer).op # "write"
          /\ rtToClient = <<>> /\ rtToServer = <<>>
      BY Zenon DEF Waits, Running
    <3>2. /\ u # ClientEnd(mode) /\ v # ServerEnd(mode)
          /\ rtClient = Between(ClientProgram(mode), ClientDid(mode, u), Len(ClientProgram(mode)))
          /\ rtServer = Between(ServerProgram(mode, v), ServerDid(mode, v), Len(ServerProgram(mode, v)))
      BY <2>3, <3>1 DEF ClientThere, ServerThere
    <3>3. Head(rtClient) = ClientProgram(mode)[ClientDid(mode, u) + 1] /\ u \in 0..(ClientEnd(mode) - 1)
      BY <2>2, <2>4, <3>2, ClientPlace
    <3>4. Head(rtServer) = ServerProgram(mode, v)[ServerDid(mode, v) + 1] /\ v \in 0..(ServerEnd(mode) - 1)
      BY <2>2, <2>4, <3>2, ServerPlace
    <3>5. ClientWrote(mode, u + 1) = a
      BY <2>2, <3>1, <3>3, ClientTable DEF Writes
    <3>6. ServerWrote(mode, v + 1) = b
      BY <2>2, <3>1, <3>4, ServerTable DEF Writes
    <3>7. v - b = a /\ u - a = b
      <4>1. /\ rtToServer = Between(ClientSays(mode), v - b, a)
            /\ rtToClient = Between(ServerSays(mode), u - a, b)
        BY <2>3 DEF UnderWay
      <4>2. ~(v - b < a) /\ ~(u - a < b)
        BY <2>4, <3>1, <4>1, BetweenEmpty
      <4> HIDE DEF a, b
      <4> QED BY <2>4, <4>2
    <3>8. u = v /\ u \in Nat /\ u < ClientEnd(mode) /\ u < ServerEnd(mode)
      <4> HIDE DEF a, b
      <4>1. ClientEnd(mode) \in Nat /\ ServerEnd(mode) \in Nat
        BY DEF ClientEnd, ServerEnd
      <4> QED BY <2>4, <3>2, <3>7, <4>1
    <3> QED BY <2>2, <3>5, <3>6, <3>8, Dual
  <2>7. ASSUME rtEnd["client"] = "done"
        PROVE  /\ rtServed.publish = rtMode.publish /\ rtServed.path = rtMode.path
               /\ rtKeys["client"][1] = rtKeys["server"][2]
               /\ rtKeys["client"][2] = rtKeys["server"][1]
    <3>1. u = ClientEnd(mode)
      BY <2>3, <2>7 DEF ClientThere
    <3>2. Told(mode, v) = TRUE /\ u >= 6 /\ v >= 6
      <4>1. CASE mode.publish
        <5>1. u = 20 /\ a = 11 /\ v \in Nat /\ b >= 9
          BY <2>4, <3>1, <4>1 DEF ClientEnd, ClientWrote, ServerEnd
        <5>2. v >= 19
          BY <4>1, <5>1 DEF ServerWrote
        <5> QED BY <4>1, <5>1, <5>2 DEF Told
      <4>2. CASE ~mode.publish
        <5>1. u = 21 /\ a = 10 /\ v \in Nat /\ b >= 11
          BY <2>4, <3>1, <4>2 DEF ClientEnd, ClientWrote, ServerEnd
        <5>2. v >= 18
          BY <4>2, <5>1 DEF ServerWrote
        <5> QED BY <4>2, <5>1, <5>2 DEF Told
      <4> QED BY <4>1, <4>2
    <3>3. rtServed.publish = rtMode.publish /\ rtServed.path = rtMode.path
      <4>1. (TRUE /\ mode.publish) = mode.publish
        BY <2>2, ModeTyped
      <4>2. rtServed = [publish |-> mode.publish, path |-> mode.path,
                        app |-> IF v >= 10 THEN splitPath(mode.path)[1] ELSE <<>>]
        BY Zenon, <2>3, <3>2, <4>1 DEF ServedAt
      <4> QED BY Zenon, <4>2
    <3>4. rtKeys["client"] = Keys(mode.enc)["client"] /\ rtKeys["server"] = Keys(mode.enc)["server"]
      BY Zenon, <2>3, <3>2 DEF KeysThere
    <3>5. /\ Keys(mode.enc)["client"][1] = Keys(mode.enc)["server"][2]
          /\ Keys(mode.enc)["client"][2] = Keys(mode.enc)["server"][1]
      BY DEF Keys
    <3> QED BY Zenon, <3>3, <3>4, <3>5
  <2> QED BY Zenon, <2>5, <2>6, <2>7 DEF SessionAgrees
<1> QED BY <1>1, SessionInvariant, PTL

-----------------------------------------------------------------------------
(* The servers, the path manager and the core together.                      *)

serversVars == <<pmVars, hlVars, mcVars, rtVars, rsVars, wtVars, crVars, ccVars, part>>

\* The components keep their types next to one another.
THEOREM ServersTypesCorrect == ServersInit /\ [][ServersNext]_serversVars => []ServersTypeOK
<1>1. ServersInit => /\ PmInit /\ HlsInit /\ McInit /\ SessionInit
                     /\ RtspInit /\ WtInit /\ CoreInit /\ ConfInit
  BY Zenon DEF ServersInit
<1>2. [ServersNext]_serversVars =>
        /\ [PmNext]_pmVars /\ [HlsNext]_hlVars /\ [McNext]_mcVars /\ [SessionNext]_rtVars
        /\ [RtspNext]_rsVars /\ [WtNext]_wtVars /\ [CoreNext]_crVars /\ [ConfNext]_ccVars
  BY Zenon DEF ServersNext, serversVars
<1>3. McInv => McTypeOK
  BY Zenon DEF McInv
<1>4. RtspInv => RtspTypeOK
  BY Zenon DEF RtspInv
<1>5. WtInv => WtTypeOK
  BY Zenon DEF WtInv
<1>6. PmTypeOK /\ HlsTypeOK /\ McTypeOK /\ SessionTypeOK /\ RtspTypeOK /\ WtTypeOK /\ CoreTypeOK
        /\ ConfTypeOK => ServersTypeOK
  BY Zenon DEF ServersTypeOK
<1> DEFINE Together == ServersInit /\ [][ServersNext]_serversVars
<1>7. Together => []PmTypeOK
  <2>1. PmInv => PmTypeOK
    BY Zenon DEF PmInv
  <2> QED BY <1>1, <1>2, <2>1, ManagerSafe, PTL
<1>8. Together => []HlsTypeOK
  BY <1>1, <1>2, HlsTypeCorrect, PTL DEF HlsSpec
<1>9. Together => []McTypeOK
  BY <1>1, <1>2, <1>3, McInvariant, PTL DEF McSpec
<1>10. Together => []SessionTypeOK
  BY <1>1, <1>2, SessionTypeCorrect, PTL DEF SessionSpec
<1>11. Together => []RtspTypeOK
  BY <1>1, <1>2, <1>4, RtspInvariant, PTL DEF RtspSpec
<1>12. Together => []WtTypeOK
  BY <1>1, <1>2, <1>5, WtInvariant, PTL DEF WtSpec
<1>13. Together => []CoreTypeOK
  BY <1>1, <1>2, CoreTypeCorrect, PTL DEF CoreSpec
<1>14. Together => []ConfTypeOK
  BY <1>1, <1>2, ConfTypeCorrect, PTL DEF ConfSpec
<1> QED BY <1>6, <1>7, <1>8, <1>9, <1>10, <1>11, <1>12, <1>13, <1>14, PTL
=============================================================================
