--------------------------- MODULE MCCmdRegistry ---------------------------
(* Instances of CmdRegistry for TLC.  Two live streams of different          *)
(* namespaces share one id, a1 and a2, and v has an id of its own.           *)
EXTENDS CmdRegistry, TLC

CONSTANTS a1, a2, v, ka, kv

MCStreams == {a1, a2, v}
MCIds == {ka, kv}
MCIdOf == [s \in MCStreams |-> IF s = v THEN kv ELSE ka]
MCLiveStreams == {a1, a2}
OneLiveStream == {a1}
MCVodStreams == {v, a2}
NoVodStreams == {}

\* Cmds and handlers are interchangeable.
MCSymmetry == Permutations(Cmds) \cup Permutations(Handlers)
=============================================================================
