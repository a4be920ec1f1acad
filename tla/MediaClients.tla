---------------------------- MODULE MediaClients ----------------------------
(***************************************************************************)
(* The clients of the media servers, whatever protocol they speak: RTMP and *)
(* SRT connections, RTSP sessions and WebRTC sessions.  The servers share  *)
(* nothing but the path, which each module sees as the set of its users,   *)
(* and so run side by side.                                                *)
(***************************************************************************)
EXTENDS MediaConns, RtspServer, WebrtcServer

ClientsSpec == McSpec /\ RtspSpec /\ WtSpec

\* Whatever protocol a client speaks and however its session ends, nothing of
\* the session is left in the path, in the hooks or in the server's index.
ClientsLeaveNothing ==
    ConnLeavesNothing /\ SessionLeavesNothing /\ SessionAnswersAndLeaves
=============================================================================
