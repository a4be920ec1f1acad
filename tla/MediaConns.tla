----------------------------- MODULE MediaConns -----------------------------
(***************************************************************************)
(* The RTMP and SRT servers of mediamtx (internal/servers/rtmp and srt):   *)
(* a loop that keeps the set of connections, and a goroutine for each,     *)
(* which takes and gives back, on every way out, a place among the users   *)
(* of a path, a reader of its stream, the network connection and the       *)
(* pair of connect hooks.  RTMP first shakes hands and then asks for the   *)
(* path; SRT asks for the path first and then accepts the connection.      *)
(* The path is seen as the set of its users; Path has its inside.          *)
(***************************************************************************)
EXTENDS Naturals

CONSTANTS RtmpConns, SrtConns     \* the connections that clients open

VARIABLES mcServer,   \* "up", "closing" (context cancelled) or "down"
          mcIndex,    \* s.conns
          mcSt,       \* connection |-> where its goroutine stands
          mcRole,     \* connection |-> "read" or "publish", once known
          mcDone,     \* connections whose context is cancelled
          mcNet,      \* connections whose network connection is open
          mcHooked,   \* connections whose onConnect hook ran, onDisconnect not yet
          mcUsers,    \* readers and publisher of the path
          mcStream,   \* the path's stream exists
          mcReaders,  \* s.streamReaders of that stream
          mcLeaked    \* readers that nobody will remove

mcVars == <<mcServer, mcIndex, mcSt, mcRole, mcDone, mcNet, mcHooked, mcUsers,
            mcStream, mcReaders, mcLeaked>>

MConns == RtmpConns \cup SrtConns

McInit ==
    /\ mcServer = "up" /\ mcIndex = {} /\ mcStream = FALSE
    /\ mcSt = [c \in MConns |-> "idle"] /\ mcRole = [c \in MConns |-> "read"]
    /\ mcDone = {} /\ mcNet = {} /\ mcHooked = {} /\ mcUsers = {}
    /\ mcReaders = {} /\ mcLeaked = {}

Goes(c, st) == mcSt' = [mcSt EXCEPT ![c] = st]

-----------------------------------------------------------------------------
\* The loops of the servers.

\* listener, chNewConn, conn.initialize and the first lines of run.
RtmpNewConn(c) ==
    /\ c \in RtmpConns /\ mcServer = "up" /\ mcSt[c] = "idle"
    /\ mcIndex' = mcIndex \cup {c} /\ mcNet' = mcNet \cup {c}
    /\ mcHooked' = mcHooked \cup {c} /\ Goes(c, "handshake")
    /\ UNCHANGED <<mcServer, mcRole, mcDone, mcUsers, mcStream, mcReaders, mcLeaked>>

\* chNewConnRequest: the network connection is not accepted yet.
SrtNewConn(c) ==
    /\ c \in SrtConns /\ mcServer = "up" /\ mcSt[c] = "idle"
    /\ mcIndex' = mcIndex \cup {c}
    /\ mcHooked' = mcHooked \cup {c} /\ Goes(c, "streamid")
    /\ UNCHANGED <<mcServer, mcRole, mcDone, mcNet, mcUsers, mcStream, mcReaders, mcLeaked>>

\* chAPIConnsKick
KickConn(c) ==
    /\ mcServer = "up" /\ c \in mcIndex
    /\ mcIndex' = mcIndex \ {c} /\ mcDone' = mcDone \cup {c}
    /\ UNCHANGED <<mcServer, mcSt, mcRole, mcNet, mcHooked, mcUsers, mcStream, mcReaders,
                   mcLeaked>>

\* Close, or an error of the listener: the contexts of the connections end.
ServersClose ==
    /\ mcServer = "up"
    /\ mcServer' = "closing"
    /\ mcDone' = mcDone \cup {c \in MConns : mcSt[c] # "idle"}
    /\ UNCHANGED <<mcIndex, mcSt, mcRole, mcNet, mcHooked, mcUsers, mcStream, mcReaders,
                   mcLeaked>>

\* s.wg.Wait() in Close.
ServersClosed ==
    /\ mcServer = "closing" /\ \A c \in MConns : mcSt[c] \in {"idle", "gone"}
    /\ mcServer' = "down"
    /\ UNCHANGED <<mcIndex, mcSt, mcRole, mcDone, mcNet, mcHooked, mcUsers, mcStream,
                   mcReaders, mcLeaked>>

\* The path stops (its source leaves, its configuration changes): the stream
\* ends, and the readers and the publisher are closed and forgotten.
PathStops ==
    /\ mcUsers # {}
    /\ mcUsers' = {} /\ mcStream' = FALSE /\ mcReaders' = {} /\ mcLeaked' = {}
    /\ mcDone' = mcDone \cup mcUsers
    /\ UNCHANGED <<mcServer, mcIndex, mcSt, mcRole, mcNet, mcHooked>>

-----------------------------------------------------------------------------
\* An RTMP connection.

\* runReader: rtmp.NewServerConn, with deadlines; a closed connection fails.
RtmpHandshake(c) ==
    /\ mcSt[c] = "handshake"
    /\ \/ \E role \in {"read", "publish"} :
             mcRole' = [mcRole EXCEPT ![c] = role] /\ Goes(c, "asking")
       \/ Goes(c, "ending") /\ UNCHANGED mcRole
    /\ UNCHANGED <<mcServer, mcIndex, mcDone, mcNet, mcHooked, mcUsers, mcStream, mcReaders,
                   mcLeaked>>

\* stream.AddReader: an ended stream (the path has forgotten c) does not count.
Registered(c) == IF c \in mcUsers THEN mcReaders \cup {c} ELSE mcReaders

Publisher == {c \in mcUsers : mcRole[c] = "publish"}

\* AddReader: refused by authentication or without a stream.
RtmpAddReader(c) ==
    /\ c \in RtmpConns /\ mcSt[c] = "asking" /\ mcRole[c] = "read"
    /\ \/ mcStream /\ mcUsers' = mcUsers \cup {c} /\ Goes(c, "tracks")
       \/ Goes(c, "ending") /\ UNCHANGED mcUsers
    /\ UNCHANGED <<mcServer, mcIndex, mcRole, mcDone, mcNet, mcHooked, mcStream, mcReaders,
                   mcLeaked>>

\* rtmp.FromStream registers the reader with the stream and then writes the
\* track headers: if that fails, runRead returns before RemoveReader is deferred.
RtmpReadTracks(c) ==
    /\ c \in RtmpConns /\ mcSt[c] = "tracks" /\ mcRole[c] = "read"
    /\ \/ mcReaders' = Registered(c) /\ Goes(c, "active") /\ UNCHANGED mcLeaked
       \/ Goes(c, "leaving") /\ UNCHANGED <<mcReaders, mcLeaked>>    \* no codec
       \/ /\ mcReaders' = Registered(c)
          /\ mcLeaked' = mcLeaked \cup ({c} \cap mcUsers)
          /\ Goes(c, "leaving")
    /\ UNCHANGED <<mcServer, mcIndex, mcRole, mcDone, mcNet, mcHooked, mcUsers, mcStream>>

\* AddPublisher: one at a time (an override closes the other one first).
RtmpAddPublisher(c) ==
    /\ c \in RtmpConns /\ mcSt[c] = "asking" /\ mcRole[c] = "publish"
    /\ \/ Publisher = {} /\ mcUsers' = mcUsers \cup {c} /\ Goes(c, "tracks")
       \/ Goes(c, "ending") /\ UNCHANGED mcUsers
    /\ UNCHANGED <<mcServer, mcIndex, mcRole, mcDone, mcNet, mcHooked, mcStream, mcReaders,
                   mcLeaked>>

\* NewReader, ToStream and StartPublisher, which a path that forgot the
\* publisher refuses.
StartPublishing(c) ==
    /\ mcSt[c] = "tracks" /\ mcRole[c] = "publish"
    /\ \/ c \in mcUsers /\ mcStream' = TRUE /\ Goes(c, "active")
       \/ Goes(c, "leaving") /\ UNCHANGED mcStream
    /\ UNCHANGED <<mcServer, mcIndex, mcRole, mcDone, mcNet, mcHooked, mcUsers, mcReaders,
                   mcLeaked>>

-----------------------------------------------------------------------------
\* An SRT connection.

\* streamID.unmarshal
SrtStreamID(c) ==
    /\ mcSt[c] = "streamid"
    /\ \/ \E role \in {"read", "publish"} :
             mcRole' = [mcRole EXCEPT ![c] = role] /\ Goes(c, "asking")
       \/ Goes(c, "ending") /\ UNCHANGED mcRole
    /\ UNCHANGED <<mcServer, mcIndex, mcDone, mcNet, mcHooked, mcUsers, mcStream, mcReaders,
                   mcLeaked>>

\* runPublish: AddPublisher, then the passphrase and Accept.
SrtPublish(c) ==
    /\ c \in SrtConns /\ mcSt[c] = "asking" /\ mcRole[c] = "publish"
    /\ \/ Publisher = {} /\ mcUsers' = mcUsers \cup {c} /\ Goes(c, "accepting")
       \/ Goes(c, "ending") /\ UNCHANGED mcUsers
    /\ UNCHANGED <<mcServer, mcIndex, mcRole, mcDone, mcNet, mcHooked, mcStream, mcReaders,
                   mcLeaked>>

\* runRead: AddReader.
SrtRead(c) ==
    /\ c \in SrtConns /\ mcSt[c] = "asking" /\ mcRole[c] = "read"
    /\ \/ mcStream /\ mcUsers' = mcUsers \cup {c} /\ Goes(c, "accepting")
       \/ Goes(c, "ending") /\ UNCHANGED mcUsers
    /\ UNCHANGED <<mcServer, mcIndex, mcRole, mcDone, mcNet, mcHooked, mcStream, mcReaders,
                   mcLeaked>>

\* srtCheckPassphrase and connReq.Accept: on failure the deferred RemoveReader
\* or RemovePublisher runs.
SrtAccept(c) ==
    /\ mcSt[c] = "accepting"
    /\ \/ mcNet' = mcNet \cup {c} /\ Goes(c, "tracks")
       \/ Goes(c, "leaving") /\ UNCHANGED mcNet
    /\ UNCHANGED <<mcServer, mcIndex, mcRole, mcDone, mcHooked, mcUsers, mcStream, mcReaders,
                   mcLeaked>>

\* mpegts.FromStream and StartReader.
SrtReadTracks(c) ==
    /\ c \in SrtConns /\ mcSt[c] = "tracks" /\ mcRole[c] = "read"
    /\ \/ mcReaders' = Registered(c) /\ Goes(c, "active")
       \/ Goes(c, "leaving") /\ UNCHANGED mcReaders
    /\ UNCHANGED <<mcServer, mcIndex, mcRole, mcDone, mcNet, mcHooked, mcUsers, mcStream,
                   mcLeaked>>

-----------------------------------------------------------------------------
\* The ends.

\* The peer leaves, a deadline passes, the stream or the context ends: the
\* select of runRead or runInner returns, and stream.RemoveReader is run.
ConnStops(c) ==
    /\ mcSt[c] = "active"
    /\ mcReaders' = mcReaders \ {c}
    /\ Goes(c, "leaving")
    /\ UNCHANGED <<mcServer, mcIndex, mcRole, mcDone, mcNet, mcHooked, mcUsers, mcStream,
                   mcLeaked>>

\* Mutant: a connection that leaves before it is active stays a user.
LeavePathIfActive(c) ==
    /\ mcSt[c] = "leaving"
    /\ mcUsers' = IF c \in mcNet THEN mcUsers \ {c} ELSE mcUsers
    /\ mcStream' = (mcStream /\ c \notin Publisher)
    /\ mcReaders' = IF c \in Publisher THEN {} ELSE mcReaders
    /\ mcLeaked' = IF c \in Publisher THEN {} ELSE mcLeaked
    /\ mcDone' = IF c \in Publisher THEN mcDone \cup (mcUsers \ {c}) ELSE mcDone
    /\ Goes(c, "ending")
    /\ UNCHANGED <<mcServer, mcIndex, mcRole, mcNet, mcHooked>>

\* The deferred path.RemoveReader or RemovePublisher; with the publisher the
\* stream ends, and its readers are closed.
LeavePath(c) ==
    LET last == c \in Publisher IN
    /\ mcSt[c] = "leaving"
    /\ mcUsers' = IF last THEN {} ELSE mcUsers \ {c}
    /\ mcStream' = (mcStream /\ ~last)
    /\ mcReaders' = IF last THEN {} ELSE mcReaders
    /\ mcLeaked' = IF last THEN {} ELSE mcLeaked
    /\ mcDone' = IF last THEN mcDone \cup (mcUsers \ {c}) ELSE mcDone
    /\ Goes(c, "ending")
    /\ UNCHANGED <<mcServer, mcIndex, mcRole, mcNet, mcHooked>>

\* The end of run: the network connection is closed, closeConn, the hook.
ConnGone(c) ==
    /\ mcSt[c] = "ending"
    /\ mcIndex' = IF mcServer = "up" THEN mcIndex \ {c} ELSE mcIndex
    /\ mcNet' = mcNet \ {c} /\ mcHooked' = mcHooked \ {c}
    /\ mcDone' = mcDone \cup {c}
    /\ Goes(c, "gone")
    /\ UNCHANGED <<mcServer, mcRole, mcUsers, mcStream, mcReaders, mcLeaked>>

McNext ==
    \/ ServersClose \/ ServersClosed \/ PathStops
    \/ \E c \in MConns :
         \/ RtmpNewConn(c) \/ SrtNewConn(c) \/ KickConn(c)
         \/ RtmpHandshake(c) \/ RtmpAddReader(c) \/ RtmpReadTracks(c) \/ RtmpAddPublisher(c)
         \/ StartPublishing(c)
         \/ SrtStreamID(c) \/ SrtPublish(c) \/ SrtRead(c) \/ SrtAccept(c) \/ SrtReadTracks(c)
         \/ ConnStops(c) \/ LeavePath(c) \/ ConnGone(c)

McSpec == McInit /\ [][McNext]_mcVars

-----------------------------------------------------------------------------

McTypeOK ==
    /\ mcServer \in {"up", "closing", "down"}
    /\ mcSt \in [MConns -> {"idle", "handshake", "streamid", "asking", "accepting", "tracks",
                            "active", "leaving", "ending", "gone"}]
    /\ mcRole \in [MConns -> {"read", "publish"}] /\ mcStream \in BOOLEAN
    /\ \A s \in {mcIndex, mcDone, mcNet, mcHooked, mcUsers, mcReaders, mcLeaked} :
         s \subseteq MConns

\* A connection that is over has left nothing behind, whichever way it went
\* and however kicks, the end of the path, of the stream and of the server
\* fell between its steps: it is no user of the path, its network connection is
\* closed, its hooks are paired, the server does not list it, and the stream
\* does not serve it, but for a reader that runRead of RTMP fails to remove
\* when the track headers cannot be written.  And Close of the server returns
\* only when the path is rid of all of them: Core closes the path manager next.
ConnLeavesNothing ==
    /\ \A c \in MConns : mcSt[c] = "gone" =>
        /\ c \notin mcUsers \cup mcNet \cup mcHooked
        /\ mcServer = "up" => c \notin mcIndex
        /\ c \in mcReaders => c \in mcLeaked
    /\ mcServer = "down" => mcUsers = {}
=============================================================================
