----------------------------- MODULE RtmpSession -----------------------------
(***************************************************************************)
(* How an RTMP connection opens (internal/protocols/rtmp: conn.go and      *)
(* handshake): the client of the RTMP static source, or a publisher, and   *)
(* the server shake hands and then exchange commands, each a straight      *)
(* line of writes and blocking reads over one byte stream per direction.   *)
(* A side that expects a message the other one never sends waits until     *)
(* its deadline.                                                           *)
(*                                                                         *)
(* A side is the sequence of steps it still has to do: "write" a message,  *)
(* "read" the next one, which must be of that kind, or "await" a command,  *)
(* skipping what comes before it.  A path is a sequence of segments.       *)
(***************************************************************************)
EXTENDS Integers, Sequences

CONSTANT MaxSegments    \* bound: segments in the path of a client's URL

ASSUME SegmentsBound == MaxSegments \in Nat

VARIABLES
    rtMode,       \* what the client wants: publish or not, encrypted or not, where
    rtClient, rtServer,     \* the steps left
    rtToServer, rtToClient, \* messages under way
    rtCutOff,     \* the connection broke, or a deadline passed
    rtEnd,        \* side |-> "running", "failed" or "done"
    rtKeys,       \* side |-> the keys for what it reads and writes
    rtServed      \* what NewServerConn returns: whether it publishes, and the path

rtVars == <<rtMode, rtClient, rtServer, rtToServer, rtToClient, rtCutOff, rtEnd,
            rtKeys, rtServed>>

\* A message: its kind, a number (version, digest, command identifier), a path.
Msg(kind, n, path) == [kind |-> kind, n |-> n, path |-> path]
Do(op, m) == [op |-> op, m |-> m]
Write(kind, n) == Do("write", Msg(kind, n, <<>>))
WritePath(kind, n, path) == Do("write", Msg(kind, n, path))
ReadOf(kind, n) == Do("read", Msg(kind, n, <<>>))
Await(kind, n) == Do("await", Msg(kind, n, <<>>))

-----------------------------------------------------------------------------
\* The handshake.  The number of C1, S1 is their digest (0: none, random data),
\* that of C2, S2 the digest of the packet they answer.

DigestC1 == 1
DigestS1 == 2

doClientPlain ==
    <<Write("c0", 3), Write("c1", 0), ReadOf("s0", 3), ReadOf("s1", 0),
      ReadOf("s2", 0), Write("c2", 0)>>
doClientEncrypted ==
    <<Write("c0", 6), Write("c1", DigestC1), ReadOf("s0", 6), ReadOf("s1", DigestS1),
      ReadOf("s2", DigestC1), Write("c2", DigestS1)>>
doServerPlain ==
    <<ReadOf("c1", 0), Write("s0", 3), Write("s1", 0), Write("s2", 0), ReadOf("c2", 0)>>
doServerEncrypted ==
    <<ReadOf("c1", DigestC1), Write("s0", 6), Write("s1", DigestS1),
      Write("s2", DigestC1), ReadOf("c2", DigestS1)>>

\* keyIn is the secret with the local public key, keyOut with the remote one.
Keys(enc) ==
    IF enc THEN [client |-> <<"clientKey", "serverKey">>,
                 server |-> <<"serverKey", "clientKey">>]
    ELSE [client |-> <<"plain", "plain">>, server |-> <<"plain", "plain">>]

-----------------------------------------------------------------------------
\* Commands.

\* splitPath: the application is the first segment, or the first two when there
\* are more than two; the stream is the rest.
splitPath(path) ==
    CASE Len(path) = 1 -> <<path, <<>>>>
      [] Len(path) = 2 -> <<<<path[1]>>, <<path[2]>>>>
      [] Len(path) > 2 -> <<SubSeq(path, 1, 2), SubSeq(path, 3, Len(path))>>

\* createURL: "/" + app + "/" + stream; an empty stream leaves a last slash,
\* which the server's connection trims from the name of the path.
createURL(app, stream) == app \o stream

\* The paths of URLs that clients ask for: segments 1, 2, ...
UrlPaths == {[i \in 1..n |-> i] : n \in 1..MaxSegments}

Setup == <<Write("setWindowAckSize", 0), Write("setPeerBandwidth", 0),
           Write("setChunkSize", 0)>>

\* initializeClient after the handshake.
clientPlay(path) ==
    Setup \o
    <<WritePath("connect", 1, splitPath(path)[1]), Await("_result", 1),
      Write("createStream", 2), Await("_result", 2),
      Write("setBufferLength", 0),
      WritePath("play", 3, splitPath(path)[2]), Await("onStatus", 3)>>
\* Mutant: the client waits for an answer to FCPublish.
clientPublishWaits(path) ==
    Setup \o
    <<WritePath("connect", 1, splitPath(path)[1]), Await("_result", 1),
      Write("releaseStream", 2), Write("FCPublish", 3), Await("_result", 3),
      Write("createStream", 4), Await("_result", 4),
      WritePath("publish", 5, splitPath(path)[2]), Await("onStatus", 5)>>

clientPublish(path) ==
    Setup \o
    <<WritePath("connect", 1, splitPath(path)[1]), Await("_result", 1),
      Write("releaseStream", 2), Write("FCPublish", 3),
      Write("createStream", 4), Await("_result", 4),
      WritePath("publish", 5, splitPath(path)[2]), Await("onStatus", 5)>>

Commands == {"connect", "createStream", "releaseStream", "FCPublish", "play",
             "publish", "_result", "onStatus"}

\* initializeServer: what each command of a client is answered.
\* Await("command") stands for readCommand, which skips everything else.
ServerConnected(m) == Setup \o <<Write("_result", m.n), Await("command", 0)>>
ServerCreateStream(m) == <<Write("_result", m.n), Await("command", 0)>>
ServerPlay(m) ==
    <<Write("streamIsRecorded", 0), Write("streamBegin", 0), Write("onStatus", m.n),
      Write("onStatus", m.n), Write("onStatus", m.n), Write("onStatus", m.n)>>
ServerPublish(m) == <<Write("onStatus", m.n)>>

SessionInit ==
    /\ rtMode \in [publish: BOOLEAN, enc: BOOLEAN, path: UrlPaths]
    /\ rtClient = (IF rtMode.enc THEN doClientEncrypted ELSE doClientPlain) \o
                  (IF rtMode.publish THEN clientPublish(rtMode.path)
                   ELSE clientPlay(rtMode.path))
    /\ rtServer = <<Await("c0", 0)>>
    /\ rtToServer = <<>> /\ rtToClient = <<>> /\ rtCutOff = FALSE
    /\ rtEnd = [s \in {"client", "server"} |-> "running"]
    /\ rtKeys = [s \in {"client", "server"} |-> <<"none", "none">>]
    /\ rtServed = [publish |-> FALSE, path |-> <<>>, app |-> <<>>]

Running(side) == rtEnd[side] = "running"
Fails(side) == rtEnd' = [rtEnd EXCEPT ![side] = "failed"]
\* A side is done with its last step, and has its keys with the handshake.
EndsWith(side, steps) ==
    rtEnd' = IF steps = <<>> THEN [rtEnd EXCEPT ![side] = "done"] ELSE rtEnd
KeysWith(side, m) ==
    rtKeys' = IF m.kind = "c2" THEN [rtKeys EXCEPT ![side] = Keys(m.n # 0)[side]]
              ELSE rtKeys

-----------------------------------------------------------------------------
\* The client.

ClientWrites ==
    /\ Running("client") /\ rtClient # <<>> /\ Head(rtClient).op = "write"
    /\ rtClient' = Tail(rtClient)
    /\ IF rtCutOff
       THEN Fails("client") /\ UNCHANGED <<rtToServer, rtKeys>>
       ELSE /\ rtToServer' = Append(rtToServer, Head(rtClient).m)
            /\ EndsWith("client", Tail(rtClient))
            /\ KeysWith("client", Head(rtClient).m)
    /\ UNCHANGED <<rtMode, rtServer, rtToClient, rtCutOff, rtServed>>

\* A packet of the handshake must have the expected version or digest.  A
\* command result counts if its name and identifier match.
ClientReads ==
    /\ Running("client") /\ rtClient # <<>> /\ Head(rtClient).op # "write"
    /\ rtToClient # <<>>
    /\ LET want == Head(rtClient).m
           m == Head(rtToClient)
           match == m.kind = want.kind /\ m.n = want.n
       IN /\ rtToClient' = Tail(rtToClient)
          /\ IF match THEN rtClient' = Tail(rtClient) /\ EndsWith("client", Tail(rtClient))
             ELSE /\ UNCHANGED rtClient
                  /\ IF Head(rtClient).op = "read" THEN Fails("client")
                     ELSE UNCHANGED rtEnd
    /\ UNCHANGED <<rtMode, rtServer, rtToServer, rtCutOff, rtKeys, rtServed>>

-----------------------------------------------------------------------------
\* The server.

ServerWrites ==
    /\ Running("server") /\ rtServer # <<>> /\ Head(rtServer).op = "write"
    /\ rtServer' = Tail(rtServer)
    /\ IF rtCutOff
       THEN Fails("server") /\ UNCHANGED rtToClient
       ELSE rtToClient' = Append(rtToClient, Head(rtServer).m)
            /\ EndsWith("server", Tail(rtServer))
    /\ UNCHANGED <<rtMode, rtClient, rtToServer, rtCutOff, rtKeys, rtServed>>

\* DoServer: C0 decides which handshake is done, and connect is what comes next.
ServerReadsVersion(m) ==
    /\ m.kind = "c0"
    /\ rtServer' = (IF m.n = 6 THEN doServerEncrypted ELSE doServerPlain)
                   \o <<Await("connect", 0)>>
    /\ UNCHANGED <<rtEnd, rtKeys, rtServed>>

ServerReadsHandshake(m) ==
    /\ Head(rtServer).op = "read"
    /\ IF m.kind = Head(rtServer).m.kind /\ m.n = Head(rtServer).m.n
       THEN rtServer' = Tail(rtServer) /\ UNCHANGED rtEnd /\ KeysWith("server", m)
       ELSE UNCHANGED <<rtServer, rtKeys>> /\ Fails("server")
    /\ UNCHANGED rtServed

ServerReadsConnect(m) ==
    /\ Head(rtServer).m.kind = "connect" /\ m.kind \in Commands
    /\ IF m.kind = "connect"
       THEN /\ rtServer' = ServerConnected(m) /\ UNCHANGED rtEnd
            /\ rtServed' = [rtServed EXCEPT !.app = m.path]
       ELSE UNCHANGED <<rtServer, rtServed>> /\ Fails("server")
    /\ UNCHANGED rtKeys

ServerReadsCommand(m) ==
    /\ Head(rtServer).m.kind = "command" /\ m.kind \in Commands
    /\ rtServer' = CASE m.kind = "createStream" -> ServerCreateStream(m)
                     [] m.kind = "play" -> ServerPlay(m)
                     [] m.kind = "publish" -> ServerPublish(m)
                     [] OTHER -> rtServer
    /\ rtServed' = IF m.kind \in {"play", "publish"}
                   THEN [rtServed EXCEPT !.publish = m.kind = "publish",
                                         !.path = createURL(rtServed.app, m.path)]
                   ELSE rtServed
    /\ UNCHANGED <<rtEnd, rtKeys>>

\* readCommand skips what is not a command.
ServerSkips(m) ==
    /\ Head(rtServer).m.kind \in {"connect", "command"} /\ m.kind \notin Commands
    /\ UNCHANGED <<rtServer, rtEnd, rtKeys, rtServed>>

ServerReads ==
    /\ Running("server") /\ rtServer # <<>> /\ Head(rtServer).op # "write"
    /\ rtToServer # <<>> /\ rtToServer' = Tail(rtToServer)
    /\ LET m == Head(rtToServer)
       IN \/ ServerReadsVersion(m) \/ ServerReadsHandshake(m) \/ ServerReadsConnect(m)
          \/ ServerReadsCommand(m) \/ ServerSkips(m)
    /\ UNCHANGED <<rtMode, rtClient, rtToClient, rtCutOff>>

-----------------------------------------------------------------------------
\* The connection breaks or a side closes it; reads of what has not arrived,
\* which would block, then fail.
CutOff ==
    /\ ~rtCutOff /\ rtCutOff' = TRUE
    /\ rtToClient' = <<>> /\ rtToServer' = <<>>
    /\ UNCHANGED <<rtMode, rtClient, rtServer, rtEnd, rtKeys, rtServed>>

ReadFails(side, steps) ==
    /\ rtCutOff /\ Running(side) /\ steps # <<>> /\ Head(steps).op # "write"
    /\ Fails(side)
    /\ UNCHANGED <<rtMode, rtClient, rtServer, rtToServer, rtToClient, rtCutOff, rtKeys,
                   rtServed>>

ReadsFail == ReadFails("client", rtClient) \/ ReadFails("server", rtServer)

SessionNext ==
    \/ ClientWrites \/ ClientReads \/ ServerWrites \/ ServerReads
    \/ CutOff \/ ReadsFail

SessionSpec == SessionInit /\ [][SessionNext]_rtVars

-----------------------------------------------------------------------------
SessionTypeOK ==
    /\ rtEnd \in [{"client", "server"} -> {"running", "failed", "done"}]
    /\ rtCutOff \in BOOLEAN /\ rtServed.publish \in BOOLEAN
    /\ \A i \in 1..Len(rtClient) : rtClient[i].op \in {"write", "read", "await"}
    /\ \A i \in 1..Len(rtServer) : rtServer[i].op \in {"write", "read", "await"}

Waits(side, steps, incoming) ==
    Running(side) /\ steps # <<>> /\ Head(steps).op # "write" /\ incoming = <<>>

\* A client and a server of this package understand each other: nobody refuses
\* the other while the connection holds, they never wait for each other at the
\* same time, and once the client has its onStatus the server is serving the
\* same operation on the path of the client's URL, each decrypting with what
\* the other encrypts with.
SessionAgrees ==
    /\ ~rtCutOff => \A s \in {"client", "server"} : rtEnd[s] # "failed"
    /\ ~(~rtCutOff /\ Waits("client", rtClient, rtToClient)
                   /\ Waits("server", rtServer, rtToServer))
    /\ rtEnd["client"] = "done" =>
         /\ rtServed.publish = rtMode.publish
         /\ rtServed.path = rtMode.path
         /\ rtKeys["client"][1] = rtKeys["server"][2]
         /\ rtKeys["client"][2] = rtKeys["server"][1]
=============================================================================
