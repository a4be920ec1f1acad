------------------------------ MODULE RtmpChunks ------------------------------
(***************************************************************************)
(* The chunk layer of an RTMP connection                                   *)
(* (internal/protocols/rtmp/rawmessage, chunk, message): a writer that     *)
(* splits messages into chunks and leaves out of every header what it      *)
(* believes the reader still remembers, and the reader that puts them      *)
(* together again.  Both sides keep one state per chunk stream and a chunk *)
(* size, and neither tells the other what it holds: a chunk has no length  *)
(* of its own, so a disagreement makes the reader take body bytes for      *)
(* headers.                                                                *)
(*                                                                         *)
(* Body bytes, clock and limits are scaled: ExtTs stands for 0xFFFFFF, the *)
(* first value that needs the extended field, and TsMod for 2^32.          *)
(***************************************************************************)
EXTENDS Integers, Sequences, FiniteSets

CONSTANTS
    ChunkStreams,   \* chunk streams that carry media
    MessageStreams, \* message stream identifiers
    MsgTypes,       \* message types that carry media
    BodyLens,       \* lengths of their bodies
    MsgTimes,       \* timestamps, in milliseconds, before uint32()
    ExtTs, TsMod,
    NewChunkSize,   \* the value that SetChunkSize announces
    MaxMessages     \* bound: messages written

ASSUME RtmpChunksAssumption ==
    /\ BodyLens \subseteq Nat /\ MsgTimes \subseteq Nat
    /\ {ExtTs, TsMod, NewChunkSize} \subseteq Nat \ {0}
    /\ ExtTs < TsMod
    /\ "setChunkSize" \notin MsgTypes
    /\ MaxMessages \in Nat

VARIABLES
    wcs,        \* Writer.chunkStreams
    wSize,      \* Writer.chunkSize
    wire,       \* chunks that are written and not read yet
    rcs,        \* Reader.chunkStreams
    rSize,      \* Reader.chunkSize
    rErr,       \* the error that ended Reader.Read, or "none"
    written, read,  \* the messages of both sides (history)
    restarted   \* chunk streams on which a type 0 chunk was repeated (history)

chVars == <<wcs, wSize, wire, rcs, rSize, rErr, written, read, restarted>>

Nil == -1
ControlStream == "control"   \* chunk stream 2
Streams == ChunkStreams \cup {ControlStream}

\* The message SetChunkSize, and the other messages a connection carries.
SetChunkSize == [cs |-> ControlStream, typ |-> "setChunkSize", ms |-> "0",
                 len |-> 1, ts |-> 0]
Messages ==
    {SetChunkSize} \cup
    [cs: ChunkStreams, typ: MsgTypes, ms: MessageStreams, len: BodyLens,
     ts: MsgTimes]

\* A fresh writerChunkStream and a fresh readerChunkStream.
WriterStream == [used |-> FALSE, ms |-> "0", typ |-> "", len |-> 0, ts |-> 0,
                 delta |-> Nil, ext |-> FALSE]
ReaderStream == [ts |-> 0, tsKnown |-> FALSE, typ |-> "", ms |-> "0",
                 len |-> 0, recv |-> 0, delta |-> 0, deltaKnown |-> FALSE,
                 ext |-> FALSE]

ChunksInit ==
    /\ wcs = [s \in Streams |-> WriterStream] /\ wSize = 2
    /\ rcs = [s \in Streams |-> ReaderStream] /\ rSize = 2
    /\ wire = <<>> /\ rErr = "none"
    /\ written = <<>> /\ read = <<>> /\ restarted = {}

-----------------------------------------------------------------------------
\* Writer

Least(a, b) == IF a < b THEN a ELSE b

\* timestampDelta: nil on a new chunk stream and when the clock goes back.
DeltaOf(wc, m) ==
    IF wc.used /\ m.ts >= wc.ts THEN m.ts - wc.ts ELSE Nil

\* The type of the first chunk of a message.
FirstChunkType(wc, m) ==
    LET delta == DeltaOf(wc, m) IN
    CASE delta = Nil \/ wc.ms # m.ms -> 0
      [] delta # Nil /\ wc.ms = m.ms /\ (wc.typ # m.typ \/ wc.len # m.len) -> 1
      [] delta # Nil /\ wc.ms = m.ms /\ wc.typ = m.typ /\ wc.len = m.len
           /\ wc.delta # delta -> 2
      [] OTHER -> 3

\* The value that a chunk of types 0, 1 and 2 carries in its time field,
\* whether four bytes more follow, and the part of the body it holds.
TimeField(wc, m) ==
    (IF FirstChunkType(wc, m) = 0 THEN m.ts ELSE DeltaOf(wc, m)) % TsMod
HasExtended(wc, m) ==
    IF FirstChunkType(wc, m) = 3 THEN wc.ext ELSE TimeField(wc, m) >= ExtTs

FirstChunk(wc, m) ==
    [fmt |-> FirstChunkType(wc, m), cs |-> m.cs,
     time |-> IF FirstChunkType(wc, m) = 3 THEN 0 ELSE TimeField(wc, m),
     typ |-> m.typ, ms |-> m.ms, len |-> m.len, ext |-> HasExtended(wc, m),
     body |-> Least(m.len, wSize)]

\* The type 3 chunks that carry the rest of the body.
RestChunks(wc, m) ==
    LET n == IF m.len <= wSize THEN 0 ELSE (m.len - 1) \div wSize
    IN [i \in 1..n |->
          [fmt |-> 3, cs |-> m.cs, time |-> 0, typ |-> m.typ, ms |-> m.ms,
           len |-> m.len, ext |-> HasExtended(wc, m),
           body |-> Least(m.len - i * wSize, wSize)]]

\* Mutant: the flag of the extended timestamp follows type 0 chunks only.
RememberedExtOfType0(wc, m) ==
    [used |-> TRUE, ms |-> m.ms, typ |-> m.typ, len |-> m.len, ts |-> m.ts,
     delta |-> IF DeltaOf(wc, m) = Nil THEN wc.delta ELSE DeltaOf(wc, m),
     ext |-> IF FirstChunkType(wc, m) = 0 THEN HasExtended(wc, m) ELSE wc.ext]

\* What the writer remembers of the chunk stream after a message.  The last
\* delta is only replaced by another one.
Remembered(wc, m) ==
    [used |-> TRUE, ms |-> m.ms, typ |-> m.typ, len |-> m.len, ts |-> m.ts,
     delta |-> IF DeltaOf(wc, m) = Nil THEN wc.delta ELSE DeltaOf(wc, m),
     ext |-> HasExtended(wc, m)]

\* message.Writer.Write: rawmessage.Writer.Write, and then the new chunk size.
WriteMessage(m) ==
    LET wc == wcs[m.cs] IN
    /\ Len(written) < MaxMessages
    /\ wire' = wire \o <<FirstChunk(wc, m)>> \o RestChunks(wc, m)
    /\ wcs' = [wcs EXCEPT ![m.cs] = Remembered(wc, m)]
    /\ wSize' = IF m = SetChunkSize THEN NewChunkSize ELSE wSize
    /\ written' = Append(written, m)
    /\ restarted' = IF wc.used /\ FirstChunkType(wc, m) = 0
                    THEN restarted \cup {m.cs} ELSE restarted
    /\ UNCHANGED <<rcs, rSize, rErr, read>>

-----------------------------------------------------------------------------
\* Reader

\* Why readMessage refuses a chunk before it reads it, or "none".
Refusal(rc, c) ==
    CASE c.fmt # 3 /\ rc.recv # 0 -> "expected type 3"
      [] c.fmt \in {1, 2} /\ ~rc.tsKnown -> "no previous chunk"
      [] c.fmt = 3 /\ rc.recv = 0 /\ ~rc.deltaKnown -> "no previous delta"
      [] OTHER -> "none"

\* What the reader takes the body part and the extension to be: the header of
\* the chunk, or what it remembers.
ExpectedLen(rc, c, size) ==
    Least((IF c.fmt \in {0, 1} THEN c.len ELSE rc.len)
          - (IF c.fmt = 3 THEN rc.recv ELSE 0), size)
ExpectedExt(rc, c) ==
    IF c.fmt = 3 THEN rc.ext ELSE c.time >= ExtTs

\* Mutant: the clock of a chunk stream has more than 32 bits.
AddTimeWide(ts, step) == ts + step

\* The clock of a chunk stream, a uint32.
AddTime(ts, step) == (ts + step) % TsMod

\* The chunk stream after a chunk: recv is 0 again once the message is whole.
AfterChunk(rc, c) ==
    LET len  == IF c.fmt \in {0, 1} THEN c.len ELSE rc.len
        step == IF c.fmt \in {1, 2} THEN c.time
                ELSE IF rc.recv = 0 THEN rc.delta ELSE 0
        got  == rc.recv + c.body
    IN [ts |-> IF c.fmt = 0 THEN c.time ELSE AddTime(rc.ts, step),
        tsKnown |-> TRUE,
        typ |-> IF c.fmt \in {0, 1} THEN c.typ ELSE rc.typ,
        ms |-> IF c.fmt = 0 THEN c.ms ELSE rc.ms,
        len |-> len,
        recv |-> IF got = len THEN 0 ELSE got,
        delta |-> IF c.fmt \in {1, 2} THEN c.time ELSE rc.delta,
        deltaKnown |-> IF c.fmt = 3 THEN rc.deltaKnown ELSE c.fmt # 0,
        ext |-> IF c.fmt = 3 THEN rc.ext ELSE c.time >= ExtTs]

\* The message a chunk completes.
Complete(rc, c) ==
    LET a == AfterChunk(rc, c)
    IN [cs |-> c.cs, typ |-> a.typ, ms |-> a.ms, len |-> a.len, ts |-> a.ts]

\* One turn of rawmessage.Reader.Read; message.Reader.Read applies a new chunk
\* size before it reads on.
ReadChunk ==
    /\ wire # <<>> /\ rErr = "none"
    /\ LET c == Head(wire)
           rc == rcs[c.cs]
       IN /\ wire' = Tail(wire)
          /\ IF Refusal(rc, c) # "none"
             THEN rErr' = Refusal(rc, c) /\ UNCHANGED <<rcs, rSize, read>>
             ELSE IF c.body # ExpectedLen(rc, c, rSize) \/ c.ext # ExpectedExt(rc, c)
             THEN rErr' = "garbled" /\ UNCHANGED <<rcs, rSize, read>>
             ELSE /\ rcs' = [rcs EXCEPT ![c.cs] = AfterChunk(rc, c)]
                  /\ UNCHANGED rErr
                  /\ IF AfterChunk(rc, c).recv # 0
                     THEN UNCHANGED <<read, rSize>>
                     ELSE /\ read' = Append(read, Complete(rc, c))
                          /\ rSize' = IF Complete(rc, c).typ = "setChunkSize"
                                      THEN NewChunkSize ELSE rSize
    /\ UNCHANGED <<wcs, wSize, written, restarted>>

WriteAny == \E m \in Messages : WriteMessage(m)

ChunksNext == WriteAny \/ ReadChunk

ChunksSpec == ChunksInit /\ [][ChunksNext]_chVars

-----------------------------------------------------------------------------
ChunksTypeOK ==
    /\ \A s \in Streams :
         /\ wcs[s].ts \in Nat /\ wcs[s].delta \in Nat \cup {Nil}
         /\ rcs[s].ts \in 0..(TsMod - 1) /\ rcs[s].recv \in Nat
    /\ wSize \in Nat \ {0} /\ rSize \in Nat \ {0}
    /\ rErr \in {"none", "expected type 3", "no previous chunk",
                 "no previous delta", "garbled"}
    /\ restarted \subseteq Streams

\* What the reader delivers is what was written, in order, with the clock
\* reduced to 32 bits: whatever the writer leaves out of a header, and in the
\* middle of a change of the chunk size, the reader still remembers.  The one
\* exception the code has: after a second type 0 chunk on the same chunk stream
\* (a clock that goes back, another message stream) the writer still trusts the
\* delta from before, which the reader has dropped, and the reader refuses the
\* type 3 chunk that relies on it (writer.go:118, reader.go:243).
ReadIsWritten ==
    /\ Len(read) <= Len(written)
    /\ \A i \in 1..Len(read) :
         read[i] = [written[i] EXCEPT !.ts = @ % TsMod]
    /\ rErr \in {"none", "no previous delta"}
    /\ rErr = "no previous delta" => restarted # {}
=============================================================================
