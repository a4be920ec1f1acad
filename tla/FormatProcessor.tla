--------------------------- MODULE FormatProcessor ---------------------------
(***************************************************************************)
(* The format processors of mediamtx (internal/formatprocessor): one for   *)
(* each track of a stream.  It turns units into RTP packets (ProcessUnit)  *)
(* or RTP packets into units (ProcessRTPPacket), keeps the parameters of   *)
(* the track up to date, puts them in front of key frames, and starts to   *)
(* encode packets again when one exceeds the maximum size.                 *)
(*                                                                         *)
(* A frame is a sequence of items (NALUs, or the parts of an MPEG-4 frame):*)
(* parameters with a version, delimiters, key and other pictures.  RTP     *)
(* sequence numbers and timestamps are kept modulo SeqRange.               *)
(* The RTP encoders and decoders are external.                             *)
(***************************************************************************)
EXTENDS Naturals, Sequences, SequencesExt

CONSTANTS FpFormats,      \* the formats that are explored
          SeqRange        \* 2^16 for sequence numbers, 2^32 for timestamps

ASSUME FpBounds == SeqRange \in Nat /\ SeqRange >= 2

VARIABLES fpFmt,     \* the format of the track
          fpGen,     \* generateRTPPackets
          fpEnc,     \* t.encoder: its next sequence number, or NoEnc
          fpDec,     \* t.decoder # nil
          fpParts,   \* what the decoder has of an unfinished frame
          fpFrag,    \* the decoder is inside a fragmented item
          fpKnown,   \* t.format: parameter |-> version, 0 for nil
          fpSeen,    \* parameter |-> the version that the source sent last
          fpIn,      \* sequence number of the next packet of the source
          fpLast,    \* sequence number of the last packet passed on
          fpLost,    \* an error dropped a packet since then
          fpUnit,    \* the frame last passed to the readers, <<>> for none
          fpPkts     \* the packets last passed to the RTSP readers

fpVars == <<fpFmt, fpGen, fpEnc, fpDec, fpParts, fpFrag, fpKnown, fpSeen, fpIn, fpLast,
            fpLost, fpUnit, fpPkts>>

NoEnc == SeqRange
RandStart == 2                 \* t.randomStart, chosen so that a sum wraps
Inc(n, k) == (n + k) % SeqRange

-----------------------------------------------------------------------------
\* What tells the formats apart: the parameters kept, whether a frame may need
\* several packets, whether the first packets may belong to a frame that began
\* earlier, whether an oversized packet is encoded again or refused, and
\* whether every frame of a unit becomes a packet with a time of its own.
Kind(params, several, nonStart, reencodes, timed) ==
    [params |-> params, several |-> several, nonStart |-> nonStart,
     reencodes |-> reencodes, timed |-> timed]

H264       == Kind({"sps", "pps"}, TRUE, TRUE, TRUE, FALSE)
H265       == Kind({"vps", "sps", "pps"}, TRUE, TRUE, TRUE, FALSE)
MPEG4Video == Kind({"config"}, TRUE, FALSE, FALSE, FALSE)
AV1        == Kind({}, TRUE, TRUE, FALSE, FALSE)
VP8        == Kind({}, TRUE, TRUE, FALSE, FALSE)
VP9        == Kind({}, TRUE, TRUE, FALSE, FALSE)
MPEG1Video == Kind({}, TRUE, TRUE, FALSE, FALSE)
MJPEG      == Kind({}, TRUE, TRUE, FALSE, FALSE)
MPEG1Audio == Kind({}, TRUE, TRUE, FALSE, FALSE)
AC3        == Kind({}, TRUE, TRUE, FALSE, FALSE)
MPEG4Audio == Kind({}, TRUE, FALSE, FALSE, FALSE)
Opus       == Kind({}, FALSE, FALSE, FALSE, TRUE)
G711       == Kind({}, FALSE, FALSE, FALSE, FALSE)
LPCM       == Kind({}, FALSE, FALSE, FALSE, FALSE)

\* New: the processor of a format; "generic" has neither decoder nor encoder.
ProcessorOf(f) ==
    CASE f = "av1" -> AV1 [] f = "vp9" -> VP9 [] f = "vp8" -> VP8 [] f = "h265" -> H265
      [] f = "h264" -> H264 [] f = "mpeg4video" -> MPEG4Video [] f = "mpeg1video" -> MPEG1Video
      [] f = "opus" -> Opus [] f = "mpeg4audio" -> MPEG4Audio [] f = "mpeg1audio" -> MPEG1Audio
      [] f = "mjpeg" -> MJPEG [] f = "ac3" -> AC3 [] f = "g711" -> G711 [] f = "lpcm" -> LPCM
      [] OTHER -> Kind({}, FALSE, FALSE, FALSE, FALSE)

Proc == ProcessorOf(fpFmt)
AllParams == {"vps", "sps", "pps", "config"}

\* The items a source sends.
Par(p, v) == [what |-> p, ver |-> v]
Item(what) == [what |-> what, ver |-> 0]
IsPar(i) == i.what \in AllParams
KeyPic == Item("key")
Pictures == {KeyPic, Item("slice")}

\* Frames: parameters, of which one comes in two versions, a delimiter and
\* pictures, in any order (fewer for H265, which has more parameters).
Frames ==
    LET ps == {Par(p, 1) : p \in Proc.params} \cup {Par(p, 2) : p \in Proc.params \cap {"sps"}}
        others == CASE fpFmt = "h265" -> {KeyPic}
                    [] Proc.params = {} -> Pictures
                    [] OTHER -> Pictures \cup {Item("aud")}
        items == ps \cup others
    IN  {<<i>> : i \in items} \cup {<<i, j>> : i, j \in items}

-----------------------------------------------------------------------------
\* Where a parameter is among the items, and its version at the last of such
\* places, if there is one.
Places(items, p) == {k \in DOMAIN items : items[k].what = p}
VersionAt(items, places, none) == IF places = {} THEN none ELSE items[Max(places)].ver

\* rtpH264ExtractParams: a packet with one NALU or with several (STAP-A)
\* yields the last parameter of each kind; a fragment yields none.
ExtractedH264(items) == [p \in Proc.params |-> VersionAt(items, Places(items, p), 0)]

\* rtpH265ExtractParams, with three kinds of parameters
ExtractedH265(items) == ExtractedH264(items)

\* updateTrackParameters of MPEG-4 video: a configuration in front of a group.
ExtractedMPEG4(items) ==
    [p \in Proc.params |-> IF Len(items) >= 2 /\ IsPar(items[1]) /\ Contains(Tail(items), KeyPic)
                        THEN items[1].ver ELSE 0]

Extracted(items) ==
    CASE fpFmt = "h264" -> ExtractedH264(items)
      [] fpFmt = "h265" -> ExtractedH265(items)
      [] OTHER -> ExtractedMPEG4(items)

\* updateTrackParametersFromRTPPacket of H264
UpdatedH264(known, new) == [p \in AllParams |-> IF p \in DOMAIN new /\ new[p] # 0
                                                THEN new[p] ELSE known[p]]
\* the same of H265
UpdatedH265(known, new) == UpdatedH264(known, new)

\* updateTrackParametersFromAU of H264: each NALU is compared with the one before.
AUParamsH264(known, au) == UpdatedH264(known, ExtractedH264(au))

\* The same of H265: each NALU is compared with the old parameter, so that a
\* return to it within one access unit is missed.
AUParamsH265(known, au) ==
    LET differing(p) == {k \in Places(au, p) : au[k].ver # known[p]}
    IN  UpdatedH265(known, [p \in Proc.params |-> VersionAt(au, differing(p), 0)])

\* The items but parameters and delimiters, in their order.
WithoutParams(au) ==
    LET ks == {k \in DOMAIN au : ~IsPar(au[k]) /\ au[k].what # "aud"}
        nth(i) == CHOOSE k \in ks : Cardinality({j \in ks : j < k}) = i - 1
    IN  [i \in 1..Cardinality(ks) |-> au[nth(i)]]

\* remuxAccessUnit of H264: parameters and delimiters go; the parameters,
\* when all are known, come in front of a key frame.
RemuxH264(known, au) ==
    LET rest == WithoutParams(au)
    IN  IF Contains(rest, KeyPic) /\ known["sps"] # 0 /\ known["pps"] # 0
        THEN <<Par("sps", known["sps"]), Par("pps", known["pps"])>> \o rest
        ELSE rest

\* remuxAccessUnit of H265
RemuxH265(known, au) ==
    LET rest == WithoutParams(au)
    IN  IF Contains(rest, KeyPic) /\ \A p \in {"vps", "sps", "pps"} : known[p] # 0
        THEN <<Par("vps", known["vps"]), Par("sps", known["sps"]), Par("pps", known["pps"])>>
             \o rest
        ELSE rest

\* remuxFrame of MPEG-4 video: a leading configuration, up to the group, is
\* replaced by the known one (empty when there is none).
RemuxMPEG4(known, frame) ==
    LET first == SelectInSeq(frame, LAMBDA i : i = KeyPic)
        rest == IF IsPar(frame[1]) /\ first # 0 THEN SubSeq(frame, first, Len(frame)) ELSE frame
    IN  IF first # 0 /\ known["config"] # 0
        THEN <<Par("config", known["config"])>> \o rest ELSE rest

Remux(known, frame) ==
    CASE fpFmt = "h264" -> RemuxH264(known, frame)
      [] fpFmt = "h265" -> RemuxH265(known, frame)
      [] fpFmt = "mpeg4video" -> RemuxMPEG4(known, frame)
      [] OTHER -> frame

\* What the source's own bookkeeping would be: the last version of each
\* parameter in a frame.
Latest(seen, items) ==
    [p \in AllParams |-> VersionAt(items, Places(items, p), seen[p])]

\* encoder.Encode (external): consecutive packets, none of them oversized.
Encoded(frame, from, ts) ==
    [k \in 1..(IF Len(frame) > 2 THEN 2 ELSE 1) |->
        [seq |-> Inc(from, k - 1), ts |-> ts, over |-> FALSE]]

-----------------------------------------------------------------------------

\* newH264 and its kin: the encoder exists from the start only when the source
\* delivers units; newGeneric refuses that.
FpInit ==
    /\ fpFmt \in FpFormats /\ fpGen \in BOOLEAN /\ ~(fpGen /\ fpFmt = "generic")
    /\ fpEnc = (IF fpGen THEN 0 ELSE NoEnc)
    /\ fpDec = FALSE /\ fpParts = <<>> /\ fpFrag = FALSE
    /\ fpKnown = [p \in AllParams |-> 0] /\ fpSeen = fpKnown
    /\ fpIn = 1 /\ fpLast = (IF fpGen THEN SeqRange - 1 ELSE 0) /\ fpLost = FALSE
    /\ fpUnit = <<>> /\ fpPkts = <<>>

\* writeUnitInner passes the packets on and the unit to the readers.
Pass(unit, pkts) ==
    /\ fpUnit' = unit /\ fpPkts' = pkts
    /\ fpLast' = IF pkts = <<>> THEN fpLast ELSE Last(pkts).seq
    /\ fpLost' = (fpLost /\ pkts = <<>>)

\* An error is logged and nothing is written.
Refuse == fpUnit' = <<>> /\ fpPkts' = <<>> /\ fpLost' = TRUE /\ UNCHANGED fpLast

\* Mutant: the frame is remuxed before the parameters are updated.
ProcessUnitStale ==
    \E frame \in Frames, pts \in {2} :
      LET out == Remux(fpKnown, frame)
          pkts == IF out = <<>> THEN <<>> ELSE Encoded(out, fpEnc, Inc(RandStart, pts))
      IN  /\ fpGen /\ fpFmt # "opus"
          /\ fpKnown' = UpdatedH264(fpKnown, Extracted(frame))
          /\ fpSeen' = Latest(fpSeen, frame)
          /\ fpEnc' = Inc(fpEnc, Len(pkts))
          /\ Pass(out, pkts)
          /\ UNCHANGED <<fpFmt, fpGen, fpDec, fpParts, fpFrag, fpIn>>

\* ProcessUnit of the formats but Opus.  (MPEG-4 video adds the time to the
\* packets of the unit before it assigns them: they all have the time 0.)
ProcessUnit ==
    \E frame \in Frames, pts \in {2} :
      LET known == CASE fpFmt = "h265" -> AUParamsH265(fpKnown, frame)
                     [] fpFmt = "h264" -> AUParamsH264(fpKnown, frame)
                     [] OTHER -> UpdatedH264(fpKnown, Extracted(frame))
          out == Remux(known, frame)
          ts == IF fpFmt = "mpeg4video" THEN 0 ELSE Inc(RandStart, pts)
          pkts == IF out = <<>> THEN <<>> ELSE Encoded(out, fpEnc, ts)
      IN  /\ fpGen /\ ~Proc.timed
          /\ fpKnown' = known
          /\ fpSeen' = Latest(fpSeen, frame)
          /\ fpEnc' = Inc(fpEnc, Len(pkts))
          /\ Pass(out, pkts)
          /\ UNCHANGED <<fpFmt, fpGen, fpDec, fpParts, fpFrag, fpIn>>

\* ProcessUnit of Opus: a packet for each frame, later by what it lasts (1 here).
ProcessOpusUnit ==
    \E frame \in Frames, pts \in {2} :
      LET pkts == [k \in DOMAIN frame |->
                     [seq |-> Inc(fpEnc, k - 1), ts |-> Inc(RandStart, pts + k - 1), over |-> FALSE]]
      IN  /\ fpGen /\ Proc.timed
          /\ fpEnc' = Inc(fpEnc, Len(pkts))
          /\ Pass(frame, pkts)
          /\ UNCHANGED <<fpFmt, fpGen, fpDec, fpParts, fpFrag, fpKnown, fpSeen, fpIn>>

-----------------------------------------------------------------------------
\* A packet of the source: whole items, or the start or the rest of a
\* fragmented one, the last of its frame or not, oversized or not.
Packet(items, frag, last, over) ==
    [items |-> items, frag |-> frag, last |-> last, over |-> over]

Packets ==
    {Packet(s, "no", last, over) :
        s \in {t \in Frames : Len(t) = 2 => IsPar(t[1])},
        last \in BOOLEAN, over \in BOOLEAN}
    \cup {Packet(<<KeyPic>>, "start", FALSE, over) : over \in BOOLEAN}
    \cup {Packet(<<KeyPic>>, "end", TRUE, over) : over \in BOOLEAN}
    \cup {Packet(<<>>, "broken", TRUE, FALSE)}

\* decoder.Decode (external): a frame, "more" (ErrMorePacketsNeeded),
\* "nonstarting" (ErrNonStartingPacketAndNoPrevious) or "error".
Decode(pkt) ==
    CASE pkt.frag = "broken" -> [res |-> "error", parts |-> <<>>, frag |-> FALSE]
      [] pkt.frag = "start" -> [res |-> "more", parts |-> fpParts, frag |-> TRUE]
      [] pkt.frag = "end" /\ ~fpFrag ->
           [res |-> IF Proc.nonStart THEN "nonstarting" ELSE "error", parts |-> <<>>, frag |-> FALSE]
      [] OTHER -> [res |-> IF pkt.last THEN "frame" ELSE "more",
                   parts |-> fpParts \o pkt.items, frag |-> FALSE]

\* Mutant: the new encoder begins with a sequence number of its own.
EncoderForFresh(pkt) ==
    IF fpEnc = NoEnc /\ Proc.reencodes /\ pkt.over THEN 0 ELSE fpEnc

\* ProcessRTPPacket: an oversized packet of H264 or H265 makes an encoder,
\* which begins with the sequence number of that packet.
EncoderFor(pkt) ==
    IF fpEnc = NoEnc /\ Proc.reencodes /\ pkt.over THEN fpIn ELSE fpEnc

\* What is decoded: for non-RTSP readers, or once begun, or to encode again.
Decodes(nonRTSP, enc) == fpFmt # "generic" /\ (nonRTSP \/ fpDec \/ enc # NoEnc)

\* ProcessRTPPacket of every format.
ProcessRTPPacket ==
    \E pkt \in Packets, nonRTSP \in BOOLEAN :
      LET new == IF Proc.params = {} \/ pkt.frag # "no" THEN [p \in {} |-> 0]
                 ELSE Extracted(pkt.items)
          known == UpdatedH264(fpKnown, new)
          enc == EncoderFor(pkt)
          asIs == <<[seq |-> fpIn, ts |-> 0, over |-> pkt.over]>>
          d == Decode(pkt)
          out == Remux(known, d.parts)
          pkts == IF enc = NoEnc THEN asIs
                  ELSE IF d.res # "frame" \/ out = <<>> THEN <<>> ELSE Encoded(out, enc, 0)
      IN  /\ ~fpGen
          /\ ~Proc.several => pkt.last /\ pkt.frag \in {"no", "broken"}
          /\ pkt.last \/ Len(fpParts) + Len(pkt.items) <= 2         \* bound
          /\ fpFmt = "mpeg4video" => pkt.frag # "no" \/ pkt.last    \* external: a frame per run
          /\ fpKnown' = known
          /\ fpSeen' = IF pkt.frag = "no" THEN Latest(fpSeen, pkt.items) ELSE fpSeen
          /\ fpIn' = Inc(fpIn, 1)
          /\ IF pkt.over /\ enc = NoEnc
             THEN Refuse /\ UNCHANGED <<fpEnc, fpDec, fpParts, fpFrag>>
             ELSE IF ~Decodes(nonRTSP, enc)
             THEN Pass(<<>>, asIs) /\ UNCHANGED <<fpEnc, fpDec, fpParts, fpFrag>>
             ELSE /\ fpDec' = TRUE /\ fpFrag' = d.frag
                  /\ fpParts' = IF d.res = "more" THEN d.parts ELSE <<>>
                  /\ fpEnc' = IF enc = NoEnc \/ d.res = "error" THEN enc ELSE Inc(enc, Len(pkts))
                  /\ CASE d.res = "error" -> Refuse
                       [] d.res = "frame" -> Pass(out, pkts)
                       [] OTHER -> Pass(<<>>, pkts)
          /\ UNCHANGED <<fpFmt, fpGen>>

FpNext == ProcessUnit \/ ProcessOpusUnit \/ ProcessRTPPacket

FpSpec == FpInit /\ [][FpNext]_fpVars

-----------------------------------------------------------------------------

FpTypeOK ==
    /\ fpEnc \in 0..SeqRange /\ fpIn \in 0..(SeqRange - 1) /\ fpLast \in 0..(SeqRange - 1)
    /\ fpDec \in BOOLEAN /\ fpFrag \in BOOLEAN /\ fpLost \in BOOLEAN
    /\ fpKnown \in [AllParams -> 0..2] /\ fpSeen \in [AllParams -> 0..2]

\* A frame with a key picture reaches the readers with the parameters that the
\* source sent last in front of it, once each and in order, as soon as all of
\* them are known, however they came: before it, with it, in one packet or in
\* several, alone or aggregated.  (H265 units are held to it only when they
\* do not change a parameter and change it back.)
KeyFramesDecodable ==
    LET want == IF fpFmt = "h265" /\ fpGen THEN fpKnown ELSE fpSeen
        n == IF \A p \in Proc.params : want[p] # 0 THEN Cardinality(Proc.params) ELSE 0
    IN  (fpFmt \in {"h264", "h265"} /\ Contains(fpUnit, KeyPic)) =>
          /\ n < Len(fpUnit)
          /\ {fpUnit[k] : k \in 1..n} = {Par(p, want[p]) : p \in {q \in Proc.params : n # 0}}
          /\ \A k \in DOMAIN fpUnit : IsPar(fpUnit[k]) => k <= n

\* The packets of a step follow those before it and one another, and are not
\* larger than udpMaxPayloadSize.
FlowGoesOn ==
    fpPkts' # <<>> =>
      /\ ~fpLost => fpPkts'[1].seq = Inc(fpLast, 1)
      /\ \A k \in DOMAIN fpPkts' :
           /\ k > 1 => fpPkts'[k].seq = Inc(fpPkts'[k - 1].seq, 1)
           /\ ~fpPkts'[k].over

\* What the RTSP readers get is one unbroken RTP flow: every packet follows the
\* one before it, also where the processor stops to pass packets on and begins
\* to encode them itself, unless an error dropped something; and no packet is
\* larger than udpMaxPayloadSize.
RTPFlowUnbroken == [][FlowGoesOn]_fpVars
=============================================================================
