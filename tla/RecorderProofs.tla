---------------------------- MODULE RecorderProofs ----------------------------
(***************************************************************************)
(* Proofs about the recorder, for any tracks, periods, times and faults:     *)
(* its types, its headers and hooks, that no sample is lost, and where each  *)
(* sample is between two units, in memory or on disk, once and in order.     *)
(***************************************************************************)
EXTENDS MCMedia, SequenceTheorems, FiniteSetTheorems, TLAPS

-----------------------------------------------------------------------------
(* The recorder.                                                             *)

RcTimes == 0..MaxDts
RcSamples == [track: RcTracks, dts: RcTimes, key: BOOLEAN, ver: Nat]
RcFileSet == [made: Nat, complete: Nat, header: [RcTracks -> Nat], samples: Seq(RcSamples)]
RcSegments == [start: RcTimes, last: RcTimes, fi: {"nil", "open", "closed"},
               part: Seq(RcSamples), partStart: RcTimes, partEnd: RcTimes, flushed: RcTimes]
RcStates == [seg: Seq(RcSegments), next: [RcTracks -> Seq(RcSamples)], ver: [RcTracks -> Nat],
             hasVideo: BOOLEAN, buf: Seq(RcSamples), files: [RcTimes -> RcFileSet],
             taken: SUBSET RcSamples, gone: SUBSET RcSamples, fault: FaultKinds, err: BOOLEAN]

\* The samples need no later parameters than these.
Fits(samples, ver) == \A k \in 1..Len(samples) : samples[k].ver <= ver[samples[k].track]

LEMMA FitsJoin ==
    ASSUME NEW a \in Seq(RcSamples), NEW b \in Seq(RcSamples), NEW ver, Fits(a, ver), Fits(b, ver)
    PROVE  a \o b \in Seq(RcSamples) /\ Fits(a \o b, ver)
<1>1. /\ a \o b \in Seq(RcSamples) /\ Len(a \o b) = Len(a) + Len(b)
      /\ \A i \in 1..(Len(a) + Len(b)) : (a \o b)[i] = IF i <= Len(a) THEN a[i] ELSE b[i - Len(a)]
  BY ConcatProperties
<1>2. ASSUME NEW k \in 1..(Len(a) + Len(b)) PROVE (a \o b)[k].ver <= ver[(a \o b)[k].track]
  <2>1. Len(a) \in Nat /\ Len(b) \in Nat
    OBVIOUS
  <2>2. CASE k <= Len(a)
    <3>1. k \in 1..Len(a) /\ (a \o b)[k] = a[k]
      BY <1>1, <2>1, <2>2
    <3> QED BY <3>1 DEF Fits
  <2>3. CASE ~(k <= Len(a))
    <3>1. k - Len(a) \in 1..Len(b) /\ (a \o b)[k] = b[k - Len(a)]
      BY <1>1, <2>1, <2>3
    <3> QED BY <3>1 DEF Fits
  <2> QED BY <2>2, <2>3
<1> QED BY <1>1, <1>2 DEF Fits

\* A file: completed no more often than made, while no write failed exactly as
\* often but for the open one, empty until it is made, and with a header that
\* suits its samples.
FileGood(f, fmp4, clean, open) ==
    /\ f.complete <= f.made /\ (open => f.complete < f.made)
    /\ clean => f.made = f.complete + (IF open THEN 1 ELSE 0)
    /\ f.made = 0 => f.samples = <<>>
    /\ fmp4 => Fits(f.samples, f.header)

LEMMA FileCounted ==
    ASSUME NEW f \in RcFileSet PROVE [f EXCEPT !.made = @ + 1] \in RcFileSet
  BY DEF RcFileSet

LEMMA CreatedFile ==
    ASSUME NEW f \in RcFileSet, NEW ver \in [RcTracks -> Nat]
    PROVE  LET g == Created(f, ver)
           IN  /\ g \in RcFileSet /\ g.made = f.made + 1 /\ g.complete = f.complete
               /\ g.samples = <<>> /\ g.header = ver
<1>2. ASSUME NEW r \in RcFileSet, NEW s \in Seq(RcSamples) PROVE [r EXCEPT !.samples = s] \in RcFileSet
  BY ONLY <1>2 DEF RcFileSet
<1>3. ASSUME NEW r \in RcFileSet PROVE [r EXCEPT !.header = ver] \in RcFileSet
  BY <1>3 DEF RcFileSet
<1> DEFINE g1 == [f EXCEPT !.made = @ + 1]
           none == <<>>
           g2 == [g1 EXCEPT !.samples = none]
           g3 == [g2 EXCEPT !.header = ver]
<1>4. g1 \in RcFileSet /\ none \in Seq(RcSamples)
  BY FileCounted
<1>5. g2 \in RcFileSet
  <2> HIDE DEF g1, none
  <2> QED BY <1>2, <1>4
<1>6. g3 \in RcFileSet
  <2> HIDE DEF g2
  <2> QED BY <1>3, <1>5
<1>7. /\ g3.made = f.made + 1 /\ g3.complete = f.complete /\ g3.samples = <<>> /\ g3.header = ver
  BY DEF RcFileSet
<1> QED BY <1>6, <1>7 DEF Created

LEMMA FileMade ==
    ASSUME NEW f \in RcFileSet, NEW fmp4, NEW clean, NEW ver \in [RcTracks -> Nat],
           FileGood(f, fmp4, clean, FALSE)
    PROVE  /\ Created(f, ver) \in RcFileSet /\ Created(f, ver).header = ver
           /\ FileGood(Created(f, ver), fmp4, clean, TRUE)
           /\ ~clean => FileGood(Created(f, ver), fmp4, clean, FALSE)
<1> DEFINE g == Created(f, ver)
<1>1. g \in RcFileSet /\ g.made = f.made + 1 /\ g.complete = f.complete /\ g.samples = <<>> /\ g.header = ver
  BY CreatedFile
<1>2. f.made \in Nat /\ f.complete \in Nat
  BY DEF RcFileSet
<1>3. Fits(<<>>, ver)
  BY DEF Fits
<1> HIDE DEF g
<1>4. FileGood(g, fmp4, clean, TRUE) /\ (~clean => FileGood(g, fmp4, clean, FALSE))
  BY <1>1, <1>2, <1>3 DEF FileGood
<1> QED BY <1>1, <1>4 DEF g

\* A file with more samples, and one that is complete once more.
Written(f, more) == [f EXCEPT !.samples = @ \o more]
Completed(f) == [f EXCEPT !.complete = @ + 1]

LEMMA FileWritten ==
    ASSUME NEW f \in RcFileSet, NEW fmp4, NEW clean, NEW more \in Seq(RcSamples),
           FileGood(f, fmp4, clean, TRUE), fmp4 => Fits(more, f.header)
    PROVE  LET g == Written(f, more)
           IN  /\ g \in RcFileSet /\ FileGood(g, fmp4, clean, TRUE) /\ g.header = f.header
               /\ g.samples = f.samples \o more /\ g.made = f.made
<1> DEFINE g == Written(f, more)
<1>1. f.samples \in Seq(RcSamples) /\ f.samples \o more \in Seq(RcSamples)
  BY ConcatProperties DEF RcFileSet
<1>2. /\ g \in RcFileSet /\ g.made = f.made /\ g.complete = f.complete
      /\ g.samples = f.samples \o more /\ g.header = f.header
  BY <1>1 DEF RcFileSet, Written
<1>3. fmp4 => Fits(f.samples \o more, f.header)
  BY <1>1, FitsJoin DEF FileGood
<1>4. f.made \in Nat /\ f.complete \in Nat
  BY DEF RcFileSet
<1> HIDE DEF g
<1>5. f.made # 0
  BY <1>4 DEF FileGood
<1>6. FileGood(g, fmp4, clean, TRUE)
  BY <1>2, <1>3, <1>5 DEF FileGood
<1> QED BY <1>2, <1>6 DEF g

LEMMA FileDone ==
    ASSUME NEW f \in RcFileSet, NEW fmp4, NEW clean, FileGood(f, fmp4, clean, TRUE)
    PROVE  LET g == Completed(f)
           IN  /\ g \in RcFileSet /\ FileGood(g, fmp4, clean, FALSE) /\ g.header = f.header
               /\ g.samples = f.samples /\ g.made = f.made
<1> DEFINE g == Completed(f)
<1>1. /\ g \in RcFileSet /\ g.made = f.made /\ g.complete = f.complete + 1
      /\ g.samples = f.samples /\ g.header = f.header
  BY DEF RcFileSet, Completed
<1>2. f.made \in Nat /\ f.complete \in Nat
  BY DEF RcFileSet
<1> HIDE DEF g
<1>4. FileGood(g, fmp4, clean, FALSE)
  BY <1>1, <1>2 DEF FileGood
<1> QED BY <1>1, <1>4 DEF g

LEMMA FileLeft ==
    ASSUME NEW f, NEW fmp4, NEW clean, NEW open, FileGood(f, fmp4, clean, open), ~clean \/ ~open
    PROVE  FileGood(f, fmp4, clean, FALSE)
  BY DEF FileGood

\* The file of a segment is open.
OpenAt(seg, d) == seg # <<>> /\ seg[1].start = d /\ seg[1].fi = "open"
DiskGood(files, seg, fmp4, clean) ==
    \A d \in RcTimes : FileGood(files[d], fmp4, clean, OpenAt(seg, d))

\* The part suits the header of the open file, or the parameters it will get.
PartGood(files, seg, ver, fmp4) ==
    (fmp4 /\ seg # <<>>) =>
      /\ seg[1].fi = "nil" => Fits(seg[1].part, ver)
      /\ seg[1].fi = "open" => Fits(seg[1].part, files[seg[1].start].header)

\* What each step of a write keeps: clean says that no write failed so far.
StateGood(st, fmp4, clean) ==
    /\ st \in RcStates /\ (clean => st.fault = "none")
    /\ DiskGood(st.files, st.seg, fmp4, clean)
    /\ PartGood(st.files, st.seg, st.ver, fmp4)

\* What the writes of a segment do not touch.
SameTracks(st, r) ==
    /\ r.next = st.next /\ r.ver = st.ver /\ r.hasVideo = st.hasVideo
    /\ r.taken = st.taken /\ r.gone = st.gone

LEMMA StateFields ==
    ASSUME NEW st \in RcStates
    PROVE  /\ st.seg \in Seq(RcSegments) /\ st.next \in [RcTracks -> Seq(RcSamples)]
           /\ st.ver \in [RcTracks -> Nat] /\ st.hasVideo \in BOOLEAN /\ st.buf \in Seq(RcSamples)
           /\ st.files \in [RcTimes -> RcFileSet] /\ st.taken \in SUBSET RcSamples
           /\ st.gone \in SUBSET RcSamples /\ st.fault \in FaultKinds /\ st.err \in BOOLEAN
           /\ st.seg # <<>> =>
                /\ st.seg[1] \in RcSegments /\ st.seg[1].start \in RcTimes
                /\ st.seg[1].part \in Seq(RcSamples) /\ st.seg[1].fi \in {"nil", "open", "closed"}
<1>1. /\ st.seg \in Seq(RcSegments) /\ st.next \in [RcTracks -> Seq(RcSamples)]
      /\ st.ver \in [RcTracks -> Nat] /\ st.hasVideo \in BOOLEAN /\ st.buf \in Seq(RcSamples)
      /\ st.files \in [RcTimes -> RcFileSet] /\ st.taken \in SUBSET RcSamples
      /\ st.gone \in SUBSET RcSamples /\ st.fault \in FaultKinds /\ st.err \in BOOLEAN
  BY DEF RcStates
<1>2. st.seg # <<>> => st.seg[1] \in RcSegments
  BY <1>1
<1>3. \A s \in RcSegments : /\ s.start \in RcTimes /\ s.part \in Seq(RcSamples)
                            /\ s.fi \in {"nil", "open", "closed"}
  BY DEF RcSegments
<1> QED BY <1>1, <1>2, <1>3

\* Failed: an error, and nothing else.
LEMMA FailedGood ==
    ASSUME NEW st \in RcStates
    PROVE  /\ Failed(st) \in RcStates /\ Failed(st).err /\ Failed(st).fault = "none"
           /\ SameTracks(st, Failed(st)) /\ Failed(st).seg = st.seg /\ Failed(st).buf = st.buf
           /\ Failed(st).files = st.files
  BY DEF Failed, RcStates, FaultKinds, SameTracks

\* The samples on the disk, in a part, and pending; those that the writes of a
\* segment move.
Disk(files) == UNION {ToSet(files[d].samples) : d \in RcTimes}
Part(seg) == IF seg = <<>> THEN {} ELSE ToSet(seg[1].part)
Waiting(next) == UNION {ToSet(next[t]) : t \in RcTracks}
Stored(st) == Disk(st.files) \cup Part(st.seg) \cup ToSet(st.buf)

\* No file was made twice.
Fresh(files) == \A d \in RcTimes : files[d].made <= 1

\* Unless a file is made again the samples are those there were, and these.
Moves(st, r, more) == Fresh(r.files) => Fresh(st.files) /\ Stored(r) = Stored(st) \cup more

LEMMA SamplesJoined ==
    ASSUME NEW a \in Seq(RcSamples), NEW b \in Seq(RcSamples)
    PROVE  ToSet(a \o b) = ToSet(a) \cup ToSet(b)
<1>1. /\ a \o b \in Seq(RcSamples) /\ Len(a \o b) = Len(a) + Len(b)
      /\ \A i \in 1..(Len(a) + Len(b)) : (a \o b)[i] = IF i <= Len(a) THEN a[i] ELSE b[i - Len(a)]
  BY ConcatProperties
<1>2. Len(a) \in Nat /\ Len(b) \in Nat
  OBVIOUS
<1>3. ASSUME NEW x PROVE (x \in ToSet(a \o b)) <=> (x \in ToSet(a) \/ x \in ToSet(b))
  <2>1. ASSUME x \in ToSet(a \o b) PROVE x \in ToSet(a) \/ x \in ToSet(b)
    <3>1. PICK i \in 1..(Len(a) + Len(b)) : x = (a \o b)[i]
      BY <1>1, <2>1 DEF ToSet
    <3>2. CASE i <= Len(a)
      <4>1. i \in 1..Len(a) /\ x = a[i]
        BY <1>1, <1>2, <3>1, <3>2
      <4> QED BY <4>1 DEF ToSet
    <3>3. CASE ~(i <= Len(a))
      <4>1. i - Len(a) \in 1..Len(b) /\ x = b[i - Len(a)]
        BY <1>1, <1>2, <3>1, <3>3
      <4> QED BY <4>1 DEF ToSet
    <3> QED BY <3>2, <3>3
  <2>2. ASSUME x \in ToSet(a) PROVE x \in ToSet(a \o b)
    <3>1. PICK i \in 1..Len(a) : x = a[i]
      BY <2>2 DEF ToSet
    <3>2. i \in 1..(Len(a) + Len(b)) /\ (a \o b)[i] = x
      BY <1>1, <1>2, <3>1
    <3> QED BY <1>1, <3>2 DEF ToSet
  <2>3. ASSUME x \in ToSet(b) PROVE x \in ToSet(a \o b)
    <3>1. PICK i \in 1..Len(b) : x = b[i]
      BY <2>3 DEF ToSet
    <3>2. i + Len(a) \in 1..(Len(a) + Len(b)) /\ (a \o b)[i + Len(a)] = x
      BY <1>1, <1>2, <3>1
    <3> QED BY <1>1, <3>2 DEF ToSet
  <2> QED BY <2>1, <2>2, <2>3
<1> QED BY <1>3

LEMMA SampleJoined ==
    ASSUME NEW a \in Seq(RcSamples), NEW x \in RcSamples
    PROVE  ToSet(Append(a, x)) = ToSet(a) \cup {x} /\ ToSet(<<x>>) = {x}
<1>1. ToSet(<<x>>) = {x} /\ <<x>> \in Seq(RcSamples) /\ Append(a, x) = a \o <<x>>
  BY DEF ToSet
<1> QED BY <1>1, SamplesJoined

LEMMA NoSamples == ToSet(<<>>) = {}
  BY DEF ToSet

\* One file changes.
LEMMA DiskChanged ==
    ASSUME NEW files \in [RcTimes -> RcFileSet], NEW d \in RcTimes, NEW g \in RcFileSet, NEW more,
           ToSet(g.samples) = ToSet(files[d].samples) \cup more, files[d].made <= g.made
    PROVE  LET fs == [files EXCEPT ![d] = g]
           IN  Disk(fs) = Disk(files) \cup more /\ (Fresh(fs) => Fresh(files) /\ g.made <= 1)
<1> DEFINE fs == [files EXCEPT ![d] = g]
<1>1. fs[d] = g /\ \A e \in RcTimes : e # d => fs[e] = files[e]
  OBVIOUS
<1> HIDE DEF fs
<1>2. ASSUME NEW x PROVE x \in Disk(fs) <=> (x \in Disk(files) \/ x \in more)
  <2>1. x \in Disk(fs) <=> \E e \in RcTimes : x \in ToSet(fs[e].samples)
    BY DEF Disk
  <2>2. x \in Disk(files) <=> \E e \in RcTimes : x \in ToSet(files[e].samples)
    BY DEF Disk
  <2>3. \A e \in RcTimes : x \in ToSet(fs[e].samples)
          <=> (x \in ToSet(files[e].samples) \/ (e = d /\ x \in more))
    BY <1>1
  <2> QED BY <2>1, <2>2, <2>3
<1>3. Fresh(fs) => Fresh(files) /\ g.made <= 1
  <2>1. \A e \in RcTimes : files[e].made \in Nat
    BY DEF RcFileSet
  <2>2. g.made \in Nat
    BY DEF RcFileSet
  <2> QED BY <1>1, <2>1, <2>2 DEF Fresh
<1> QED BY <1>2, <1>3 DEF fs

LEMMA MovesTwice ==
    ASSUME NEW a, NEW b, NEW c, NEW x, NEW y, Moves(a, b, x), Moves(b, c, y)
    PROVE  Moves(a, c, x \cup y)
  BY DEF Moves

\* One field of the state is replaced.
LEMMA WithFiles ==
    ASSUME NEW st \in RcStates, NEW fs \in [RcTimes -> RcFileSet]
    PROVE  LET r == [st EXCEPT !.files = fs]
           IN  /\ r \in RcStates /\ SameTracks(st, r) /\ r.files = fs /\ r.seg = st.seg
               /\ r.buf = st.buf /\ r.fault = st.fault /\ r.err = st.err
  BY DEF RcStates, SameTracks

LEMMA WithSeg ==
    ASSUME NEW st \in RcStates, NEW seg \in Seq(RcSegments)
    PROVE  LET r == [st EXCEPT !.seg = seg]
           IN  /\ r \in RcStates /\ SameTracks(st, r) /\ r.files = st.files /\ r.seg = seg
               /\ r.buf = st.buf /\ r.fault = st.fault /\ r.err = st.err
  BY DEF RcStates, SameTracks

LEMMA SegUpdated ==
    ASSUME NEW seg \in Seq(RcSegments), seg # <<>>, NEW s \in RcSegments
    PROVE  /\ [seg EXCEPT ![1] = s] \in Seq(RcSegments) /\ [seg EXCEPT ![1] = s] # <<>>
           /\ [seg EXCEPT ![1] = s][1] = s
<1>1. 1 \in DOMAIN seg
  OBVIOUS
<1>2. [seg EXCEPT ![1] = s] \in Seq(RcSegments) /\ [seg EXCEPT ![1] = s][1] = s
  BY <1>1
<1>3. Len([seg EXCEPT ![1] = s]) = Len(seg) /\ Len(seg) # 0
  OBVIOUS
<1> QED BY <1>2, <1>3

LEMMA SegFi ==
    ASSUME NEW s \in RcSegments, NEW fi \in {"nil", "open", "closed"}
    PROVE  LET r == [s EXCEPT !.fi = fi]
           IN  r \in RcSegments /\ r.fi = fi /\ r.start = s.start /\ r.part = s.part
  BY DEF RcSegments

\* One file changes, that of the segment.
LEMMA DiskUpdated ==
    ASSUME NEW files \in [RcTimes -> RcFileSet], NEW seg, NEW seg2, NEW d \in RcTimes,
           NEW g \in RcFileSet, NEW fmp4, NEW clean, DiskGood(files, seg, fmp4, clean),
           seg # <<>>, seg2 # <<>>, seg[1].start = d, seg2[1].start = d,
           FileGood(g, fmp4, clean, seg2[1].fi = "open")
    PROVE  /\ [files EXCEPT ![d] = g] \in [RcTimes -> RcFileSet]
           /\ [files EXCEPT ![d] = g][d] = g
           /\ DiskGood([files EXCEPT ![d] = g], seg2, fmp4, clean)
<1>1. /\ [files EXCEPT ![d] = g] \in [RcTimes -> RcFileSet] /\ [files EXCEPT ![d] = g][d] = g
  OBVIOUS
<1>2. ASSUME NEW e \in RcTimes
      PROVE  FileGood([files EXCEPT ![d] = g][e], fmp4, clean, OpenAt(seg2, e))
  <2>1. CASE e = d
    <3>1. OpenAt(seg2, e) = (seg2[1].fi = "open")
      BY <2>1 DEF OpenAt
    <3> QED BY <1>1, <2>1, <3>1
  <2>2. CASE e # d
    <3>1. OpenAt(seg2, e) = FALSE /\ OpenAt(seg, e) = FALSE /\ [files EXCEPT ![d] = g][e] = files[e]
      BY <2>2 DEF OpenAt
    <3>2. FileGood(files[e], fmp4, clean, OpenAt(seg, e))
      BY DEF DiskGood
    <3> QED BY <3>1, <3>2
  <2> QED BY <2>1, <2>2
<1> QED BY <1>1, <1>2 DEF DiskGood

\* The segment that was not written yet, its file now open.
LEMMA OpenFileGood ==
    ASSUME NEW st, NEW fmp4, NEW clean \in BOOLEAN, NEW withHeader \in BOOLEAN,
           StateGood(st, fmp4, clean), st.seg # <<>>, st.seg[1].fi = "nil", ~st.err
    PROVE  LET r == OpenFile(st, withHeader)
           IN  /\ StateGood(r, fmp4, clean) /\ SameTracks(st, r) /\ r.buf = st.buf
               /\ r.seg # <<>> /\ r.seg[1].start = st.seg[1].start /\ r.seg[1].part = st.seg[1].part
               /\ r.err => ~clean /\ r.seg[1].fi = "nil"
               /\ ~r.err => r.seg[1].fi = "open" /\ r.files[r.seg[1].start].header = st.ver
               /\ ~r.err => Moves(st, r, {})
<1> DEFINE s == st.seg[1]
           d == s.start
           g == Created(st.files[d], st.ver)
           fs == [st.files EXCEPT ![d] = g]
           created == [st EXCEPT !.files = fs]
           s2 == [s EXCEPT !.fi = "open"]
           seg2 == [st.seg EXCEPT ![1] = s2]
           r == OpenFile(st, withHeader)
<1>1. /\ st \in RcStates /\ (clean => st.fault = "none")
      /\ DiskGood(st.files, st.seg, fmp4, clean) /\ PartGood(st.files, st.seg, st.ver, fmp4)
  BY DEF StateGood
<1>2. /\ st.files \in [RcTimes -> RcFileSet] /\ st.ver \in [RcTracks -> Nat]
      /\ st.seg \in Seq(RcSegments) /\ s \in RcSegments /\ d \in RcTimes /\ st.err \in BOOLEAN
  BY <1>1, StateFields
<1>3. FileGood(st.files[d], fmp4, clean, FALSE) /\ st.files[d] \in RcFileSet
  <2>1. OpenAt(st.seg, d) = FALSE
    BY DEF OpenAt
  <2>2. FileGood(st.files[d], fmp4, clean, OpenAt(st.seg, d))
    BY <1>1, <1>2 DEF DiskGood
  <2> QED BY <1>2, <2>1, <2>2
<1>4. s2 \in RcSegments /\ s2.fi = "open" /\ s2.start = d /\ s2.part = s.part
  BY <1>2, SegFi
<1>5. seg2 \in Seq(RcSegments) /\ seg2 # <<>> /\ seg2[1] = s2
  <2> HIDE DEF s2
  <2> QED BY <1>2, <1>4, SegUpdated
<1>6. r = IF st.fault = "create" THEN Failed(st)
          ELSE IF withHeader /\ st.fault = "init" THEN Failed(created)
          ELSE [created EXCEPT !.seg = seg2]
  <2>1. created.seg = st.seg
    BY <1>1 DEF RcStates
  <2>2. [created EXCEPT !.seg[1].fi = "open"] = [created EXCEPT !.seg = seg2]
    <3>1. [created EXCEPT !.seg[1].fi = "open"] =
            [created EXCEPT !.seg = [created.seg EXCEPT ![1] = [created.seg[1] EXCEPT !.fi = "open"]]]
      BY Zenon
    <3> HIDE DEF created
    <3> QED BY Zenon, <2>1, <3>1
  <2>3. created = [st EXCEPT !.files[s.start] = Created(@, st.ver)]
    BY Zenon
  <2> HIDE DEF created, seg2, g, fs, s2
  <2> QED BY Zenon, <2>2, <2>3 DEF OpenFile
<1>7. CASE st.fault = "create"
  <2>1. r = Failed(st)
    BY <1>6, <1>7
  <2>2. /\ r \in RcStates /\ r.err /\ r.fault = "none" /\ SameTracks(st, r) /\ r.seg = st.seg
        /\ r.buf = st.buf /\ r.files = st.files
    BY <1>1, <2>1, FailedGood
  <2> HIDE DEF r
  <2>3. ~clean /\ r.ver = st.ver
    BY <1>1, <1>7, <2>2 DEF SameTracks
  <2>4. StateGood(r, fmp4, clean)
    BY <1>1, <2>2, <2>3 DEF StateGood
  <2> QED BY <2>2, <2>3, <2>4 DEF r
<1> HIDE DEF s2, g, seg2
<1>8. CASE st.fault # "create" /\ withHeader /\ st.fault = "init"
  <2>1. ~clean
    BY <1>1, <1>8
  <2>2. g \in RcFileSet /\ FileGood(g, fmp4, clean, FALSE) /\ g.header = st.ver
    BY <1>2, <1>3, <2>1, FileMade DEF g
  <2>3. fs \in [RcTimes -> RcFileSet] /\ DiskGood(fs, st.seg, fmp4, clean)
    <3>1. (st.seg[1].fi = "open") = FALSE
      OBVIOUS
    <3>2. FileGood(g, fmp4, clean, st.seg[1].fi = "open")
      BY <2>2, <3>1
    <3> QED BY <1>1, <1>2, <2>2, <3>2, DiskUpdated
  <2> HIDE DEF fs
  <2>4. /\ created \in RcStates /\ SameTracks(st, created) /\ created.files = fs /\ created.seg = st.seg
        /\ created.buf = st.buf
    BY <1>1, <2>3, WithFiles
  <2> HIDE DEF created
  <2>5. r = Failed(created)
    BY <1>6, <1>8
  <2>6. /\ r \in RcStates /\ r.err /\ r.fault = "none" /\ SameTracks(created, r) /\ r.seg = st.seg
        /\ r.buf = st.buf /\ r.files = fs
    BY <2>4, <2>5, FailedGood
  <2> HIDE DEF r
  <2>7. SameTracks(st, r)
    BY <2>4, <2>6 DEF SameTracks
  <2>8. PartGood(fs, st.seg, st.ver, fmp4)
    BY <1>1 DEF PartGood
  <2>9. StateGood(r, fmp4, clean)
    BY <2>1, <2>3, <2>6, <2>7, <2>8 DEF StateGood, SameTracks
  <2> QED BY <2>1, <2>6, <2>7, <2>9 DEF r
<1>9. CASE st.fault # "create" /\ ~(withHeader /\ st.fault = "init")
  <2>2. g \in RcFileSet /\ FileGood(g, fmp4, clean, TRUE) /\ g.header = st.ver
    BY <1>2, <1>3, FileMade DEF g
  <2>3. fs \in [RcTimes -> RcFileSet] /\ fs[d] = g /\ DiskGood(fs, seg2, fmp4, clean)
    <3>1. (seg2[1].fi = "open") = TRUE /\ seg2[1].start = d
      BY <1>4, <1>5
    <3>2. FileGood(g, fmp4, clean, seg2[1].fi = "open")
      BY <2>2, <3>1
    <3> QED BY <1>1, <1>2, <1>5, <2>2, <3>1, <3>2, DiskUpdated
  <2> HIDE DEF fs
  <2>4. /\ created \in RcStates /\ SameTracks(st, created) /\ created.files = fs /\ created.seg = st.seg
        /\ created.buf = st.buf /\ created.err = st.err /\ created.fault = st.fault
    BY <1>1, <2>3, WithFiles
  <2> HIDE DEF created
  <2>5. r = [created EXCEPT !.seg = seg2]
    BY <1>6, <1>9
  <2>6. /\ r \in RcStates /\ r.err = st.err /\ r.fault = st.fault /\ SameTracks(created, r) /\ r.seg = seg2
        /\ r.buf = st.buf /\ r.files = fs
    BY <1>5, <2>4, <2>5, WithSeg
  <2> HIDE DEF r
  <2>7. SameTracks(st, r)
    BY <2>4, <2>6 DEF SameTracks
  <2>8. PartGood(fs, seg2, st.ver, fmp4)
    BY <1>1, <1>4, <1>5, <2>2, <2>3 DEF PartGood
  <2>9. StateGood(r, fmp4, clean)
    BY <1>1, <2>3, <2>6, <2>7, <2>8 DEF StateGood, SameTracks
  <2>10. r.seg[1].fi = "open" /\ r.seg[1].start = d /\ r.seg[1].part = s.part /\ r.files[d].header = st.ver
    BY <1>4, <1>5, <2>2, <2>3, <2>6
  <2>11. Moves(st, r, {})
    <3>1. g.made = st.files[d].made + 1 /\ g.samples = <<>> /\ g \in RcFileSet
      BY <1>2, <1>3, CreatedFile DEF g
    <3>2. st.files[d].made \in Nat /\ (st.files[d].made = 0 => st.files[d].samples = <<>>)
      BY <1>3 DEF RcFileSet, FileGood
    <3>3. fs = [st.files EXCEPT ![d] = g]
      BY DEF fs
    <3> HIDE DEF d
    <3>4. Fresh(fs) => Fresh(st.files) /\ Disk(fs) = Disk(st.files)
      <4> SUFFICES ASSUME Fresh(fs) PROVE Fresh(st.files) /\ Disk(fs) = Disk(st.files)
        OBVIOUS
      <4>1. fs[d].made <= 1 /\ fs[d] = g
        BY <1>2, <3>3 DEF Fresh
      <4>2. st.files[d].samples = <<>> /\ st.files[d].made <= g.made
        BY <3>1, <3>2, <4>1
      <4>3. ToSet(g.samples) = ToSet(st.files[d].samples) \cup {}
        BY <3>1, <4>2
      <4>4. Disk(fs) = Disk(st.files) \cup {} /\ (Fresh(fs) => Fresh(st.files))
        BY <1>2, <3>1, <3>3, <4>2, <4>3, DiskChanged
      <4> QED BY <4>4
    <3>5. Part(seg2) = Part(st.seg)
      BY <1>4, <1>5 DEF Part
    <3> QED BY <2>6, <3>4, <3>5 DEF Moves, Stored
  <2> QED BY <1>5, <2>6, <2>7, <2>9, <2>10, <2>11 DEF r
<1> QED BY <1>7, <1>8, <1>9

\* A part that is written.
LEMMA PartCloseGood ==
    ASSUME NEW st, NEW fmp4, NEW clean \in BOOLEAN, StateGood(st, fmp4, clean), st.seg # <<>>, ~st.err
    PROVE  LET r == PartClose(st)
           IN  /\ StateGood(r, fmp4, clean) /\ SameTracks(st, r) /\ r.buf = st.buf
               /\ r.seg # <<>> /\ r.seg[1].start = st.seg[1].start /\ r.seg[1].part = st.seg[1].part
               /\ r.err => ~clean \/ st.seg[1].fi = "closed"
               /\ r.seg[1].fi = "closed" => st.seg[1].fi = "closed"
               /\ ~r.err => /\ r.seg[1].fi = "open"
                            /\ \/ st.seg[1].fi = "nil" /\ r.files[r.seg[1].start].header = st.ver
                               \/ st.seg[1].fi = "open"
                                  /\ r.files[r.seg[1].start].header = st.files[st.seg[1].start].header
               /\ ~r.err => Moves(st, r, {}) /\ Part(r.seg) \subseteq Disk(r.files)
<1> DEFINE opened == IF st.seg[1].fi = "nil" THEN OpenFile(st, TRUE) ELSE st
           d == st.seg[1].start
           r == PartClose(st)
<1>1. /\ StateGood(opened, fmp4, clean) /\ SameTracks(st, opened) /\ opened.buf = st.buf
      /\ opened.seg # <<>> /\ opened.seg[1].start = d /\ opened.seg[1].part = st.seg[1].part
      /\ opened.err => ~clean /\ opened.seg[1].fi = "nil"
      /\ opened.seg[1].fi = "closed" => st.seg[1].fi = "closed"
      /\ ~opened.err => opened.seg[1].fi \in {"open", "closed"}
      /\ (~opened.err /\ opened.seg[1].fi = "open") =>
           \/ st.seg[1].fi = "nil" /\ opened.files[d].header = st.ver
           \/ st.seg[1].fi = "open" /\ opened.files[d].header = st.files[d].header
      /\ ~opened.err => Moves(st, opened, {})
  <2>1. CASE st.seg[1].fi = "nil"
    <3>1. opened = OpenFile(st, TRUE) /\ TRUE \in BOOLEAN
      BY <2>1
    <3> HIDE DEF opened
    <3> QED BY <2>1, <3>1, OpenFileGood
  <2>2. CASE st.seg[1].fi # "nil"
    <3>1. opened = st
      BY <2>2
    <3>2. st.seg[1].fi \in {"nil", "open", "closed"}
      BY StateFields DEF StateGood
    <3> HIDE DEF opened
    <3> QED BY <2>2, <3>1, <3>2 DEF SameTracks, Moves
  <2> QED BY <2>1, <2>2
<1> DEFINE g == Written(opened.files[d], opened.seg[1].part)
           fs == [opened.files EXCEPT ![d] = g]
<1>2. r = IF opened.err THEN opened
          ELSE IF opened.seg[1].fi = "closed" \/ opened.fault = "data" THEN Failed(opened)
          ELSE [opened EXCEPT !.files = fs]
  <2>1. opened.seg[1].start = d
    BY <1>1
  <2>2. fs = [opened.files EXCEPT ![opened.seg[1].start].samples = @ \o opened.seg[1].part]
    BY Zenon, <2>1 DEF Written
  <2>3. [opened EXCEPT !.files[opened.seg[1].start].samples = @ \o opened.seg[1].part] =
          [opened EXCEPT !.files = fs]
    <3> HIDE DEF fs, opened
    <3> QED BY Zenon, <2>2
  <2>4. r = IF opened.err THEN opened
            ELSE IF opened.seg[1].fi = "closed" THEN Failed(opened)
            ELSE IF opened.fault = "data" THEN Failed(opened)
            ELSE [opened EXCEPT !.files[opened.seg[1].start].samples = @ \o opened.seg[1].part]
    BY Zenon DEF PartClose
  <2> HIDE DEF fs, opened, r
  <2> QED BY Zenon, <2>3, <2>4
<1> HIDE DEF opened
<1>3. /\ opened \in RcStates /\ (clean => opened.fault = "none")
      /\ DiskGood(opened.files, opened.seg, fmp4, clean)
      /\ PartGood(opened.files, opened.seg, opened.ver, fmp4)
  BY <1>1 DEF StateGood
<1>4. CASE opened.err
  <2>1. r = opened
    BY <1>2, <1>4
  <2> HIDE DEF r
  <2> QED BY <1>1, <1>4, <2>1 DEF r
<1>5. CASE ~opened.err /\ (opened.seg[1].fi = "closed" \/ opened.fault = "data")
  <2>1. r = Failed(opened)
    BY <1>2, <1>5
  <2>2. /\ r \in RcStates /\ r.err /\ r.fault = "none" /\ SameTracks(opened, r) /\ r.seg = opened.seg
        /\ r.buf = opened.buf /\ r.files = opened.files
    BY <1>3, <2>1, FailedGood
  <2> HIDE DEF r
  <2>3. SameTracks(st, r) /\ r.ver = opened.ver
    BY <1>1, <2>2 DEF SameTracks
  <2>4. StateGood(r, fmp4, clean)
    BY <1>3, <2>2, <2>3 DEF StateGood
  <2>5. ~clean \/ st.seg[1].fi = "closed"
    BY <1>1, <1>3, <1>5
  <2> QED BY <1>1, <2>2, <2>3, <2>4, <2>5 DEF r
<1>6. CASE ~opened.err /\ ~(opened.seg[1].fi = "closed" \/ opened.fault = "data")
  <2>1. opened.seg[1].fi = "open"
    BY <1>1, <1>6
  <2>2. /\ opened.files \in [RcTimes -> RcFileSet] /\ d \in RcTimes /\ opened.files[d] \in RcFileSet
        /\ opened.seg[1].part \in Seq(RcSamples)
    BY <1>1, <1>3, StateFields
  <2>3. FileGood(opened.files[d], fmp4, clean, TRUE)
    <3>1. OpenAt(opened.seg, d) = TRUE
      BY <1>1, <2>1 DEF OpenAt
    <3>2. FileGood(opened.files[d], fmp4, clean, OpenAt(opened.seg, d))
      BY <1>3, <2>2 DEF DiskGood
    <3> QED BY <3>1, <3>2
  <2>4. fmp4 => Fits(opened.seg[1].part, opened.files[d].header)
    BY <1>1, <1>3, <2>1 DEF PartGood
  <2>5. /\ g \in RcFileSet /\ FileGood(g, fmp4, clean, TRUE) /\ g.header = opened.files[d].header
        /\ g.samples = opened.files[d].samples \o opened.seg[1].part /\ g.made = opened.files[d].made
    BY <2>2, <2>3, <2>4, FileWritten
  <2> HIDE DEF g
  <2>6. fs \in [RcTimes -> RcFileSet] /\ fs[d] = g /\ DiskGood(fs, opened.seg, fmp4, clean)
    <3>1. (opened.seg[1].fi = "open") = TRUE
      BY <2>1
    <3>2. FileGood(g, fmp4, clean, opened.seg[1].fi = "open")
      BY <2>5, <3>1
    <3>3. /\ opened.seg # <<>> /\ opened.seg[1].start = d /\ DiskGood(opened.files, opened.seg, fmp4, clean)
          /\ opened.files \in [RcTimes -> RcFileSet] /\ d \in RcTimes /\ g \in RcFileSet
      BY <1>1, <1>3, <2>2, <2>5
    <3> HIDE DEF d
    <3> QED BY ONLY <3>2, <3>3, DiskUpdated
  <2> HIDE DEF fs
  <2>7. r = [opened EXCEPT !.files = fs]
    BY <1>2, <1>6
  <2>8. /\ r \in RcStates /\ SameTracks(opened, r) /\ r.files = fs /\ r.seg = opened.seg
        /\ r.buf = opened.buf /\ r.fault = opened.fault /\ r.err = opened.err
    BY <1>3, <2>6, <2>7, WithFiles
  <2> HIDE DEF r
  <2>9. SameTracks(st, r)
    BY <1>1, <2>8 DEF SameTracks
  <2>10. PartGood(fs, opened.seg, opened.ver, fmp4)
    BY <1>1, <2>1, <2>4, <2>5, <2>6 DEF PartGood
  <2>11. StateGood(r, fmp4, clean)
    BY <1>3, <2>6, <2>8, <2>10 DEF StateGood, SameTracks
  <2>12. r.files[d].header = opened.files[d].header
    BY <2>5, <2>6, <2>8
  <2>13. Moves(st, r, {}) /\ Part(r.seg) \subseteq Disk(r.files)
    <3> DEFINE p == ToSet(opened.seg[1].part)
               f == opened.files[d]
    <3>1. f.samples \in Seq(RcSamples) /\ f.made \in Nat
      BY <2>2 DEF RcFileSet
    <3>2. ToSet(g.samples) = ToSet(f.samples) \cup p /\ f.made <= g.made
      <4> DEFINE a == f.samples
                 b == opened.seg[1].part
      <4>1. a \in Seq(RcSamples) /\ b \in Seq(RcSamples) /\ g.samples = a \o b
        BY <2>2, <2>5, <3>1
      <4> HIDE DEF a, b
      <4>2. ToSet(g.samples) = ToSet(a) \cup ToSet(b)
        BY ONLY <4>1, SamplesJoined
      <4>3. f.made <= g.made
        <5>1. g.made = f.made /\ f.made \in Nat
          BY <2>5, <3>1
        <5> HIDE DEF f
        <5> QED BY ONLY <5>1
      <4> QED BY <4>2, <4>3 DEF a, b
    <3>3. fs = [opened.files EXCEPT ![d] = g]
      BY DEF fs
    <3>8. opened.files \in [RcTimes -> RcFileSet] /\ d \in RcTimes /\ g \in RcFileSet
      BY <2>2, <2>5
    <3> HIDE DEF p, d
    <3>4. Disk(fs) = Disk(opened.files) \cup p /\ (Fresh(fs) => Fresh(opened.files))
      BY ONLY <3>2, <3>3, <3>8, DiskChanged
    <3>5. Part(opened.seg) = p
      BY <1>1 DEF Part, p
    <3>6. Moves(opened, r, {}) /\ Part(r.seg) \subseteq Disk(r.files)
      BY <2>8, <3>4, <3>5 DEF Moves, Stored
    <3>7. Moves(st, opened, {})
      BY <1>1, <1>6
    <3> QED BY <3>6, <3>7 DEF Moves
  <2> QED BY <1>1, <1>6, <2>1, <2>8, <2>9, <2>11, <2>12, <2>13 DEF r
<1> QED BY <1>4, <1>5, <1>6

\* The file of a segment that ends.
LEMMA FileCloseGood ==
    ASSUME NEW st, NEW fmp4, NEW clean \in BOOLEAN, StateGood(st, fmp4, clean), st.seg # <<>>, ~st.err
    PROVE  LET r == FileClose(st)
           IN  /\ StateGood(r, fmp4, clean) /\ SameTracks(st, r) /\ r.buf = st.buf
               /\ r.seg # <<>> /\ r.seg[1].start = st.seg[1].start /\ r.seg[1].part = st.seg[1].part
               /\ r.err => ~clean \/ st.seg[1].fi = "closed"
               /\ r.seg[1].fi # "open"
               /\ st.seg[1].fi = "nil" => r = st
               /\ ~r.err => Moves(st, r, {}) /\ Disk(r.files) = Disk(st.files)
<1> DEFINE s == st.seg[1]
           d == s.start
           s2 == [s EXCEPT !.fi = "closed"]
           seg2 == [st.seg EXCEPT ![1] = s2]
           g == Completed(st.files[d])
           fs == [st.files EXCEPT ![d] = g]
           closed == [st EXCEPT !.seg = seg2]
           done == [closed EXCEPT !.files = fs]
           r == FileClose(st)
<1>1. /\ st \in RcStates /\ (clean => st.fault = "none")
      /\ DiskGood(st.files, st.seg, fmp4, clean) /\ PartGood(st.files, st.seg, st.ver, fmp4)
  BY DEF StateGood
<1>2. /\ st.files \in [RcTimes -> RcFileSet] /\ st.seg \in Seq(RcSegments) /\ s \in RcSegments
      /\ d \in RcTimes /\ st.err \in BOOLEAN /\ st.files[d] \in RcFileSet
      /\ s.fi \in {"nil", "open", "closed"}
  BY <1>1, StateFields
<1>3. s2 \in RcSegments /\ s2.fi = "closed" /\ s2.start = d /\ s2.part = s.part
  BY <1>2, SegFi
<1>4. seg2 \in Seq(RcSegments) /\ seg2 # <<>> /\ seg2[1] = s2
  <2> HIDE DEF s2
  <2> QED BY <1>2, <1>3, SegUpdated
<1>5. /\ closed \in RcStates /\ SameTracks(st, closed) /\ closed.files = st.files /\ closed.seg = seg2
      /\ closed.buf = st.buf /\ closed.fault = st.fault /\ closed.err = st.err
  <2> HIDE DEF seg2
  <2> QED BY <1>1, <1>4, WithSeg
<1>6. r = IF s.fi = "nil" THEN st
          ELSE IF s.fi = "closed" \/ st.fault = "close" THEN Failed(closed)
          ELSE IF st.fault = "duration" /\ rcFormat = "fmp4" THEN Failed(done)
          ELSE done
  <2>1. closed = [st EXCEPT !.seg[1].fi = "closed"]
    BY Zenon
  <2>2. done = [closed EXCEPT !.files[st.seg[1].start].complete = @ + 1]
    <3>1. closed.files = st.files
      BY <1>5
    <3>2. [closed EXCEPT !.files[st.seg[1].start].complete = @ + 1] =
            [closed EXCEPT !.files = [closed.files EXCEPT ![d] = Completed(closed.files[d])]]
      BY Zenon DEF Completed
    <3> HIDE DEF closed
    <3> QED BY Zenon, <3>1, <3>2
  <2> DEFINE closedAt == [st EXCEPT !.seg[1].fi = "closed"]
             doneAt(c) == [c EXCEPT !.files[st.seg[1].start].complete = @ + 1]
  <2>3. r = IF s.fi = "nil" THEN st
            ELSE IF s.fi = "closed" \/ st.fault = "close" THEN Failed(closedAt)
            ELSE IF st.fault = "duration" /\ rcFormat = "fmp4" THEN Failed(doneAt(closedAt))
            ELSE doneAt(closedAt)
    BY Zenon DEF FileClose
  <2>4. closedAt = closed /\ doneAt(closed) = done
    BY Zenon, <2>1, <2>2
  <2> HIDE DEF closed, done, closedAt, doneAt, r
  <2> QED BY Zenon, <2>3, <2>4
<1>7. PartGood(st.files, seg2, st.ver, fmp4) /\ PartGood(fs, seg2, st.ver, fmp4)
  BY <1>3, <1>4 DEF PartGood
<1>8. OpenAt(seg2, d) = FALSE /\ (seg2[1].fi = "open") = FALSE /\ seg2[1].start = d
  BY <1>3, <1>4 DEF OpenAt
<1>9. FileGood(st.files[d], fmp4, clean, OpenAt(st.seg, d))
  BY <1>1, <1>2 DEF DiskGood
<1> HIDE DEF s2, seg2, g
<1>10. CASE s.fi = "nil"
  <2>1. r = st
    BY <1>6, <1>10
  <2> HIDE DEF r
  <2> QED BY <1>10, <2>1 DEF r, SameTracks, Moves
<1>11. CASE s.fi # "nil" /\ (s.fi = "closed" \/ st.fault = "close")
  <2>1. r = Failed(closed)
    BY <1>6, <1>11
  <2> HIDE DEF closed
  <2>2. /\ r \in RcStates /\ r.err /\ r.fault = "none" /\ SameTracks(closed, r) /\ r.seg = seg2
        /\ r.buf = st.buf /\ r.files = st.files
    BY <1>5, <2>1, FailedGood
  <2> HIDE DEF r
  <2>3. SameTracks(st, r) /\ r.ver = st.ver
    BY <1>5, <2>2 DEF SameTracks
  <2>4. ~clean \/ s.fi = "closed"
    BY <1>1, <1>11
  <2>5. DiskGood(st.files, seg2, fmp4, clean)
    <3> SUFFICES ASSUME NEW e \in RcTimes
                 PROVE  FileGood(st.files[e], fmp4, clean, OpenAt(seg2, e))
      BY DEF DiskGood
    <3>1. FileGood(st.files[e], fmp4, clean, OpenAt(st.seg, e))
      BY <1>1 DEF DiskGood
    <3>2. OpenAt(seg2, e) = FALSE
      BY <1>3, <1>4 DEF OpenAt
    <3>3. ~clean \/ ~OpenAt(st.seg, e)
      BY <2>4 DEF OpenAt
    <3>4. FileGood(st.files[e], fmp4, clean, FALSE)
      BY <3>1, <3>3 DEF FileGood
    <3> QED BY <3>2, <3>4
  <2>6. StateGood(r, fmp4, clean)
    BY <1>7, <2>2, <2>3, <2>5 DEF StateGood
  <2> QED BY <1>3, <1>4, <1>11, <2>2, <2>3, <2>4, <2>6 DEF r
<1>12. CASE ~(s.fi = "nil") /\ ~(s.fi = "closed" \/ st.fault = "close")
  <2>1. s.fi = "open" /\ OpenAt(st.seg, d) = TRUE
    BY <1>2, <1>12 DEF OpenAt
  <2>2. FileGood(st.files[d], fmp4, clean, TRUE)
    BY <1>9, <2>1
  <2>3. /\ g \in RcFileSet /\ FileGood(g, fmp4, clean, FALSE)
        /\ g.samples = st.files[d].samples /\ g.made = st.files[d].made
    BY <1>2, <2>2, FileDone DEF g
  <2>4. fs \in [RcTimes -> RcFileSet] /\ DiskGood(fs, seg2, fmp4, clean)
    <3>1. FileGood(g, fmp4, clean, seg2[1].fi = "open")
      BY <1>8, <2>3
    <3>2. /\ st.files \in [RcTimes -> RcFileSet] /\ d \in RcTimes /\ g \in RcFileSet
          /\ DiskGood(st.files, st.seg, fmp4, clean) /\ st.seg # <<>> /\ seg2 # <<>>
          /\ st.seg[1].start = d /\ seg2[1].start = d
      BY <1>1, <1>2, <1>4, <1>8, <2>3
    <3> HIDE DEF d
    <3> QED BY ONLY <3>1, <3>2, DiskUpdated
  <2> HIDE DEF fs, closed
  <2>5. /\ done \in RcStates /\ SameTracks(closed, done) /\ done.files = fs /\ done.seg = seg2
        /\ done.buf = st.buf /\ done.fault = st.fault /\ done.err = st.err
    BY <1>5, <2>4, WithFiles
  <2> HIDE DEF done
  <2>6. SameTracks(st, done)
    BY <1>5, <2>5 DEF SameTracks
  <2>7. StateGood(done, fmp4, clean)
    BY <1>1, <1>7, <2>4, <2>5, <2>6 DEF StateGood, SameTracks
  <2>10. Moves(st, done, {}) /\ Disk(done.files) = Disk(st.files)
    <3>1. st.files[d].made \in Nat
      BY <1>2 DEF RcFileSet
    <3>2. ToSet(g.samples) = ToSet(st.files[d].samples) \cup {} /\ st.files[d].made <= g.made
      BY <2>3, <3>1
    <3>3. fs = [st.files EXCEPT ![d] = g]
      BY DEF fs
    <3>4. st.files \in [RcTimes -> RcFileSet] /\ d \in RcTimes /\ g \in RcFileSet
      BY <1>2, <2>3
    <3> HIDE DEF d
    <3>5. Disk(fs) = Disk(st.files) \cup {} /\ (Fresh(fs) => Fresh(st.files))
      BY ONLY <3>2, <3>3, <3>4, DiskChanged
    <3>6. Part(done.seg) = Part(st.seg)
      BY <1>3, <1>4, <2>5 DEF Part
    <3> QED BY <2>5, <3>5, <3>6 DEF Moves, Stored
  <2>8. CASE st.fault = "duration" /\ rcFormat = "fmp4"
    <3>1. r = Failed(done)
      BY <1>6, <1>12, <2>8
    <3>2. /\ r \in RcStates /\ r.err /\ r.fault = "none" /\ SameTracks(done, r) /\ r.seg = done.seg
          /\ r.buf = done.buf /\ r.files = done.files
      BY <2>5, <3>1, FailedGood
    <3> HIDE DEF r
    <3>3. SameTracks(st, r) /\ r.ver = done.ver
      BY <2>6, <3>2 DEF SameTracks
    <3>4. StateGood(r, fmp4, clean)
      BY <2>7, <3>2, <3>3 DEF StateGood
    <3>5. ~clean
      BY <1>1, <2>8
    <3> QED BY <1>3, <1>4, <2>1, <2>5, <3>2, <3>3, <3>4, <3>5 DEF r
  <2>9. CASE ~(st.fault = "duration" /\ rcFormat = "fmp4")
    <3>1. r = done
      BY <1>6, <1>12, <2>9
    <3> HIDE DEF r
    <3> QED BY <1>2, <1>3, <1>4, <2>1, <2>5, <2>6, <2>7, <2>10, <3>1 DEF r
  <2> QED BY <2>8, <2>9
<1> QED BY <1>10, <1>11, <1>12

LEMMA WithErr ==
    ASSUME NEW st, NEW fmp4, NEW clean, NEW e \in BOOLEAN, StateGood(st, fmp4, clean)
    PROVE  LET r == [st EXCEPT !.err = e]
           IN  /\ StateGood(r, fmp4, clean) /\ SameTracks(st, r) /\ r.files = st.files /\ r.seg = st.seg
               /\ r.buf = st.buf /\ r.fault = st.fault /\ r.err = e
<1> DEFINE r == [st EXCEPT !.err = e]
<1>1. st \in RcStates
  BY DEF StateGood
<1>2. /\ r \in RcStates /\ SameTracks(st, r) /\ r.files = st.files /\ r.seg = st.seg
      /\ r.buf = st.buf /\ r.fault = st.fault /\ r.err = e
  BY <1>1 DEF RcStates, SameTracks
<1> HIDE DEF r
<1>3. StateGood(r, fmp4, clean)
  BY <1>2 DEF StateGood, SameTracks
<1> QED BY <1>2, <1>3 DEF r

\* The file of a segment that ends after another step, whose error counts too.
LEMMA ClosedAfter ==
    ASSUME NEW st, NEW closed, NEW fmp4, NEW clean \in BOOLEAN, StateGood(closed, fmp4, clean),
           SameTracks(st, closed), closed.seg # <<>>, closed.seg[1].start = st.seg[1].start,
           closed.err => ~clean \/ st.seg[1].fi = "closed",
           closed.seg[1].fi = "closed" => st.seg[1].fi = "closed"
    PROVE  LET ended == FileClose([closed EXCEPT !.err = FALSE])
               r == [ended EXCEPT !.err = @ \/ closed.err]
           IN  /\ StateGood(r, fmp4, clean) /\ SameTracks(st, r) /\ r.buf = closed.buf
               /\ r.seg # <<>> /\ r.seg[1].start = st.seg[1].start /\ r.seg[1].part = closed.seg[1].part
               /\ r.err => ~clean \/ st.seg[1].fi = "closed"
               /\ closed.err => r.err
               /\ r.seg[1].fi # "open"
               /\ ~r.err => Moves(closed, r, {}) /\ Disk(r.files) = Disk(closed.files)
<1> DEFINE c == [closed EXCEPT !.err = FALSE]
           ended == FileClose(c)
           e == ended.err \/ closed.err
           r == [ended EXCEPT !.err = e]
<1>1. /\ StateGood(c, fmp4, clean) /\ SameTracks(closed, c) /\ c.files = closed.files /\ c.seg = closed.seg
      /\ c.buf = closed.buf /\ ~c.err
  <2>1. FALSE \in BOOLEAN
    OBVIOUS
  <2> QED BY <2>1, WithErr
<1> HIDE DEF c
<1>2. /\ StateGood(ended, fmp4, clean) /\ SameTracks(c, ended) /\ ended.buf = c.buf
      /\ ended.seg # <<>> /\ ended.seg[1].start = c.seg[1].start /\ ended.seg[1].part = c.seg[1].part
      /\ ended.err => ~clean \/ c.seg[1].fi = "closed"
      /\ ended.seg[1].fi # "open"
      /\ ~ended.err => Moves(c, ended, {}) /\ Disk(ended.files) = Disk(c.files)
  BY <1>1, FileCloseGood
<1> HIDE DEF ended
<1>3. e \in BOOLEAN /\ (e <=> ended.err \/ closed.err)
  OBVIOUS
<1> HIDE DEF e
<1>4. /\ StateGood(r, fmp4, clean) /\ SameTracks(ended, r) /\ r.files = ended.files /\ r.seg = ended.seg
      /\ r.buf = ended.buf /\ r.err = e
  BY <1>2, <1>3, WithErr
<1> HIDE DEF r
<1>5. SameTracks(st, r)
  BY <1>1, <1>2, <1>4 DEF SameTracks
<1>6. r.err => ~clean \/ st.seg[1].fi = "closed"
  BY <1>1, <1>2, <1>3, <1>4
<1>7. ~r.err => Moves(closed, r, {}) /\ Disk(r.files) = Disk(closed.files)
  BY <1>1, <1>2, <1>3, <1>4 DEF Moves, Stored
<1> QED BY <1>1, <1>2, <1>3, <1>4, <1>5, <1>6, <1>7 DEF r, e, ended, c

LEMMA SegmentCloseGood ==
    ASSUME NEW st, NEW fmp4, NEW clean \in BOOLEAN, StateGood(st, fmp4, clean), st.seg # <<>>, ~st.err
    PROVE  LET r == Fmp4SegmentClose(st)
           IN  /\ StateGood(r, fmp4, clean) /\ SameTracks(st, r) /\ r.buf = st.buf
               /\ r.seg # <<>> /\ r.seg[1].start = st.seg[1].start
               /\ r.err => ~clean \/ st.seg[1].fi = "closed"
               /\ r.seg[1].fi # "open"
               /\ ~r.err => Moves(st, r, {}) /\ Part(r.seg) \subseteq Disk(r.files)
<1> DEFINE r == Fmp4SegmentClose(st)
<1>1. CASE st.seg[1].part = <<>>
  <2>1. r = FileClose(st)
    BY <1>1 DEF Fmp4SegmentClose
  <2> HIDE DEF r
  <2>2. /\ StateGood(r, fmp4, clean) /\ SameTracks(st, r) /\ r.buf = st.buf
        /\ r.seg # <<>> /\ r.seg[1].start = st.seg[1].start /\ r.seg[1].part = st.seg[1].part
        /\ r.err => ~clean \/ st.seg[1].fi = "closed"
        /\ r.seg[1].fi # "open"
        /\ ~r.err => Moves(st, r, {})
    BY <2>1, FileCloseGood
  <2>3. Part(r.seg) = {}
    BY <1>1, <2>2, NoSamples DEF Part
  <2> QED BY <2>2, <2>3 DEF r
<1>2. CASE st.seg[1].part # <<>>
  <2> DEFINE closed == PartClose(st)
  <2>1. /\ StateGood(closed, fmp4, clean) /\ SameTracks(st, closed) /\ closed.buf = st.buf
        /\ closed.seg # <<>> /\ closed.seg[1].start = st.seg[1].start
        /\ closed.err => ~clean \/ st.seg[1].fi = "closed"
        /\ closed.seg[1].fi = "closed" => st.seg[1].fi = "closed"
        /\ ~closed.err => Moves(st, closed, {}) /\ Part(closed.seg) \subseteq Disk(closed.files)
    BY PartCloseGood
  <2>2. r = [FileClose([closed EXCEPT !.err = FALSE]) EXCEPT !.err = @ \/ closed.err]
    BY Zenon, <1>2 DEF Fmp4SegmentClose
  <2> HIDE DEF closed, r
  <2>3. /\ StateGood(r, fmp4, clean) /\ SameTracks(st, r) /\ r.buf = closed.buf
        /\ r.seg # <<>> /\ r.seg[1].start = st.seg[1].start /\ r.seg[1].part = closed.seg[1].part
        /\ r.err => ~clean \/ st.seg[1].fi = "closed"
        /\ closed.err => r.err
        /\ r.seg[1].fi # "open"
        /\ ~r.err => Moves(closed, r, {}) /\ Disk(r.files) = Disk(closed.files)
    BY <2>1, <2>2, ClosedAfter
  <2>4. Part(r.seg) = Part(closed.seg)
    BY <2>1, <2>3 DEF Part
  <2>5. ~r.err => Moves(st, r, {}) /\ Part(r.seg) \subseteq Disk(r.files)
    BY <2>1, <2>3, <2>4 DEF Moves
  <2> QED BY <2>1, <2>3, <2>5 DEF r
<1> QED BY <1>1, <1>2


\* The segment that is being written is replaced by another state of it.
PutSeg(st, s) == [st EXCEPT !.seg = [st.seg EXCEPT ![1] = s]]

LEMMA PutSegGood ==
    ASSUME NEW st, NEW fmp4, NEW clean, NEW s \in RcSegments, StateGood(st, fmp4, clean),
           st.seg # <<>>, s.start = st.seg[1].start, s.fi = st.seg[1].fi,
           (fmp4 /\ s.fi = "nil") => Fits(s.part, st.ver),
           (fmp4 /\ s.fi = "open") => Fits(s.part, st.files[s.start].header)
    PROVE  LET r == PutSeg(st, s)
           IN  /\ StateGood(r, fmp4, clean) /\ SameTracks(st, r) /\ r.files = st.files
               /\ r.buf = st.buf /\ r.fault = st.fault /\ r.err = st.err
               /\ r.seg # <<>> /\ r.seg[1] = s
<1> DEFINE seg2 == [st.seg EXCEPT ![1] = s]
           r == PutSeg(st, s)
<1>1. /\ st \in RcStates /\ (clean => st.fault = "none")
      /\ DiskGood(st.files, st.seg, fmp4, clean)
  BY DEF StateGood
<1>2. st.seg \in Seq(RcSegments)
  BY <1>1, StateFields
<1>3. seg2 \in Seq(RcSegments) /\ seg2 # <<>> /\ seg2[1] = s
  BY <1>2, SegUpdated
<1>4. /\ r \in RcStates /\ SameTracks(st, r) /\ r.files = st.files /\ r.seg = seg2
      /\ r.buf = st.buf /\ r.fault = st.fault /\ r.err = st.err
  <2>1. r = [st EXCEPT !.seg = seg2]
    BY DEF PutSeg
  <2> HIDE DEF seg2, r
  <2> QED BY <1>1, <1>3, <2>1, WithSeg
<1> HIDE DEF seg2, r
<1>5. DiskGood(st.files, seg2, fmp4, clean)
  <2>1. \A d \in RcTimes : OpenAt(seg2, d) = OpenAt(st.seg, d)
    BY <1>3 DEF OpenAt
  <2> QED BY <1>1, <2>1 DEF DiskGood
<1>6. PartGood(st.files, seg2, st.ver, fmp4)
  BY <1>3 DEF PartGood
<1>7. StateGood(r, fmp4, clean)
  BY <1>1, <1>4, <1>5, <1>6 DEF StateGood, SameTracks
<1> QED BY <1>3, <1>4, <1>7 DEF r

LEMMA SegFields ==
    ASSUME NEW s \in RcSegments
    PROVE  /\ \A x \in Seq(RcSamples) : /\ [s EXCEPT !.part = x] \in RcSegments
                                        /\ [s EXCEPT !.part = x].part = x
                                        /\ [s EXCEPT !.part = x].fi = s.fi
                                        /\ [s EXCEPT !.part = x].start = s.start
           /\ \A x \in RcTimes : /\ [s EXCEPT !.last = x] \in RcSegments
                                 /\ [s EXCEPT !.last = x].part = s.part
                                 /\ [s EXCEPT !.last = x].fi = s.fi
                                 /\ [s EXCEPT !.last = x].start = s.start
           /\ \A x \in RcTimes : /\ [s EXCEPT !.flushed = x] \in RcSegments
                                 /\ [s EXCEPT !.flushed = x].part = s.part
                                 /\ [s EXCEPT !.flushed = x].fi = s.fi
                                 /\ [s EXCEPT !.flushed = x].start = s.start
<1>1. ASSUME NEW x \in Seq(RcSamples)
      PROVE  /\ [s EXCEPT !.part = x] \in RcSegments /\ [s EXCEPT !.part = x].part = x
             /\ [s EXCEPT !.part = x].fi = s.fi /\ [s EXCEPT !.part = x].start = s.start
  BY DEF RcSegments
<1>2. ASSUME NEW x \in RcTimes
      PROVE  /\ [s EXCEPT !.last = x] \in RcSegments /\ [s EXCEPT !.last = x].part = s.part
             /\ [s EXCEPT !.last = x].fi = s.fi /\ [s EXCEPT !.last = x].start = s.start
  BY DEF RcSegments
<1>3. ASSUME NEW x \in RcTimes
      PROVE  /\ [s EXCEPT !.flushed = x] \in RcSegments /\ [s EXCEPT !.flushed = x].part = s.part
             /\ [s EXCEPT !.flushed = x].fi = s.fi /\ [s EXCEPT !.flushed = x].start = s.start
  BY DEF RcSegments
<1> QED BY <1>1, <1>2, <1>3

LEMMA PartWriteGood ==
    ASSUME NEW s \in RcSegments, NEW sample \in RcSamples
    PROVE  /\ PartWrite(s, sample) \in RcSegments /\ PartWrite(s, sample).start = s.start
           /\ PartWrite(s, sample).fi = s.fi
           /\ PartWrite(s, sample).part = Append(s.part, sample)
<1> DEFINE d == sample.dts
           p == Append(s.part, sample)
           b == IF s.part = <<>> THEN d ELSE s.partStart
           s1 == [s EXCEPT !.last = d]
           s2 == [s1 EXCEPT !.part = p]
           s3 == [s2 EXCEPT !.partStart = b]
           s4 == [s3 EXCEPT !.partEnd = d]
<1>1. d \in RcTimes /\ p \in Seq(RcSamples) /\ b \in RcTimes
  BY DEF RcSamples, RcSegments
<1>2. PartWrite(s, sample) = s4
  BY DEF PartWrite, RcSegments
<1> HIDE DEF d, p, b
<1>3. s1 \in RcSegments /\ s1.start = s.start /\ s1.fi = s.fi
  BY <1>1 DEF RcSegments
<1> HIDE DEF s1
<1>4. s2 \in RcSegments /\ s2.start = s.start /\ s2.fi = s.fi /\ s2.part = p
  BY <1>1, <1>3 DEF RcSegments
<1> HIDE DEF s2
<1>5. s3 \in RcSegments /\ s3.start = s.start /\ s3.fi = s.fi /\ s3.part = p
  BY <1>1, <1>4 DEF RcSegments
<1> HIDE DEF s3
<1>6. s4 \in RcSegments /\ s4.start = s.start /\ s4.fi = s.fi /\ s4.part = p
  BY <1>1, <1>5 DEF RcSegments
<1> HIDE DEF s4
<1> QED BY <1>2, <1>6 DEF p

Suits(x, ver) == x.ver <= ver[x.track]

LEMMA FitsOne ==
    ASSUME NEW a \in Seq(RcSamples), NEW x \in RcSamples, NEW ver, Fits(a, ver), Suits(x, ver)
    PROVE  Append(a, x) \in Seq(RcSamples) /\ Fits(Append(a, x), ver)
<1>1. /\ Append(a, x) \in Seq(RcSamples) /\ Len(Append(a, x)) = Len(a) + 1 /\ Len(a) \in Nat
      /\ Append(a, x)[Len(a) + 1] = x /\ \A k \in 1..Len(a) : Append(a, x)[k] = a[k]
  OBVIOUS
<1>2. ASSUME NEW k \in 1..(Len(a) + 1) PROVE Append(a, x)[k].ver <= ver[Append(a, x)[k].track]
  <2>1. CASE k = Len(a) + 1
    BY <1>1, <2>1 DEF Suits
  <2>2. CASE k # Len(a) + 1
    <3>1. k \in 1..Len(a)
      BY <1>1, <2>2
    <3> QED BY <1>1, <3>1 DEF Fits
  <2> QED BY <2>1, <2>2
<1> QED BY <1>1, <1>2 DEF Fits

\* At most one sample of a track waits for its duration, and suits these
\* parameters.
NextFits(next, ver) == \A t \in RcTracks : Len(next[t]) <= 1 /\ Fits(next[t], ver)

\* Between two writes: the open file has the present parameters, the samples
\* that wait for their duration suit them, no segment is half closed, and only
\* one of the formats has parts, the other a buffer.
Ready(st, fmp4, clean) ==
    /\ StateGood(st, fmp4, clean) /\ ~st.err
    /\ st.seg # <<>> => st.seg[1].fi # "closed"
    /\ (fmp4 /\ st.seg # <<>>) =>
          (st.seg[1].fi = "open" => st.files[st.seg[1].start].header = st.ver)
    /\ fmp4 => NextFits(st.next, st.ver) /\ st.buf = <<>>
    /\ ~fmp4 => IF st.seg = <<>> THEN st.buf = <<>> ELSE st.seg[1].part = <<>>

\* After a write, which may have failed.
Outcome(st, fmp4, clean) ==
    /\ StateGood(st, fmp4, clean) /\ (st.err => ~clean)
    /\ ~st.err => Ready(st, fmp4, clean)

\* formatFMP4Segment.write
LEMMA SegmentWriteGood ==
    ASSUME NEW st, NEW fmp4, NEW clean \in BOOLEAN, NEW sample \in RcSamples, Ready(st, fmp4, clean),
           st.seg # <<>>, fmp4, Suits(sample, st.ver)
    PROVE  LET r == Fmp4SegmentWrite(st, sample)
           IN  /\ Outcome(r, fmp4, clean) /\ SameTracks(st, r) /\ r.buf = st.buf
               /\ r.seg # <<>> /\ r.seg[1].start = st.seg[1].start
               /\ ~r.err => Moves(st, r, {sample})
<1> DEFINE full == st.seg[1].part # <<>> /\ st.seg[1].partEnd - st.seg[1].partStart >= PartDuration
           pc == PartClose(st)
           emptied == [pc.seg[1] EXCEPT !.part = <<>>]
           closed == IF full THEN PutSeg(pc, emptied) ELSE st
           r == Fmp4SegmentWrite(st, sample)
<1>1. r = IF closed.err THEN closed ELSE PutSeg(closed, PartWrite(closed.seg[1], sample))
  <2>1. [pc EXCEPT !.seg[1].part = <<>>] = PutSeg(pc, emptied)
    <3> HIDE DEF pc
    <3> QED BY Zenon DEF PutSeg
  <2> DEFINE c == IF full THEN [pc EXCEPT !.seg[1].part = <<>>] ELSE st
             after(x) == [x EXCEPT !.seg[1] = PartWrite(@, sample)]
  <2>2. r = IF c.err THEN c ELSE after(c)
    BY Zenon DEF Fmp4SegmentWrite
  <2>3. after(closed) = PutSeg(closed, PartWrite(closed.seg[1], sample))
    <3> HIDE DEF closed
    <3> QED BY Zenon DEF PutSeg
  <2>4. c = closed
    BY Zenon, <2>1
  <2> HIDE DEF c, closed, after, r
  <2> QED BY Zenon, <2>2, <2>3, <2>4
<1>2. /\ StateGood(closed, fmp4, clean) /\ SameTracks(st, closed) /\ closed.buf = st.buf
      /\ closed.seg # <<>> /\ closed.seg[1].start = st.seg[1].start
      /\ closed.err => ~clean
      /\ ~closed.err => /\ closed.seg[1].fi # "closed"
                        /\ (fmp4 /\ closed.seg[1].fi = "open") =>
                              closed.files[closed.seg[1].start].header = st.ver
                        /\ Moves(st, closed, {})
  <2>1. CASE full
    <3>1. /\ StateGood(pc, fmp4, clean) /\ SameTracks(st, pc) /\ pc.buf = st.buf
          /\ pc.seg # <<>> /\ pc.seg[1].start = st.seg[1].start
          /\ pc.err => ~clean \/ st.seg[1].fi = "closed"
          /\ ~pc.err => /\ pc.seg[1].fi = "open"
                        /\ \/ st.seg[1].fi = "nil" /\ pc.files[pc.seg[1].start].header = st.ver
                           \/ st.seg[1].fi = "open"
                              /\ pc.files[pc.seg[1].start].header = st.files[st.seg[1].start].header
          /\ ~pc.err => Moves(st, pc, {}) /\ Part(pc.seg) \subseteq Disk(pc.files)
      <4>1. StateGood(st, fmp4, clean) /\ ~st.err /\ st.seg # <<>> /\ clean \in BOOLEAN
        BY DEF Ready
      <4> QED BY ONLY <4>1, PartCloseGood
    <3>2. closed = PutSeg(pc, emptied)
      BY <2>1
    <3> HIDE DEF pc, closed
    <3>3. pc.seg[1] \in RcSegments
      BY <3>1, StateFields DEF StateGood
    <3>4. emptied \in RcSegments /\ emptied.start = pc.seg[1].start /\ emptied.fi = pc.seg[1].fi /\ emptied.part = <<>>
      <4>1. \A x \in Seq(RcSamples) : LET e == [pc.seg[1] EXCEPT !.part = x]
              IN  e \in RcSegments /\ e.start = pc.seg[1].start /\ e.fi = pc.seg[1].fi /\ e.part = x
        BY <3>3, SegFields
      <4>2. <<>> \in Seq(RcSamples)
        OBVIOUS
      <4> QED BY Zenon, <4>1, <4>2
    <3> HIDE DEF emptied
    <3>5. Fits(emptied.part, pc.ver) /\ Fits(emptied.part, pc.files[emptied.start].header)
      BY <3>4 DEF Fits
    <3>6. /\ StateGood(closed, fmp4, clean) /\ SameTracks(pc, closed) /\ closed.files = pc.files
          /\ closed.buf = pc.buf /\ closed.err = pc.err
          /\ closed.seg # <<>> /\ closed.seg[1] = emptied
      <4>1. StateGood(pc, fmp4, clean) /\ pc.seg # <<>>
        BY <3>1
      <4> QED BY ONLY <3>2, <3>4, <3>5, <4>1, PutSegGood
    <3>7. SameTracks(st, closed)
      BY <3>1, <3>6 DEF SameTracks
    <3>8. Part(closed.seg) = {}
      BY <3>4, <3>6, NoSamples DEF Part
    <3>9. ~closed.err => Moves(st, closed, {})
      BY <3>1, <3>6, <3>8 DEF Moves, Stored
    <3> QED BY <3>1, <3>4, <3>6, <3>7, <3>9 DEF Ready
  <2>2. CASE ~full
    <3>1. closed = st
      BY <2>2
    <3> HIDE DEF closed
    <3> QED BY <3>1 DEF Ready, SameTracks, Moves
  <2> QED BY <2>1, <2>2
<1> HIDE DEF closed
<1>3. CASE closed.err
  <2>1. r = closed
    BY <1>1, <1>3
  <2> HIDE DEF r
  <2> QED BY <1>2, <1>3, <2>1 DEF r, Outcome
<1>4. CASE ~closed.err
  <2> DEFINE s == PartWrite(closed.seg[1], sample)
  <2>1. r = PutSeg(closed, s)
    BY <1>1, <1>4
  <2>2. closed.seg[1] \in RcSegments /\ closed.seg[1].part \in Seq(RcSamples)
    BY <1>2, StateFields DEF StateGood
  <2>3. /\ s \in RcSegments /\ s.start = closed.seg[1].start /\ s.fi = closed.seg[1].fi
        /\ s.part = Append(closed.seg[1].part, sample)
    BY <2>2, PartWriteGood
  <2> HIDE DEF s, r
  <2>4. closed.ver = st.ver /\ closed.next = st.next
    BY <1>2 DEF SameTracks
  <2>5. /\ (fmp4 /\ s.fi = "nil") => Fits(closed.seg[1].part, closed.ver)
        /\ (fmp4 /\ s.fi = "open") => Fits(closed.seg[1].part, closed.files[s.start].header)
    BY <1>2, <2>3 DEF StateGood, PartGood
  <2>6. (fmp4 /\ s.fi = "nil") => Fits(s.part, closed.ver)
    BY <2>2, <2>3, <2>4, <2>5, FitsOne
  <2>7. (fmp4 /\ s.fi = "open") => Fits(s.part, closed.files[s.start].header)
    <3>1. (fmp4 /\ s.fi = "open") => closed.files[s.start].header = st.ver
      BY <1>2, <1>4, <2>3
    <3> QED BY <2>2, <2>3, <2>5, <3>1, FitsOne
  <2>8. /\ StateGood(r, fmp4, clean) /\ SameTracks(closed, r) /\ r.files = closed.files
        /\ r.buf = closed.buf /\ r.err = closed.err /\ r.seg # <<>> /\ r.seg[1] = s
    <3>1. StateGood(closed, fmp4, clean) /\ closed.seg # <<>>
      BY <1>2
    <3> QED BY ONLY <2>1, <2>3, <2>6, <2>7, <3>1, PutSegGood
  <2>9. SameTracks(st, r) /\ r.ver = st.ver /\ r.next = st.next
    BY <1>2, <2>8 DEF SameTracks
  <2>10. Ready(r, fmp4, clean)
    BY <1>2, <1>4, <2>3, <2>8, <2>9 DEF Ready
  <2>11. Moves(st, r, {sample})
    <3>1. Part(r.seg) = Part(closed.seg) \cup {sample}
      <4> DEFINE p == closed.seg[1].part
      <4>1. p \in Seq(RcSamples) /\ s.part = Append(p, sample)
        BY <2>2, <2>3
      <4>2. Part(r.seg) = ToSet(s.part) /\ Part(closed.seg) = ToSet(p)
        BY <1>2, <2>8 DEF Part
      <4> HIDE DEF p
      <4> QED BY <4>1, <4>2, SampleJoined
    <3>2. Moves(closed, r, {sample})
      BY <2>8, <3>1 DEF Moves, Stored
    <3> QED BY <1>2, <1>4, <3>2 DEF Moves
  <2> QED BY <1>2, <1>4, <2>3, <2>8, <2>9, <2>10, <2>11 DEF Outcome, r
<1> QED BY <1>3, <1>4

LEMMA NewSegmentGood ==
    ASSUME NEW d \in RcTimes
    PROVE  /\ NewSegment(d) \in Seq(RcSegments) /\ NewSegment(d) # <<>>
           /\ NewSegment(d)[1].start = d /\ NewSegment(d)[1].fi = "nil" /\ NewSegment(d)[1].part = <<>>
<1> DEFINE s == [start |-> d, last |-> d, fi |-> "nil", part |-> <<>>,
                 partStart |-> 0, partEnd |-> 0, flushed |-> d]
<1>1. 0 \in RcTimes /\ <<>> \in Seq(RcSamples)
  BY RcBounds DEF RcTimes
<1>2. s \in RcSegments /\ s.start = d /\ s.fi = "nil" /\ s.part = <<>>
  BY <1>1 DEF RcSegments
<1>3. NewSegment(d) = <<s>>
  BY DEF NewSegment
<1> HIDE DEF s
<1> QED BY <1>2, <1>3

\* A segment whose file is not open makes room for none, or for a new one.
LEMMA SegLeft ==
    ASSUME NEW st, NEW fmp4, NEW clean, NEW seg \in Seq(RcSegments), StateGood(st, fmp4, clean),
           st.seg = <<>> \/ st.seg[1].fi # "open",
           seg # <<>> => seg[1].fi = "nil" /\ seg[1].part = <<>>
    PROVE  LET r == [st EXCEPT !.seg = seg]
           IN  /\ StateGood(r, fmp4, clean) /\ SameTracks(st, r) /\ r.files = st.files
               /\ r.buf = st.buf /\ r.fault = st.fault /\ r.err = st.err /\ r.seg = seg
<1> DEFINE r == [st EXCEPT !.seg = seg]
<1>1. /\ st \in RcStates /\ (clean => st.fault = "none")
      /\ DiskGood(st.files, st.seg, fmp4, clean)
  BY DEF StateGood
<1>2. /\ r \in RcStates /\ SameTracks(st, r) /\ r.files = st.files /\ r.seg = seg
      /\ r.buf = st.buf /\ r.fault = st.fault /\ r.err = st.err
  BY <1>1, WithSeg
<1> HIDE DEF r
<1>3. DiskGood(st.files, seg, fmp4, clean)
  <2>1. \A d \in RcTimes : OpenAt(seg, d) = FALSE /\ OpenAt(st.seg, d) = FALSE
    BY DEF OpenAt
  <2> QED BY <1>1, <2>1 DEF DiskGood
<1>4. PartGood(st.files, seg, st.ver, fmp4)
  <2>1. Fits(<<>>, st.ver)
    BY DEF Fits
  <2> QED BY <2>1 DEF PartGood
<1>5. StateGood(r, fmp4, clean)
  BY <1>1, <1>2, <1>3, <1>4 DEF StateGood, SameTracks
<1> QED BY <1>2, <1>5 DEF r

LEMMA FitsLater ==
    ASSUME NEW a \in Seq(RcSamples), NEW ver \in [RcTracks -> Nat], NEW t \in RcTracks, NEW v \in Nat,
           ver[t] <= v, Fits(a, ver)
    PROVE  Fits(a, [ver EXCEPT ![t] = v])
<1> SUFFICES ASSUME NEW k \in 1..Len(a) PROVE a[k].ver <= [ver EXCEPT ![t] = v][a[k].track]
  BY DEF Fits
<1>1. a[k] \in RcSamples /\ a[k].ver <= ver[a[k].track]
  BY DEF Fits
<1>2. a[k].ver \in Nat /\ a[k].track \in RcTracks
  BY <1>1 DEF RcSamples
<1>3. ver[a[k].track] \in Nat /\ ver[a[k].track] <= [ver EXCEPT ![t] = v][a[k].track]
      /\ [ver EXCEPT ![t] = v][a[k].track] \in Nat
  BY <1>2
<1> QED BY <1>1, <1>2, <1>3

\* The parameters of a track are renewed.
LaterVer(ver, t, v) == v \in Nat /\ ver[t] <= v
PutVer(st, t, v) == [st EXCEPT !.ver = [st.ver EXCEPT ![t] = v]]

LEMMA PutVerGood ==
    ASSUME NEW st, NEW fmp4, NEW clean, NEW t \in RcTracks, NEW v, Ready(st, fmp4, clean),
           LaterVer(st.ver, t, v)
    PROVE  LET r == PutVer(st, t, v)
           IN  /\ StateGood(r, fmp4, clean) /\ ~r.err /\ r.seg = st.seg /\ r.files = st.files
               /\ r.next = st.next /\ r.buf = st.buf /\ r.hasVideo = st.hasVideo
               /\ r.taken = st.taken /\ r.gone = st.gone /\ r.ver = [st.ver EXCEPT ![t] = v]
               /\ fmp4 => NextFits(r.next, r.ver)
<1> DEFINE ver2 == [st.ver EXCEPT ![t] = v]
           r == PutVer(st, t, v)
<1>1. /\ st \in RcStates /\ (clean => st.fault = "none") /\ ~st.err
      /\ DiskGood(st.files, st.seg, fmp4, clean) /\ PartGood(st.files, st.seg, st.ver, fmp4)
  BY DEF StateGood, Ready
<1>2. /\ st.ver \in [RcTracks -> Nat] /\ st.next \in [RcTracks -> Seq(RcSamples)]
      /\ st.seg # <<>> => st.seg[1].part \in Seq(RcSamples)
  BY <1>1, StateFields
<1>3. ver2 \in [RcTracks -> Nat]
  BY <1>2 DEF LaterVer
<1>4. fmp4 => NextFits(st.next, ver2)
  BY <1>2, FitsLater DEF Ready, NextFits, LaterVer
<1>5. (fmp4 /\ st.seg # <<>> /\ Fits(st.seg[1].part, st.ver)) => Fits(st.seg[1].part, ver2)
  BY <1>2, FitsLater DEF LaterVer
<1> HIDE DEF ver2
<1>6. /\ r \in RcStates /\ r.err = st.err /\ r.seg = st.seg /\ r.files = st.files
      /\ r.next = st.next /\ r.buf = st.buf /\ r.hasVideo = st.hasVideo /\ r.fault = st.fault
      /\ r.taken = st.taken /\ r.gone = st.gone /\ r.ver = ver2
  <2>1. r = [st EXCEPT !.ver = ver2]
    BY DEF PutVer, ver2
  <2> HIDE DEF r
  <2> QED BY <1>1, <1>3, <2>1 DEF RcStates
<1> HIDE DEF r
<1>7. PartGood(st.files, st.seg, ver2, fmp4)
  BY <1>1, <1>5 DEF PartGood
<1>8. StateGood(r, fmp4, clean)
  BY <1>1, <1>6, <1>7 DEF StateGood
<1> QED BY <1>1, <1>4, <1>6, <1>8 DEF r, ver2

\* The parameters of a track were renewed: samples only moved.
AfterRenewal(st, r, fmp4, clean) ==
    /\ Ready(r, fmp4, clean) /\ r.next = st.next /\ r.taken = st.taken /\ r.gone = st.gone
    /\ clean => Moves(st, r, {})

\* updateCodecs, when the parameters of a track are renewed.
LEMMA UpdateCodecsGood ==
    ASSUME NEW st, NEW fmp4, NEW clean \in BOOLEAN, NEW t \in RcTracks, NEW v,
           Ready(st, fmp4, clean), LaterVer(st.ver, t, v), fmp4
    PROVE  AfterRenewal(st, UpdateCodecs(PutVer(st, t, v)), fmp4, clean)
<1> DEFINE c == PutVer(st, t, v)
           r == UpdateCodecs(c)
<1>1. /\ StateGood(c, fmp4, clean) /\ ~c.err /\ c.seg = st.seg /\ c.files = st.files
      /\ c.next = st.next /\ c.buf = st.buf /\ c.hasVideo = st.hasVideo
      /\ c.taken = st.taken /\ c.gone = st.gone /\ c.ver = [st.ver EXCEPT ![t] = v]
      /\ fmp4 => NextFits(c.next, c.ver)
  BY ONLY Ready(st, fmp4, clean), LaterVer(st.ver, t, v), t \in RcTracks, PutVerGood
<1> HIDE DEF c
<1>2. CASE c.seg # <<>> /\ c.seg[1].fi # "nil"
  <2> DEFINE f == Fmp4SegmentClose(c)
             g == [f EXCEPT !.seg = <<>>]
  <2>1. /\ StateGood(f, fmp4, clean) /\ SameTracks(c, f) /\ f.buf = c.buf
        /\ f.seg # <<>> /\ f.seg[1].fi # "open"
        /\ f.err => ~clean \/ c.seg[1].fi = "closed"
        /\ ~f.err => Moves(c, f, {}) /\ Part(f.seg) \subseteq Disk(f.files)
    BY <1>1, <1>2, SegmentCloseGood
  <2>2. r = [f EXCEPT !.seg = <<>>, !.err = FALSE]
    BY <1>2 DEF UpdateCodecs, NoSeg
  <2> HIDE DEF f
  <2>3. r = [g EXCEPT !.err = FALSE]
    <3>1. f \in RcStates
      BY <2>1 DEF StateGood
    <3> QED BY <2>2, <3>1 DEF RcStates
  <2> DEFINE none == <<>>
  <2>4. none \in Seq(RcSegments) /\ g = [f EXCEPT !.seg = none]
    OBVIOUS
  <2>5. none # <<>> => none[1].fi = "nil" /\ none[1].part = <<>>
    OBVIOUS
  <2>6. none = <<>>
    OBVIOUS
  <2> HIDE DEF none, g
  <2>7. StateGood(g, fmp4, clean) /\ SameTracks(f, g) /\ g.buf = f.buf /\ g.seg = none /\ g.files = f.files
    <3>1. StateGood(f, fmp4, clean) /\ (f.seg = <<>> \/ f.seg[1].fi # "open")
      BY <2>1
    <3> QED BY ONLY <2>4, <2>5, <3>1, SegLeft
  <2>8. FALSE \in BOOLEAN
    OBVIOUS
  <2> HIDE DEF r
  <2>9. /\ StateGood(r, fmp4, clean) /\ SameTracks(g, r) /\ r.buf = g.buf /\ r.seg = none
        /\ r.files = g.files /\ ~r.err
    BY <2>3, <2>7, <2>8, WithErr
  <2>10. SameTracks(c, r) /\ r.buf = c.buf
    BY <2>1, <2>7, <2>9 DEF SameTracks
  <2>11. Ready(r, fmp4, clean)
    BY <1>1, <2>6, <2>9, <2>10 DEF Ready, SameTracks
  <2>12. clean => Moves(st, r, {})
    <3>1. clean => ~f.err
      BY <1>1, <1>2, <2>1 DEF Ready
    <3>2. Part(r.seg) = {}
      BY <2>6, <2>9 DEF Part
    <3>3. clean => Moves(c, r, {})
      BY <2>1, <2>7, <2>9, <3>1, <3>2 DEF Moves, Stored
    <3> QED BY <1>1, <3>3 DEF Moves, Stored
  <2> QED BY <1>1, <2>10, <2>11, <2>12 DEF AfterRenewal, SameTracks, r, c
<1>3. CASE ~(c.seg # <<>> /\ c.seg[1].fi # "nil")
  <2>1. r = c
    BY <1>3 DEF UpdateCodecs, NoSeg
  <2> HIDE DEF r
  <2>2. Ready(r, fmp4, clean)
    BY <1>1, <1>3, <2>1 DEF Ready
  <2>3. Moves(st, r, {})
    BY <1>1, <2>1 DEF Moves, Stored
  <2> QED BY <1>1, <2>1, <2>2, <2>3 DEF AfterRenewal, r, c
<1> QED BY <1>2, <1>3

\* The track of a sample that was accepted has it pending.
Pending(next, new) == [next EXCEPT ![new.track] = <<new>>]

LEMMA SampleTaken ==
    ASSUME NEW st, NEW fmp4, NEW clean, NEW new \in RcSamples, Ready(st, fmp4, clean),
           fmp4 => Suits(new, st.ver)
    PROVE  LET r == Accept(st, new)
           IN  /\ Ready(r, fmp4, clean) /\ r.seg = st.seg /\ r.files = st.files /\ r.ver = st.ver
               /\ r.buf = st.buf /\ r.gone = st.gone /\ r.taken = st.taken \cup {new}
               /\ r.next = Pending(st.next, new)
<1> DEFINE t == new.track
           one == <<new>>
           hv == st.hasVideo \/ t = "video"
           nx == [st.next EXCEPT ![t] = one]
           tk == st.taken \cup {new}
           r1 == [st EXCEPT !.hasVideo = hv]
           r2 == [r1 EXCEPT !.next = nx]
           r == [r2 EXCEPT !.taken = tk]
<1>1. /\ st \in RcStates /\ (clean => st.fault = "none") /\ ~st.err
      /\ DiskGood(st.files, st.seg, fmp4, clean) /\ PartGood(st.files, st.seg, st.ver, fmp4)
  BY DEF StateGood, Ready
<1>2. /\ st.next \in [RcTracks -> Seq(RcSamples)] /\ st.taken \in SUBSET RcSamples
      /\ t \in RcTracks /\ one \in Seq(RcSamples)
  <2>1. t \in RcTracks
    BY DEF RcSamples
  <2>2. one \in Seq(RcSamples)
    OBVIOUS
  <2> QED BY <1>1, <2>1, <2>2, StateFields
<1>3. nx \in [RcTracks -> Seq(RcSamples)] /\ tk \in SUBSET RcSamples
  <2> HIDE DEF one, t
  <2> QED BY <1>2
<1>4. hv \in BOOLEAN
  OBVIOUS
<1>5. Fits(one, st.ver) \/ ~fmp4
  BY DEF Fits, Suits
<1>6. fmp4 => NextFits(nx, st.ver)
  <2>1. Len(one) <= 1
    OBVIOUS
  <2> HIDE DEF one
  <2> QED BY <1>2, <1>5, <2>1 DEF Ready, NextFits
<1>7. r = Accept(st, new)
  BY <1>1 DEF RcStates, Accept
<1> HIDE DEF hv, nx, tk
<1>8. /\ r1 \in RcStates /\ r1.seg = st.seg /\ r1.files = st.files /\ r1.ver = st.ver /\ r1.buf = st.buf
      /\ r1.gone = st.gone /\ r1.err = st.err /\ r1.fault = st.fault
  BY <1>1, <1>4 DEF RcStates
<1> HIDE DEF r1
<1>9. /\ r2 \in RcStates /\ r2.seg = st.seg /\ r2.files = st.files /\ r2.ver = st.ver /\ r2.buf = st.buf
      /\ r2.gone = st.gone /\ r2.err = st.err /\ r2.fault = st.fault /\ r2.next = nx
  BY <1>3, <1>8 DEF RcStates
<1> HIDE DEF r2
<1>10. /\ r \in RcStates /\ r.seg = st.seg /\ r.files = st.files /\ r.ver = st.ver /\ r.buf = st.buf
       /\ r.gone = st.gone /\ r.err = st.err /\ r.fault = st.fault /\ r.next = nx /\ r.taken = tk
  BY <1>3, <1>9 DEF RcStates
<1> HIDE DEF r
<1>11. StateGood(r, fmp4, clean)
  BY <1>1, <1>10 DEF StateGood
<1>12. Ready(r, fmp4, clean)
  BY <1>1, <1>6, <1>10, <1>11 DEF Ready
<1> QED BY <1>7, <1>10, <1>12 DEF tk, nx, one, Pending

\* No file is open, and nothing is in the buffer of the other format.
AtRest(st, fmp4, clean) ==
    /\ StateGood(st, fmp4, clean) /\ ~st.err /\ (st.seg = <<>> \/ st.seg[1].fi # "open")
    /\ fmp4 => NextFits(st.next, st.ver)
    /\ fmp4 => st.buf = <<>>

\* A segment begins.
Begin(st, d) == [st EXCEPT !.seg = NewSegment(d)]

LEMMA SegmentBegun ==
    ASSUME NEW st, NEW fmp4, NEW clean, NEW d \in RcTimes, AtRest(st, fmp4, clean)
    PROVE  LET r == Begin(st, d)
           IN  /\ Ready(r, fmp4, clean) /\ SameTracks(st, r) /\ r.files = st.files
               /\ r.buf = st.buf /\ r.seg # <<>> /\ r.seg[1].start = d /\ Part(r.seg) = {}
<1> DEFINE seg == NewSegment(d)
           r == Begin(st, d)
<1>1. /\ seg \in Seq(RcSegments) /\ seg # <<>> /\ seg[1].start = d /\ seg[1].fi = "nil"
      /\ seg[1].part = <<>>
  BY NewSegmentGood
<1>2. r = [st EXCEPT !.seg = seg]
  BY DEF Begin
<1>6. /\ StateGood(st, fmp4, clean) /\ ~st.err /\ (st.seg = <<>> \/ st.seg[1].fi # "open")
      /\ fmp4 => NextFits(st.next, st.ver)
      /\ fmp4 => st.buf = <<>>
  BY DEF AtRest
<1> HIDE DEF seg, r
<1>3. /\ StateGood(r, fmp4, clean) /\ SameTracks(st, r) /\ r.files = st.files
      /\ r.buf = st.buf /\ r.err = st.err /\ r.seg = seg
  BY <1>1, <1>2, <1>6, SegLeft
<1>4. Ready(r, fmp4, clean)
  BY <1>1, <1>3, <1>6 DEF Ready, SameTracks
<1>5. Part(r.seg) = {}
  BY <1>1, <1>3, NoSamples DEF Part
<1> QED BY <1>1, <1>3, <1>4, <1>5 DEF r

\* The end of formatFMP4Track.write
LEMMA SwitchSegmentGood ==
    ASSUME NEW st, NEW fmp4, NEW clean \in BOOLEAN, NEW new \in RcSamples, Ready(st, fmp4, clean),
           st.seg # <<>>
    PROVE  LET r == SwitchSegment(st, new)
           IN  /\ Outcome(r, fmp4, clean) /\ SameTracks(st, r) /\ r.buf = st.buf
               /\ ~r.err => Moves(st, r, {})
<1> DEFINE s == [st.seg[1] EXCEPT !.last = new.dts]
           moved == PutSeg(st, s)
           closed == Fmp4SegmentClose(moved)
           r == SwitchSegment(st, new)
<1>1. st.seg[1] \in RcSegments /\ new.dts \in RcTimes
  BY StateFields DEF Ready, StateGood, RcSamples
<1>2. s \in RcSegments /\ s.start = st.seg[1].start /\ s.fi = st.seg[1].fi /\ s.part = st.seg[1].part
  BY <1>1, SegFields
<1>3. moved = [st EXCEPT !.seg[1].last = new.dts]
  BY Zenon DEF PutSeg
<1>4. r = IF closed.err THEN closed ELSE [closed EXCEPT !.seg = NewSegment(new.dts)]
  <2> HIDE DEF moved
  <2> QED BY Zenon, <1>3 DEF SwitchSegment
<1> HIDE DEF s
<1>5. /\ StateGood(moved, fmp4, clean) /\ SameTracks(st, moved) /\ moved.buf = st.buf /\ ~moved.err
      /\ moved.files = st.files
      /\ moved.seg # <<>> /\ moved.seg[1] = s
  <2>1. /\ (fmp4 /\ s.fi = "nil") => Fits(s.part, st.ver)
        /\ (fmp4 /\ s.fi = "open") => Fits(s.part, st.files[s.start].header)
    BY <1>2 DEF Ready, StateGood, PartGood
  <2>2. StateGood(st, fmp4, clean) /\ ~st.err /\ st.seg # <<>>
    BY DEF Ready
  <2>3. moved = PutSeg(st, s)
    OBVIOUS
  <2> HIDE DEF moved
  <2>4. /\ StateGood(moved, fmp4, clean) /\ SameTracks(st, moved) /\ moved.buf = st.buf
        /\ moved.err = st.err /\ moved.seg # <<>> /\ moved.seg[1] = s /\ moved.files = st.files
    BY ONLY <1>2, <2>1, <2>2, <2>3, PutSegGood
  <2> QED BY <2>2, <2>4
<1> HIDE DEF moved
<1>6. /\ StateGood(closed, fmp4, clean) /\ SameTracks(moved, closed) /\ closed.buf = moved.buf
      /\ closed.seg # <<>> /\ closed.seg[1].fi # "open"
      /\ closed.err => ~clean \/ moved.seg[1].fi = "closed"
      /\ ~closed.err => Moves(moved, closed, {}) /\ Part(closed.seg) \subseteq Disk(closed.files)
  BY <1>5, SegmentCloseGood
<1> HIDE DEF closed
<1>7. closed.err => ~clean
  BY <1>2, <1>5, <1>6 DEF Ready
<1>8. SameTracks(st, closed) /\ (fmp4 => NextFits(closed.next, closed.ver) /\ closed.buf = <<>>)
  BY <1>5, <1>6 DEF SameTracks, Ready
<1>11. Moves(st, moved, {})
  <2>1. Part(moved.seg) = Part(st.seg)
    BY <1>2, <1>5 DEF Part
  <2> QED BY <1>5, <2>1 DEF Moves, Stored
<1>9. CASE closed.err
  <2>1. r = closed
    BY <1>4, <1>9
  <2> HIDE DEF r
  <2> QED BY <1>5, <1>6, <1>7, <1>8, <1>9, <2>1 DEF Outcome, r
<1>10. CASE ~closed.err
  <2>1. r = [closed EXCEPT !.seg = NewSegment(new.dts)]
    BY <1>4, <1>10
  <2> HIDE DEF r
  <2>2. /\ Ready(r, fmp4, clean) /\ SameTracks(closed, r) /\ r.buf = closed.buf
        /\ r.files = closed.files /\ Part(r.seg) = {}
    <3>1. AtRest(closed, fmp4, clean)
      BY <1>6, <1>8, <1>10 DEF AtRest
    <3> DEFINE d == new.dts
    <3>2. r = Begin(closed, d) /\ d \in RcTimes
      BY <1>1, <2>1 DEF Begin
    <3> HIDE DEF d
    <3> QED BY ONLY <3>1, <3>2, SegmentBegun
  <2>3. SameTracks(st, r)
    BY <1>8, <2>2 DEF SameTracks
  <2>4. Moves(closed, r, {})
    BY <1>6, <1>10, <2>2 DEF Moves, Stored
  <2>5. Moves(st, r, {})
    BY <1>6, <1>10, <1>11, <2>4 DEF Moves
  <2> QED BY <1>5, <1>6, <2>2, <2>3, <2>5 DEF Outcome, Ready, r
<1> QED BY <1>9, <1>10

\* A sample that is older than the segment is dropped.
LEMMA SampleDropped ==
    ASSUME NEW st, NEW fmp4, NEW clean, NEW x \in RcSamples, Ready(st, fmp4, clean)
    PROVE  LET r == [st EXCEPT !.gone = @ \cup {x}]
           IN  /\ Ready(r, fmp4, clean) /\ r.gone = st.gone \cup {x}
               /\ r.seg = st.seg /\ r.files = st.files /\ r.ver = st.ver
               /\ r.next = st.next /\ r.buf = st.buf /\ r.taken = st.taken
<1> DEFINE g == st.gone \cup {x}
           r == [st EXCEPT !.gone = g]
<1>1. /\ st \in RcStates /\ (clean => st.fault = "none") /\ ~st.err
      /\ DiskGood(st.files, st.seg, fmp4, clean) /\ PartGood(st.files, st.seg, st.ver, fmp4)
  BY DEF StateGood, Ready
<1>2. g \in SUBSET RcSamples
  BY <1>1, StateFields
<1>3. r = [st EXCEPT !.gone = @ \cup {x}]
  OBVIOUS
<1> HIDE DEF g
<1>4. /\ r \in RcStates /\ r.seg = st.seg /\ r.files = st.files /\ r.ver = st.ver
      /\ r.next = st.next /\ r.err = st.err /\ r.fault = st.fault
      /\ r.buf = st.buf /\ r.taken = st.taken /\ r.gone = g
  BY <1>1, <1>2 DEF RcStates
<1> HIDE DEF r
<1>5. StateGood(r, fmp4, clean)
  BY <1>1, <1>4 DEF StateGood
<1>6. Ready(r, fmp4, clean)
  BY <1>4, <1>5 DEF Ready
<1> QED BY <1>3, <1>4, <1>6 DEF g

\* Every sample that a track accepted is on the disk, in memory or dropped.
Lossless(st) == st.taken = Stored(st) \cup Waiting(st.next) \cup st.gone
Keeps(st, r) == Fresh(r.files) => Fresh(st.files) /\ (Lossless(st) => Lossless(r))

\* A sample takes the place of the pending one.
LEMMA PendingSamples ==
    ASSUME NEW next \in [RcTracks -> Seq(RcSamples)], NEW new \in RcSamples
    PROVE  Waiting(Pending(next, new)) \cup ToSet(next[new.track]) = Waiting(next) \cup {new}
<1> DEFINE t == new.track
           nx == Pending(next, new)
<1>1. t \in RcTracks
  BY DEF RcSamples
<1>2. ToSet(<<new>>) = {new}
  BY DEF ToSet
<1>3. ToSet(nx[t]) = {new} /\ \A u \in RcTracks : u # t => nx[u] = next[u]
  BY <1>1, <1>2 DEF Pending
<1> HIDE DEF t, nx
<1>4. ASSUME NEW x
      PROVE  (x \in Waiting(nx) \/ x \in ToSet(next[t])) <=> (x \in Waiting(next) \/ x = new)
  <2>1. x \in Waiting(nx) <=> \E u \in RcTracks : x \in ToSet(nx[u])
    BY DEF Waiting
  <2>2. x \in Waiting(next) <=> \E u \in RcTracks : x \in ToSet(next[u])
    BY DEF Waiting
  <2> QED BY <1>1, <1>3, <2>1, <2>2
<1>5. Waiting(nx) \cup ToSet(next[t]) = Waiting(next) \cup {new}
  BY <1>4
<1> QED BY <1>5 DEF t, nx

\* A track that accepted a sample, and did something with the one before.
LEMMA TrackKeeps ==
    ASSUME NEW st0, NEW r, NEW new, NEW old, NEW waiting,
           waiting \cup old = Waiting(st0.next) \cup {new},
           r.taken = st0.taken \cup {new}, Waiting(r.next) = waiting,
           Fresh(r.files) => Fresh(st0.files) /\ Stored(r) \cup r.gone = Stored(st0) \cup st0.gone \cup old
    PROVE  Keeps(st0, r)
<1> SUFFICES ASSUME Fresh(r.files), Lossless(st0) PROVE Fresh(st0.files) /\ Lossless(r)
  BY DEF Keeps
<1>1. Stored(r) \cup r.gone = Stored(st0) \cup st0.gone \cup old /\ Fresh(st0.files)
  OBVIOUS
<1>2. st0.taken = Stored(st0) \cup Waiting(st0.next) \cup st0.gone
  BY DEF Lossless
<1>3. r.taken = Stored(r) \cup waiting \cup r.gone
  BY <1>1, <1>2
<1> QED BY <1>1, <1>3 DEF Lossless

\* formatFMP4Track.write
LEMMA TrackWriteGood ==
    ASSUME NEW st0, NEW fmp4, NEW clean \in BOOLEAN, NEW new \in RcSamples, Ready(st0, fmp4, clean),
           fmp4, Suits(new, st0.ver)
    PROVE  LET r == TrackWrite(st0, new)
           IN  Outcome(r, fmp4, clean) /\ r.ver = st0.ver /\ (~r.err => Keeps(st0, r))
<1> DEFINE t == new.track
           st == Accept(st0, new)
           sample == st0.next[t][1]
           begun == BeginSegment(st, sample)
           wrote == Fmp4SegmentWrite(begun, sample)
           ends == /\ ~wrote.err
                   /\ ~st.hasVideo \/ t = "video"
                   /\ new.key /\ new.dts >= SegmentDuration + wrote.seg[1].start
           r == TrackWrite(st0, new)
<1>1. r = IF st0.next[t] = <<>> THEN st
          ELSE IF sample.dts < begun.seg[1].start THEN [begun EXCEPT !.gone = @ \cup {sample}]
          ELSE IF ends THEN SwitchSegment(wrote, new) ELSE wrote
  BY Zenon DEF TrackWrite
<1>2. /\ Ready(st, fmp4, clean) /\ st.seg = st0.seg /\ st.ver = st0.ver
      /\ st.files = st0.files /\ st.buf = st0.buf /\ st.gone = st0.gone
      /\ st.taken = st0.taken \cup {new} /\ st.next = Pending(st0.next, new)
  <2>1. st = Accept(st0, new) /\ Suits(new, st0.ver)
    OBVIOUS
  <2> HIDE DEF st
  <2> QED BY ONLY <2>1, Ready(st0, fmp4, clean), new \in RcSamples, SampleTaken
<1> HIDE DEF st
<1>5. t \in RcTracks
  BY DEF RcSamples
<1>6. st0.next \in [RcTracks -> Seq(RcSamples)] /\ st0.next[t] \in Seq(RcSamples)
  BY <1>5, StateFields DEF Ready, StateGood
<1>7. Waiting(st.next) \cup ToSet(st0.next[t]) = Waiting(st0.next) \cup {new}
  BY <1>2, <1>6, PendingSamples
<1>8. Stored(st) = Stored(st0)
  BY <1>2 DEF Stored
<1>3. CASE st0.next[t] = <<>>
  <2>1. r = st
    BY <1>1, <1>3
  <2>2. Keeps(st0, st)
    <3>1. ToSet(st0.next[t]) = {}
      BY <1>3, NoSamples
    <3>2. Waiting(st.next) = Waiting(st0.next) \cup {new}
      BY <1>7, <3>1
    <3> QED BY <1>2, <1>8, <3>2 DEF Keeps, Lossless
  <2> HIDE DEF r
  <2> QED BY <1>2, <2>1, <2>2 DEF r, Outcome, Ready
<1>4. CASE st0.next[t] # <<>>
  <2>1. /\ sample \in RcSamples /\ sample.dts \in RcTimes /\ Suits(sample, st.ver)
        /\ ToSet(st0.next[t]) = {sample}
    <3>3. 1 \in 1..Len(st0.next[t]) /\ sample \in RcSamples
      BY <1>4, <1>6
    <3>4. Fits(st0.next[t], st0.ver) /\ Len(st0.next[t]) <= 1
      BY <1>5 DEF Ready, NextFits
    <3>7. Len(st0.next[t]) = 1
      <4> DEFINE n == Len(st0.next[t])
      <4>1. n \in Nat /\ 1 \in 1..n /\ n <= 1
        BY <1>6, <3>3, <3>4
      <4> HIDE DEF n
      <4>2. n = 1
        BY ONLY <4>1
      <4> QED BY <4>2 DEF n
    <3>8. ToSet(st0.next[t]) = {sample}
      BY <1>6, <3>7 DEF ToSet
    <3>5. Suits(sample, st0.ver)
      BY <3>3, <3>4 DEF Fits, Suits
    <3>6. sample.dts \in RcTimes
      BY <3>3 DEF RcSamples
    <3> QED BY <1>2, <3>3, <3>5, <3>6, <3>8
  <2> HIDE DEF sample
  <2>2. /\ Ready(begun, fmp4, clean) /\ begun.seg # <<>> /\ SameTracks(st, begun)
        /\ begun.files = st.files /\ Stored(begun) = Stored(st)
    <3>1. CASE st.seg = <<>>
      <4>1. begun = [st EXCEPT !.seg = NewSegment(sample.dts)]
        BY <3>1 DEF NoSeg, BeginSegment
      <4>2. AtRest(st, fmp4, clean)
        BY <1>2, <3>1 DEF Ready, AtRest
      <4> DEFINE d == sample.dts
      <4>5. d \in RcTimes /\ begun = Begin(st, d)
        BY <2>1, <4>1 DEF Begin
      <4> HIDE DEF d, begun
      <4>3. /\ Ready(begun, fmp4, clean) /\ begun.seg # <<>> /\ SameTracks(st, begun)
            /\ begun.files = st.files /\ begun.buf = st.buf /\ Part(begun.seg) = {}
        BY ONLY <4>2, <4>5, SegmentBegun
      <4>4. Part(st.seg) = {}
        BY <3>1 DEF Part
      <4> QED BY <4>3, <4>4 DEF Stored
    <3>2. CASE st.seg # <<>>
      <4>1. begun = st
        BY <3>2 DEF NoSeg, BeginSegment
      <4> HIDE DEF begun
      <4> QED BY <1>2, <3>2, <4>1 DEF SameTracks
    <3> QED BY <3>1, <3>2
  <2> HIDE DEF begun
  <2>5. /\ begun.taken = st0.taken \cup {new} /\ begun.next = st.next /\ begun.gone = st0.gone
        /\ begun.ver = st0.ver /\ Stored(begun) = Stored(st0) /\ begun.files = st0.files
    BY <1>2, <1>8, <2>2 DEF SameTracks
  <2>6. Waiting(st.next) \cup {sample} = Waiting(st0.next) \cup {new}
    BY <1>7, <2>1
  <2>7. ASSUME NEW x, x.taken = begun.taken, x.next = begun.next,
               Fresh(x.files) => /\ Fresh(begun.files)
                                 /\ Stored(x) \cup x.gone = Stored(begun) \cup begun.gone \cup {sample}
        PROVE  Keeps(st0, x)
    <3>1. x.taken = st0.taken \cup {new} /\ Waiting(x.next) = Waiting(st.next)
      BY <2>5, <2>7
    <3>2. Fresh(x.files) => /\ Fresh(st0.files)
                            /\ Stored(x) \cup x.gone = Stored(st0) \cup st0.gone \cup {sample}
      BY <2>5, <2>7
    <3> QED BY ONLY <2>6, <3>1, <3>2, TrackKeeps
  <2>3. CASE sample.dts < begun.seg[1].start
    <3>1. r = [begun EXCEPT !.gone = @ \cup {sample}]
      BY <1>1, <1>4, <2>3
    <3> HIDE DEF r
    <3>2. /\ Ready(r, fmp4, clean) /\ r.gone = begun.gone \cup {sample}
          /\ r.seg = begun.seg /\ r.files = begun.files /\ r.ver = begun.ver
          /\ r.next = begun.next /\ r.buf = begun.buf /\ r.taken = begun.taken
      <4>1. sample \in RcSamples /\ Ready(begun, fmp4, clean)
        BY <2>1, <2>2
      <4> QED BY ONLY <3>1, <4>1, SampleDropped
    <3>3. Stored(r) = Stored(begun)
      BY <3>2 DEF Stored
    <3>4. Keeps(st0, r)
      <4>1. Fresh(r.files) => /\ Fresh(begun.files)
                              /\ Stored(r) \cup r.gone = Stored(begun) \cup begun.gone \cup {sample}
        BY <3>2, <3>3
      <4> QED BY <2>7, <3>2, <4>1
    <3> QED BY <2>5, <3>2, <3>4 DEF r, Outcome, Ready
  <2>4. CASE ~(sample.dts < begun.seg[1].start)
    <3>1. r = IF ends THEN SwitchSegment(wrote, new) ELSE wrote
      BY <1>1, <1>4, <2>4
    <3>2. /\ Outcome(wrote, fmp4, clean) /\ SameTracks(begun, wrote) /\ wrote.seg # <<>>
          /\ ~wrote.err => Moves(begun, wrote, {sample})
      <4>1. Suits(sample, begun.ver)
        BY <1>2, <2>1, <2>5
      <4> QED BY <2>1, <2>2, <4>1, SegmentWriteGood
    <3> HIDE DEF wrote
    <3>5. ASSUME NEW x, SameTracks(begun, x), Moves(begun, x, {sample}) PROVE Keeps(st0, x)
      <4>1. x.taken = begun.taken /\ x.next = begun.next /\ x.gone = begun.gone
        BY <3>5 DEF SameTracks
      <4>2. Fresh(x.files) => /\ Fresh(begun.files)
                              /\ Stored(x) \cup x.gone = Stored(begun) \cup begun.gone \cup {sample}
        BY <3>5, <4>1 DEF Moves
      <4> QED BY <2>7, <4>1, <4>2
    <3>3. CASE ends
      <4>1. r = SwitchSegment(wrote, new) /\ ~wrote.err
        BY <3>1, <3>3
      <4>2. Ready(wrote, fmp4, clean)
        BY <3>2, <4>1 DEF Outcome
      <4> HIDE DEF r
      <4>3. Outcome(r, fmp4, clean) /\ SameTracks(wrote, r) /\ (~r.err => Moves(wrote, r, {}))
        BY <3>2, <4>1, <4>2, SwitchSegmentGood
      <4>4. SameTracks(begun, r)
        BY <3>2, <4>3 DEF SameTracks
      <4>5. ~r.err => Moves(begun, r, {sample})
        BY <3>2, <4>1, <4>3 DEF Moves
      <4> QED BY <2>5, <3>5, <4>3, <4>4, <4>5 DEF r, SameTracks
    <3>4. CASE ~ends
      <4>1. r = wrote
        BY <3>1, <3>4
      <4> HIDE DEF r
      <4> QED BY <2>5, <3>2, <3>5, <4>1 DEF r, SameTracks
    <3> QED BY <3>3, <3>4
  <2> QED BY <2>3, <2>4
<1> QED BY <1>3, <1>4

LEMMA WithBuf ==
    ASSUME NEW st \in RcStates, NEW b \in Seq(RcSamples)
    PROVE  LET r == [st EXCEPT !.buf = b]
           IN  /\ r \in RcStates /\ SameTracks(st, r) /\ r.files = st.files /\ r.seg = st.seg
               /\ r.buf = b /\ r.fault = st.fault /\ r.err = st.err
  BY DEF RcStates, SameTracks

\* bufio.Writer.Flush
LEMMA FlushGood ==
    ASSUME NEW st, NEW fmp4, NEW clean \in BOOLEAN, StateGood(st, fmp4, clean), st.seg # <<>>, ~st.err,
           ~fmp4
    PROVE  LET r == Flush(st)
           IN  /\ StateGood(r, fmp4, clean) /\ SameTracks(st, r)
               /\ r.seg # <<>> /\ r.seg[1].start = st.seg[1].start /\ r.seg[1].part = st.seg[1].part
               /\ r.err => ~clean \/ st.seg[1].fi = "closed"
               /\ r.seg[1].fi = "closed" => st.seg[1].fi = "closed"
               /\ ~r.err => Moves(st, r, {}) /\ r.buf = <<>>
<1> DEFINE opened == IF st.seg[1].fi = "nil" THEN OpenFile(st, FALSE) ELSE st
           d == st.seg[1].start
           g == Written(opened.files[d], st.buf)
           fs == [opened.files EXCEPT ![d] = g]
           put == [opened EXCEPT !.files = fs]
           done == [put EXCEPT !.buf = <<>>]
           r == Flush(st)
<1>1. CASE st.buf = <<>>
  <2>1. r = st
    BY <1>1 DEF Flush
  <2> HIDE DEF r
  <2> QED BY <1>1, <2>1 DEF r, SameTracks, Moves
<1>2. CASE st.buf # <<>>
  <2>1. /\ StateGood(opened, fmp4, clean) /\ SameTracks(st, opened) /\ opened.buf = st.buf
        /\ opened.seg # <<>> /\ opened.seg[1].start = d /\ opened.seg[1].part = st.seg[1].part
        /\ opened.err => ~clean /\ opened.seg[1].fi = "nil"
        /\ opened.seg[1].fi = "closed" => st.seg[1].fi = "closed"
        /\ ~opened.err => opened.seg[1].fi \in {"open", "closed"}
        /\ ~opened.err => Moves(st, opened, {})
    <3>1. CASE st.seg[1].fi = "nil"
      <4>1. opened = OpenFile(st, FALSE) /\ FALSE \in BOOLEAN
        BY <3>1
      <4> HIDE DEF opened
      <4> QED BY <3>1, <4>1, OpenFileGood
    <3>2. CASE st.seg[1].fi # "nil"
      <4>1. opened = st
        BY <3>2
      <4>2. st.seg[1].fi \in {"nil", "open", "closed"}
        BY StateFields DEF StateGood
      <4> HIDE DEF opened
      <4> QED BY <3>2, <4>1, <4>2 DEF SameTracks, Moves
    <3> QED BY <3>1, <3>2
  <2>2. r = IF opened.err THEN opened
            ELSE IF opened.seg[1].fi = "closed" \/ opened.fault = "data" THEN Failed(opened)
            ELSE [opened EXCEPT !.files[d].samples = @ \o st.buf, !.buf = <<>>]
    BY Zenon, <1>2 DEF Flush
  <2> HIDE DEF opened
  <2>3. /\ opened \in RcStates /\ (clean => opened.fault = "none")
        /\ DiskGood(opened.files, opened.seg, fmp4, clean)
    BY <2>1 DEF StateGood
  <2>4. CASE opened.err
    <3>1. r = opened
      BY <2>2, <2>4
    <3> HIDE DEF r
    <3> QED BY <2>1, <2>4, <3>1 DEF r
  <2>5. CASE ~opened.err /\ (opened.seg[1].fi = "closed" \/ opened.fault = "data")
    <3>1. r = Failed(opened)
      BY <2>2, <2>5
    <3>2. /\ r \in RcStates /\ r.err /\ r.fault = "none" /\ SameTracks(opened, r) /\ r.seg = opened.seg
          /\ r.files = opened.files
      BY <2>3, <3>1, FailedGood
    <3> HIDE DEF r
    <3>3. SameTracks(st, r)
      BY <2>1, <3>2 DEF SameTracks
    <3>4. StateGood(r, fmp4, clean)
      BY <2>3, <3>2 DEF StateGood, PartGood
    <3>5. ~clean \/ st.seg[1].fi = "closed"
      BY <2>1, <2>3, <2>5
    <3> QED BY <2>1, <3>2, <3>3, <3>4, <3>5 DEF r
  <2>6. CASE ~opened.err /\ ~(opened.seg[1].fi = "closed" \/ opened.fault = "data")
    <3>1. opened.seg[1].fi = "open"
      BY <2>1, <2>6
    <3>2. /\ opened.files \in [RcTimes -> RcFileSet] /\ d \in RcTimes /\ opened.files[d] \in RcFileSet
      BY <2>1, <2>3, StateFields
    <3>3. st.buf \in Seq(RcSamples)
      BY StateFields DEF StateGood
    <3>4. FileGood(opened.files[d], fmp4, clean, TRUE)
      <4>1. OpenAt(opened.seg, d) = TRUE
        BY <2>1, <3>1 DEF OpenAt
      <4>2. FileGood(opened.files[d], fmp4, clean, OpenAt(opened.seg, d))
        BY <2>3, <3>2 DEF DiskGood
      <4> QED BY <4>1, <4>2
    <3>5. /\ g \in RcFileSet /\ FileGood(g, fmp4, clean, TRUE)
          /\ g.samples = opened.files[d].samples \o st.buf /\ g.made = opened.files[d].made
      BY <3>2, <3>3, <3>4, FileWritten
    <3>6. put = [opened EXCEPT !.files[d].samples = @ \o st.buf]
      <4> HIDE DEF d
      <4> QED BY Zenon DEF Written
    <3>7. r = done
      <4>1. r = [opened EXCEPT !.files[d].samples = @ \o st.buf, !.buf = <<>>]
        BY <2>2, <2>6
      <4>2. [opened EXCEPT !.files[d].samples = @ \o st.buf, !.buf = <<>>] =
              [[opened EXCEPT !.files[d].samples = @ \o st.buf] EXCEPT !.buf = <<>>]
        <5> HIDE DEF d
        <5> QED BY <2>3 DEF RcStates
      <4> HIDE DEF put, r
      <4> QED BY Zenon, <3>6, <4>1, <4>2
    <3> HIDE DEF g, r
    <3>8. fs \in [RcTimes -> RcFileSet] /\ DiskGood(fs, opened.seg, fmp4, clean)
      <4>1. (opened.seg[1].fi = "open") = TRUE
        BY <3>1
      <4>2. FileGood(g, fmp4, clean, opened.seg[1].fi = "open")
        BY <3>5, <4>1
      <4>3. /\ opened.seg # <<>> /\ opened.seg[1].start = d /\ DiskGood(opened.files, opened.seg, fmp4, clean)
            /\ opened.files \in [RcTimes -> RcFileSet] /\ d \in RcTimes /\ g \in RcFileSet
        BY <2>1, <2>3, <3>2, <3>5
      <4> HIDE DEF d
      <4> QED BY ONLY <4>2, <4>3, DiskUpdated
    <3> HIDE DEF fs
    <3>9. /\ put \in RcStates /\ SameTracks(opened, put) /\ put.files = fs /\ put.seg = opened.seg
          /\ put.fault = opened.fault /\ put.err = opened.err
      BY <2>3, <3>8, WithFiles
    <3> HIDE DEF put
    <3>10. /\ done \in RcStates /\ SameTracks(put, done) /\ done.files = fs /\ done.seg = opened.seg
           /\ done.fault = opened.fault /\ done.err = opened.err /\ done.buf = <<>>
      <4> DEFINE none == <<>>
      <4>1. none \in Seq(RcSamples) /\ done = [put EXCEPT !.buf = none]
        OBVIOUS
      <4>2. none = <<>>
        OBVIOUS
      <4> HIDE DEF none, done
      <4> QED BY <3>9, <4>1, <4>2, WithBuf
    <3> HIDE DEF done
    <3>11. SameTracks(st, done)
      BY <2>1, <3>9, <3>10 DEF SameTracks
    <3>12. StateGood(done, fmp4, clean)
      BY <2>3, <3>8, <3>10 DEF StateGood, PartGood
    <3>13. Moves(st, done, {})
      <4> DEFINE b == st.buf
                 f == opened.files[d]
      <4>1. f.samples \in Seq(RcSamples) /\ f.made \in Nat
        BY <3>2 DEF RcFileSet
      <4>2. ToSet(g.samples) = ToSet(f.samples) \cup ToSet(b) /\ f.made <= g.made
        <5> DEFINE a == f.samples
        <5>1. a \in Seq(RcSamples) /\ b \in Seq(RcSamples) /\ g.samples = a \o b
          BY <3>3, <3>5, <4>1
        <5>2. g.made = f.made /\ f.made \in Nat
          BY <3>5, <4>1
        <5> HIDE DEF a, b, f
        <5>3. ToSet(g.samples) = ToSet(a) \cup ToSet(b)
          BY ONLY <5>1, SamplesJoined
        <5>4. f.made <= g.made
          BY ONLY <5>2
        <5> QED BY <5>3, <5>4 DEF a
      <4>3. fs = [opened.files EXCEPT ![d] = g]
        BY DEF fs
      <4>4. opened.files \in [RcTimes -> RcFileSet] /\ d \in RcTimes /\ g \in RcFileSet
        BY <3>2, <3>5
      <4> DEFINE more == ToSet(b)
      <4>5. ToSet(g.samples) = ToSet(opened.files[d].samples) \cup more /\ opened.files[d].made <= g.made
        BY <4>2
      <4> HIDE DEF d, more
      <4>6. Disk(fs) = Disk(opened.files) \cup more /\ (Fresh(fs) => Fresh(opened.files))
        BY ONLY <4>3, <4>4, <4>5, DiskChanged
      <4>7. Part(done.seg) = Part(opened.seg) /\ ToSet(done.buf) = {} /\ ToSet(opened.buf) = more
        BY <2>1, <3>10, NoSamples DEF more
      <4>8. Moves(opened, done, {})
        BY <3>10, <4>6, <4>7 DEF Moves, Stored
      <4> QED BY <2>1, <2>6, <4>8 DEF Moves
    <3> QED BY <2>1, <2>6, <3>1, <3>7, <3>10, <3>11, <3>12, <3>13 DEF r
  <2> QED BY <2>4, <2>5, <2>6
<1> QED BY <1>1, <1>2

\* formatMPEGTSSegment.close
LEMMA TsSegmentCloseGood ==
    ASSUME NEW st, NEW fmp4, NEW clean \in BOOLEAN, StateGood(st, fmp4, clean), st.seg # <<>>, ~st.err,
           ~fmp4
    PROVE  LET r == TsSegmentClose(st)
           IN  /\ StateGood(r, fmp4, clean) /\ SameTracks(st, r)
               /\ r.seg # <<>> /\ r.seg[1].start = st.seg[1].start /\ r.seg[1].part = st.seg[1].part
               /\ r.err => ~clean \/ st.seg[1].fi = "closed"
               /\ r.seg[1].fi # "open"
               /\ ~r.err => Moves(st, r, {}) /\ r.buf = <<>>
<1> DEFINE flushed == Flush(st)
           r == TsSegmentClose(st)
<1>1. /\ StateGood(flushed, fmp4, clean) /\ SameTracks(st, flushed)
      /\ flushed.seg # <<>> /\ flushed.seg[1].start = st.seg[1].start
      /\ flushed.seg[1].part = st.seg[1].part
      /\ flushed.err => ~clean \/ st.seg[1].fi = "closed"
      /\ flushed.seg[1].fi = "closed" => st.seg[1].fi = "closed"
      /\ ~flushed.err => Moves(st, flushed, {}) /\ flushed.buf = <<>>
  BY FlushGood
<1>2. r = [FileClose([flushed EXCEPT !.err = FALSE]) EXCEPT !.err = @ \/ flushed.err]
  BY Zenon DEF TsSegmentClose
<1> HIDE DEF flushed, r
<1>3. /\ StateGood(r, fmp4, clean) /\ SameTracks(st, r) /\ r.buf = flushed.buf
      /\ r.seg # <<>> /\ r.seg[1].start = st.seg[1].start /\ r.seg[1].part = flushed.seg[1].part
      /\ r.err => ~clean \/ st.seg[1].fi = "closed"
      /\ flushed.err => r.err
      /\ r.seg[1].fi # "open"
      /\ ~r.err => Moves(flushed, r, {})
  BY <1>1, <1>2, ClosedAfter
<1>4. ~r.err => Moves(st, r, {})
  BY <1>1, <1>3 DEF Moves
<1> QED BY <1>1, <1>3, <1>4 DEF r

\* formatMPEGTS.write, until the sample is written.
LEMMA TsSegmentGood ==
    ASSUME NEW st, NEW fmp4, NEW clean \in BOOLEAN, NEW sample \in RcSamples, Ready(st, fmp4, clean),
           ~fmp4
    PROVE  LET r == TsSegment(st, sample)
           IN  /\ Outcome(r, fmp4, clean) /\ SameTracks(st, r) /\ r.seg # <<>>
               /\ ~r.err => Moves(st, r, {})
<1> DEFINE d == sample.dts
           s == [st.seg[1] EXCEPT !.last = d]
           moved == PutSeg(st, s)
           closed == TsSegmentClose(moved)
           flushed == Flush(st)
           s2 == [flushed.seg[1] EXCEPT !.flushed = d]
           ends == /\ ~st.hasVideo \/ sample.track = "video"
                   /\ sample.key /\ d >= SegmentDuration + st.seg[1].start
           late == d >= PartDuration + st.seg[1].flushed
           r == TsSegment(st, sample)
<1>1. /\ StateGood(st, fmp4, clean) /\ ~st.err /\ d \in RcTimes
      /\ st.seg # <<>> => st.seg[1].part = <<>>
  BY DEF Ready, RcSamples
<1>2. r = IF st.seg = <<>> THEN [st EXCEPT !.seg = NewSegment(d)]
          ELSE IF ends THEN IF closed.err THEN closed ELSE [closed EXCEPT !.seg = NewSegment(d)]
          ELSE IF late THEN PutSeg(flushed, s2) ELSE st
  <2>1. moved = [st EXCEPT !.seg[1].last = d]
    BY Zenon DEF PutSeg
  <2>2. PutSeg(flushed, s2) = [flushed EXCEPT !.seg[1].flushed = d]
    <3> HIDE DEF flushed
    <3> QED BY Zenon DEF PutSeg
  <2>3. r = IF st.seg = <<>> THEN [st EXCEPT !.seg = NewSegment(d)]
            ELSE IF ends
            THEN IF TsSegmentClose([st EXCEPT !.seg[1].last = d]).err
                 THEN TsSegmentClose([st EXCEPT !.seg[1].last = d])
                 ELSE [TsSegmentClose([st EXCEPT !.seg[1].last = d]) EXCEPT !.seg = NewSegment(d)]
            ELSE IF late THEN [flushed EXCEPT !.seg[1].flushed = d] ELSE st
    BY Zenon DEF TsSegment, NoSeg
  <2> HIDE DEF moved, s2, ends, late, flushed, r
  <2> QED BY Zenon, <2>1, <2>2, <2>3
<1> HIDE DEF ends, late, d
<1>3. CASE st.seg = <<>>
  <2>1. r = [st EXCEPT !.seg = NewSegment(d)]
    BY <1>2, <1>3
  <2> HIDE DEF r
  <2>2. /\ Ready(r, fmp4, clean) /\ SameTracks(st, r) /\ r.seg # <<>> /\ r.files = st.files
        /\ r.buf = st.buf /\ Part(r.seg) = {}
    <3>1. AtRest(st, fmp4, clean) /\ r = Begin(st, d) /\ d \in RcTimes
      BY <1>1, <1>3, <2>1 DEF AtRest, Begin
    <3> QED BY ONLY <3>1, SegmentBegun
  <2>3. Part(st.seg) = {}
    BY <1>3 DEF Part
  <2> QED BY <2>2, <2>3 DEF r, Outcome, Ready, Moves, Stored
<1>4. CASE st.seg # <<>> /\ ends
  <2>1. st.seg[1] \in RcSegments /\ st.seg[1].fi # "closed"
    BY <1>1, <1>4, StateFields DEF StateGood, Ready
  <2>2. s \in RcSegments /\ s.start = st.seg[1].start /\ s.fi = st.seg[1].fi /\ s.part = st.seg[1].part
    BY <1>1, <2>1, SegFields
  <2>3. r = IF closed.err THEN closed ELSE [closed EXCEPT !.seg = NewSegment(d)]
    BY <1>2, <1>4
  <2> HIDE DEF s, r
  <2>4. /\ StateGood(moved, fmp4, clean) /\ SameTracks(st, moved) /\ moved.err = st.err
        /\ moved.seg # <<>> /\ moved.seg[1] = s /\ moved.files = st.files /\ moved.buf = st.buf
    BY <1>1, <1>4, <2>2, PutSegGood
  <2> HIDE DEF moved
  <2>5. /\ StateGood(closed, fmp4, clean) /\ SameTracks(moved, closed)
        /\ closed.seg # <<>> /\ closed.seg[1].fi # "open"
        /\ closed.seg[1].part = moved.seg[1].part
        /\ closed.err => ~clean \/ moved.seg[1].fi = "closed"
        /\ ~closed.err => Moves(moved, closed, {})
    <3>1. StateGood(moved, fmp4, clean) /\ ~moved.err /\ moved.seg # <<>> /\ ~fmp4 /\ clean \in BOOLEAN
      BY <1>1, <2>4
    <3> QED BY ONLY <3>1, TsSegmentCloseGood
  <2> HIDE DEF closed
  <2>6. (closed.err => ~clean) /\ SameTracks(st, closed)
    BY <2>1, <2>2, <2>4, <2>5 DEF SameTracks
  <2>7. CASE closed.err
    <3>1. r = closed
      BY <2>3, <2>7
    <3> QED BY <2>5, <2>6, <2>7, <3>1 DEF Outcome, r
  <2>8. CASE ~closed.err
    <3>1. r = [closed EXCEPT !.seg = NewSegment(d)]
      BY <2>3, <2>8
    <3>2. /\ Ready(r, fmp4, clean) /\ SameTracks(closed, r) /\ r.seg # <<>>
          /\ r.files = closed.files /\ r.buf = closed.buf /\ Part(r.seg) = {}
      <4>1. AtRest(closed, fmp4, clean) /\ r = Begin(closed, d) /\ d \in RcTimes
        BY <1>1, <2>5, <2>8, <3>1 DEF AtRest, Begin
      <4> QED BY ONLY <4>1, SegmentBegun
    <3>4. Part(closed.seg) = {} /\ Part(moved.seg) = {} /\ Part(st.seg) = {}
      BY <1>1, <1>4, <2>2, <2>4, <2>5, NoSamples DEF Part
    <3>5. Moves(st, r, {})
      BY <2>4, <2>5, <2>8, <3>2, <3>4 DEF Moves, Stored
    <3>3. SameTracks(st, r)
      BY <2>6, <3>2 DEF SameTracks
    <3> QED BY <3>2, <3>3, <3>5 DEF Outcome, Ready, r
  <2> QED BY <2>7, <2>8
<1>5. CASE st.seg # <<>> /\ ~ends /\ late
  <2>1. /\ StateGood(flushed, fmp4, clean) /\ SameTracks(st, flushed)
        /\ flushed.seg # <<>> /\ flushed.seg[1].start = st.seg[1].start
        /\ flushed.seg[1].part = st.seg[1].part
        /\ flushed.err => ~clean \/ st.seg[1].fi = "closed"
        /\ flushed.seg[1].fi = "closed" => st.seg[1].fi = "closed"
        /\ ~flushed.err => Moves(st, flushed, {})
    BY <1>1, <1>5, FlushGood
  <2>2. r = PutSeg(flushed, s2)
    BY <1>2, <1>5
  <2>3. st.seg[1].fi # "closed"
    BY <1>5 DEF Ready
  <2> HIDE DEF r, flushed
  <2>4. flushed.seg[1] \in RcSegments
    BY <2>1, StateFields DEF StateGood
  <2>5. /\ s2 \in RcSegments /\ s2.start = flushed.seg[1].start /\ s2.fi = flushed.seg[1].fi
        /\ s2.part = flushed.seg[1].part
    BY <1>1, <2>4, SegFields
  <2> HIDE DEF s2
  <2>6. /\ StateGood(r, fmp4, clean) /\ SameTracks(flushed, r) /\ r.err = flushed.err
        /\ r.seg # <<>> /\ r.seg[1] = s2 /\ r.files = flushed.files /\ r.buf = flushed.buf
    BY <2>1, <2>2, <2>5, PutSegGood
  <2>7. SameTracks(st, r)
    BY <2>1, <2>6 DEF SameTracks
  <2>8. r.err => ~clean
    BY <2>1, <2>3, <2>6
  <2>9. ~r.err => Ready(r, fmp4, clean)
    BY <1>1, <1>5, <2>1, <2>3, <2>5, <2>6 DEF Ready
  <2>10. Part(r.seg) = Part(flushed.seg)
    BY <2>1, <2>5, <2>6 DEF Part
  <2>11. ~r.err => Moves(st, r, {})
    BY <2>1, <2>6, <2>10 DEF Moves, Stored
  <2> QED BY <2>6, <2>7, <2>8, <2>9, <2>11 DEF Outcome, r
<1>6. CASE st.seg # <<>> /\ ~ends /\ ~late
  <2>1. r = st
    BY <1>2, <1>6
  <2> HIDE DEF r
  <2> QED BY <1>1, <1>6, <2>1 DEF r, Outcome, SameTracks, Moves
<1> QED BY <1>3, <1>4, <1>5, <1>6

\* A sample that was accepted will go to the buffer.
Take(st, sample) == [st EXCEPT !.hasVideo = @ \/ sample.track = "video", !.taken = @ \cup {sample}]

LEMMA SampleBuffered ==
    ASSUME NEW st, NEW fmp4, NEW clean, NEW sample \in RcSamples, Ready(st, fmp4, clean), ~fmp4
    PROVE  LET r == Take(st, sample)
           IN  /\ Ready(r, fmp4, clean) /\ r.ver = st.ver /\ r.taken = st.taken \cup {sample}
               /\ r.files = st.files /\ r.seg = st.seg /\ r.buf = st.buf /\ r.next = st.next
               /\ r.gone = st.gone
<1> DEFINE hv == st.hasVideo \/ sample.track = "video"
           tk == st.taken \cup {sample}
           r1 == [st EXCEPT !.hasVideo = hv]
           r == [r1 EXCEPT !.taken = tk]
<1>1. /\ st \in RcStates /\ (clean => st.fault = "none") /\ ~st.err
      /\ DiskGood(st.files, st.seg, fmp4, clean)
  BY DEF StateGood, Ready
<1>2. tk \in SUBSET RcSamples
  BY <1>1, StateFields
<1>3. hv \in BOOLEAN
  OBVIOUS
<1>4. r = Take(st, sample)
  BY <1>1 DEF RcStates, Take
<1> HIDE DEF hv, tk
<1>5. /\ r1 \in RcStates /\ r1.seg = st.seg /\ r1.files = st.files /\ r1.ver = st.ver
      /\ r1.err = st.err /\ r1.fault = st.fault /\ r1.buf = st.buf /\ r1.next = st.next
      /\ r1.gone = st.gone
  BY <1>1, <1>3 DEF RcStates
<1> HIDE DEF r1
<1>6. /\ r \in RcStates /\ r.seg = st.seg /\ r.files = st.files /\ r.ver = st.ver
      /\ r.err = st.err /\ r.fault = st.fault /\ r.buf = st.buf /\ r.next = st.next
      /\ r.gone = st.gone /\ r.taken = tk
  BY <1>2, <1>5 DEF RcStates
<1> HIDE DEF r
<1>7. StateGood(r, fmp4, clean)
  BY <1>1, <1>6 DEF StateGood, PartGood
<1>8. Ready(r, fmp4, clean)
  BY <1>1, <1>6, <1>7 DEF Ready
<1> QED BY <1>4, <1>6, <1>8 DEF tk

\* formatMPEGTS.write
LEMMA TsWriteGood ==
    ASSUME NEW st, NEW fmp4, NEW clean \in BOOLEAN, NEW sample \in RcSamples, NEW spills \in BOOLEAN,
           Ready(st, fmp4, clean), ~fmp4
    PROVE  LET r == TsWrite(st, sample, spills)
           IN  Outcome(r, fmp4, clean) /\ (~r.err => Keeps(st, r))
<1> DEFINE took == Take(st, sample)
           ready == TsSegment(took, sample)
           s == [ready.seg[1] EXCEPT !.last = sample.dts]
           moved == PutSeg(ready, s)
           b == Append(moved.buf, sample)
           wrote == [moved EXCEPT !.buf = b]
           r == TsWrite(st, sample, spills)
<1>1. /\ Ready(took, fmp4, clean) /\ took.taken = st.taken \cup {sample}
      /\ took.files = st.files /\ took.seg = st.seg /\ took.buf = st.buf /\ took.next = st.next
      /\ took.gone = st.gone
  BY SampleBuffered
<1>2. r = IF ready.err THEN ready
          ELSE IF spills THEN Flush([ready EXCEPT !.seg[1].last = sample.dts, !.buf = Append(@, sample)])
          ELSE [ready EXCEPT !.seg[1].last = sample.dts, !.buf = Append(@, sample)]
  BY Zenon DEF TsWrite, Take
<1> HIDE DEF took, r
<1>3. /\ Outcome(ready, fmp4, clean) /\ ready.seg # <<>> /\ SameTracks(took, ready)
      /\ ~ready.err => Moves(took, ready, {})
  BY <1>1, TsSegmentGood
<1>6. ASSUME NEW x, SameTracks(took, x), Moves(took, x, {sample}) PROVE Keeps(st, x)
  <2>1. x.taken = st.taken \cup {sample} /\ x.next = st.next /\ x.gone = st.gone
    BY <1>1, <1>6 DEF SameTracks
  <2>2. Fresh(x.files) => Fresh(st.files) /\ Stored(x) = Stored(st) \cup {sample}
    BY <1>1, <1>6 DEF Moves, Stored
  <2> QED BY <2>1, <2>2 DEF Keeps, Lossless
<1> HIDE DEF ready
<1>4. CASE ready.err
  <2>1. r = ready
    BY <1>2, <1>4
  <2> QED BY <1>3, <1>4, <2>1 DEF r
<1>5. CASE ~ready.err
  <2>1. Ready(ready, fmp4, clean) /\ StateGood(ready, fmp4, clean) /\ ready \in RcStates
    BY <1>3, <1>5 DEF Outcome, StateGood
  <2>2. ready.seg[1] \in RcSegments /\ sample.dts \in RcTimes /\ ready.buf \in Seq(RcSamples)
    BY <1>3, <2>1, StateFields DEF RcSamples
  <2>3. /\ s \in RcSegments /\ s.start = ready.seg[1].start /\ s.fi = ready.seg[1].fi
        /\ s.part = ready.seg[1].part
    BY <2>2, SegFields
  <2>4. [ready EXCEPT !.seg[1].last = sample.dts, !.buf = Append(@, sample)] = wrote
    <3>1. [ready EXCEPT !.seg[1].last = sample.dts] = moved
      BY Zenon DEF PutSeg
    <3>2. moved.buf = ready.buf
      BY <2>1 DEF RcStates, PutSeg
    <3>3. [ready EXCEPT !.seg[1].last = sample.dts, !.buf = Append(@, sample)] =
            [[ready EXCEPT !.seg[1].last = sample.dts] EXCEPT !.buf = Append(ready.buf, sample)]
      BY <2>1 DEF RcStates
    <3> HIDE DEF moved
    <3> QED BY Zenon, <3>1, <3>2, <3>3
  <2>5. r = IF spills THEN Flush(wrote) ELSE wrote
    <3> HIDE DEF wrote
    <3> QED BY <1>2, <1>5, <2>4
  <2> HIDE DEF s
  <2>6. /\ StateGood(moved, fmp4, clean) /\ SameTracks(ready, moved) /\ moved.err = ready.err
        /\ moved.seg # <<>> /\ moved.seg[1] = s /\ moved.buf = ready.buf /\ moved.files = ready.files
    BY <1>3, <2>1, <2>3, PutSegGood
  <2> HIDE DEF moved
  <2>7. b \in Seq(RcSamples) /\ ToSet(b) = ToSet(moved.buf) \cup {sample}
    <3> DEFINE a == moved.buf
    <3>1. a \in Seq(RcSamples) /\ sample \in RcSamples
      BY <2>2, <2>6
    <3> HIDE DEF a
    <3>2. Append(a, sample) \in Seq(RcSamples)
      BY ONLY <3>1
    <3>3. ToSet(Append(a, sample)) = ToSet(a) \cup {sample}
      BY ONLY <3>1, SampleJoined
    <3> QED BY <3>2, <3>3 DEF a
  <2> HIDE DEF b
  <2>8. /\ wrote \in RcStates /\ SameTracks(moved, wrote) /\ wrote.files = moved.files
        /\ wrote.seg = moved.seg /\ wrote.fault = moved.fault /\ wrote.err = moved.err /\ wrote.buf = b
    BY <2>6, <2>7, WithBuf DEF StateGood
  <2> HIDE DEF wrote
  <2>9. StateGood(wrote, fmp4, clean) /\ ~wrote.err /\ wrote.seg # <<>> /\ wrote.seg[1].fi # "closed"
    <3>1. StateGood(wrote, fmp4, clean)
      BY <2>6, <2>8 DEF StateGood, PartGood
    <3> QED BY <1>3, <1>5, <2>1, <2>3, <2>6, <2>8, <3>1 DEF Ready
  <2>12. Moves(took, wrote, {sample}) /\ SameTracks(took, wrote)
    <3>1. Part(moved.seg) = Part(ready.seg)
      BY <1>3, <2>3, <2>6 DEF Part
    <3>2. Moves(ready, wrote, {sample})
      BY <2>6, <2>7, <2>8, <3>1 DEF Moves, Stored
    <3>3. SameTracks(took, wrote)
      BY <1>3, <2>6, <2>8 DEF SameTracks
    <3> QED BY <1>3, <1>5, <3>2, <3>3 DEF Moves
  <2>13. wrote.seg[1].part = <<>>
    BY <1>3, <2>1, <2>3, <2>6, <2>8 DEF Ready
  <2>10. CASE spills
    <3>1. r = Flush(wrote)
      BY <2>5, <2>10
    <3>2. /\ StateGood(r, fmp4, clean) /\ r.seg # <<>> /\ SameTracks(wrote, r)
          /\ r.seg[1].part = wrote.seg[1].part
          /\ r.err => ~clean \/ wrote.seg[1].fi = "closed"
          /\ r.seg[1].fi = "closed" => wrote.seg[1].fi = "closed"
          /\ ~r.err => Moves(wrote, r, {})
      <4>1. ~fmp4 /\ clean \in BOOLEAN
        OBVIOUS
      <4> DEFINE f == Flush(wrote)
      <4>2. /\ StateGood(f, fmp4, clean) /\ f.seg # <<>> /\ SameTracks(wrote, f)
            /\ f.seg[1].part = wrote.seg[1].part
            /\ f.err => ~clean \/ wrote.seg[1].fi = "closed"
            /\ f.seg[1].fi = "closed" => wrote.seg[1].fi = "closed"
            /\ ~f.err => Moves(wrote, f, {})
        BY ONLY <2>9, <4>1, FlushGood
      <4> HIDE DEF f
      <4> QED BY <3>1, <4>2 DEF f
    <3>3. SameTracks(took, r) /\ (~r.err => Moves(took, r, {sample}))
      BY <2>12, <3>2 DEF SameTracks, Moves
    <3>4. ~r.err => Keeps(st, r)
      BY <1>6, <3>3
    <3> QED BY <2>9, <2>13, <3>2, <3>4 DEF Outcome, Ready, r
  <2>11. CASE ~spills
    <3>1. r = wrote
      BY <2>5, <2>11
    <3>2. Keeps(st, wrote)
      BY <1>6, <2>12
    <3> QED BY <2>9, <2>13, <3>1, <3>2 DEF Outcome, Ready, r
  <2> QED BY <2>10, <2>11
<1> QED BY <1>4, <1>5

\* A callback begins, perhaps with a write that will fail.
LEMMA CallbackBegins ==
    ASSUME NEW st, NEW fmp4, NEW before, NEW clean, NEW r \in RcStates, Ready(st, fmp4, before),
           r.seg = st.seg, r.files = st.files, r.ver = st.ver, r.next = st.next, r.err = st.err,
           r.buf = st.buf,
           clean => before /\ r.fault = "none"
    PROVE  Ready(r, fmp4, clean)
<1>1. ~st.err /\ DiskGood(st.files, st.seg, fmp4, before) /\ PartGood(st.files, st.seg, st.ver, fmp4)
  BY DEF StateGood, Ready
<1>2. DiskGood(st.files, st.seg, fmp4, clean)
  <2> SUFFICES ASSUME NEW d \in RcTimes
               PROVE  FileGood(st.files[d], fmp4, clean, OpenAt(st.seg, d))
    BY DEF DiskGood
  <2>1. FileGood(st.files[d], fmp4, before, OpenAt(st.seg, d))
    BY <1>1 DEF DiskGood
  <2> QED BY <2>1 DEF FileGood
<1>3. StateGood(r, fmp4, clean)
  BY <1>1, <1>2 DEF StateGood
<1> QED BY <1>3 DEF Ready

\* The instance ended: the file of the segment is not open any more.
LEMMA EndedGood ==
    ASSUME NEW st, NEW r \in RcStates, NEW fmp4, NEW clean, StateGood(st, fmp4, clean),
           st.seg = <<>> \/ st.seg[1].fi # "open",
           r.seg = <<>>, r.files = st.files, r.fault = "none", ~r.err, r.buf = <<>>,
           \A t \in RcTracks : r.next[t] = <<>>
    PROVE  Ready(r, fmp4, clean)
<1>1. DiskGood(st.files, <<>>, fmp4, clean)
  <2>1. \A d \in RcTimes : OpenAt(<<>>, d) = FALSE /\ OpenAt(st.seg, d) = FALSE
    BY DEF OpenAt
  <2> QED BY <2>1 DEF DiskGood, StateGood
<1>2. PartGood(r.files, r.seg, r.ver, fmp4)
  BY DEF PartGood
<1>3. StateGood(r, fmp4, clean)
  BY <1>1, <1>2 DEF StateGood
<1>4. NextFits(r.next, r.ver)
  <2>1. Len(<<>>) = 0 /\ Fits(<<>>, r.ver)
    BY DEF Fits
  <2> QED BY <2>1 DEF NextFits
<1> QED BY <1>3, <1>4 DEF Ready

RcFmp4 == rcFormat = "fmp4"
RcClean == rcFaults = 0
RcTypes ==
    /\ rcInst \in {"running", "paused", "closed"} /\ rcFaults \in 0..MaxRcFaults
    /\ rcTime \in [RcTracks -> 0..(MaxDts + 2)] /\ rcFormat \in {"fmp4", "mpegts"}

\* Unless a write failed or a file was made again, no sample was lost.
Kept(st, clean) == (clean /\ Fresh(st.files)) => Lossless(st)

\* The inductive invariant: the recorder is between two writes.
RcInv == RcTypes /\ Ready(Now("none"), RcFmp4, RcClean) /\ Kept(Now("none"), RcClean)

LEMMA NowFields ==
    /\ Now("none").seg = rcSeg /\ Now("none").next = rcNext /\ Now("none").ver = rcVer
    /\ Now("none").hasVideo = rcHasVideo /\ Now("none").buf = rcBuf /\ Now("none").files = rcFiles
    /\ Now("none").taken = rcTaken /\ Now("none").gone = rcGone /\ Now("none").fault = "none"
    /\ Now("none").err = FALSE
  BY DEF Now

\* formatFMP4.close and formatMPEGTS.close
LEMMA InstanceEndGood ==
    ASSUME NEW st, NEW inst, NEW clean \in BOOLEAN, StateGood(st, RcFmp4, clean), ~st.err,
           InstanceEnd(st, inst), clean => Ready(st, RcFmp4, clean)
    PROVE  /\ Ready(Now("none")', RcFmp4, clean) /\ rcInst' = inst
           /\ clean => Keeps(st, Now("none")')
<1> DEFINE ended == IF st.seg = NoSeg THEN st
                    ELSE IF rcFormat = "fmp4" THEN Fmp4SegmentClose(st) ELSE TsSegmentClose(st)
           pend == UNION {ToSet(ended.next[t]) : t \in RcTracks}
           nx == [t \in RcTracks |-> <<>>]
           n == [seg |-> <<>>, next |-> nx, ver |-> ended.ver, hasVideo |-> FALSE,
                 buf |-> <<>>, files |-> ended.files, taken |-> ended.taken,
                 gone |-> ended.gone \cup pend, fault |-> "none", err |-> FALSE]
<1>1. /\ StateGood(ended, RcFmp4, clean) /\ (ended.seg = <<>> \/ ended.seg[1].fi # "open")
      /\ SameTracks(st, ended)
      /\ clean => Moves(st, ended, {}) /\ Stored(ended) = Disk(ended.files)
  <2>1. CASE st.seg = <<>>
    <3>1. ended = st
      BY <2>1 DEF NoSeg
    <3> HIDE DEF ended
    <3>2. clean => st.buf = <<>> /\ Part(st.seg) = {}
      BY <2>1 DEF Ready, Part
    <3> QED BY <2>1, <3>1, <3>2, NoSamples DEF SameTracks, Moves, Stored
  <2>2. CASE st.seg # <<>> /\ rcFormat = "fmp4"
    <3>1. ended = Fmp4SegmentClose(st)
      BY <2>2 DEF NoSeg
    <3> HIDE DEF ended
    <3>2. /\ StateGood(ended, RcFmp4, clean) /\ SameTracks(st, ended) /\ ended.buf = st.buf
          /\ ended.err => ~clean \/ st.seg[1].fi = "closed"
          /\ ended.seg[1].fi # "open"
          /\ ~ended.err => Moves(st, ended, {}) /\ Part(ended.seg) \subseteq Disk(ended.files)
      BY <2>2, <3>1, SegmentCloseGood
    <3>3. clean => st.buf = <<>> /\ st.seg[1].fi # "closed"
      BY <2>2 DEF Ready, RcFmp4
    <3> QED BY <3>2, <3>3, NoSamples DEF Stored
  <2>3. CASE st.seg # <<>> /\ rcFormat # "fmp4"
    <3>1. ended = TsSegmentClose(st) /\ ~RcFmp4
      BY <2>3 DEF NoSeg, RcFmp4
    <3> HIDE DEF ended
    <3>2. /\ StateGood(ended, RcFmp4, clean) /\ SameTracks(st, ended)
          /\ ended.seg # <<>> /\ ended.seg[1].part = st.seg[1].part
          /\ ended.err => ~clean \/ st.seg[1].fi = "closed"
          /\ ended.seg[1].fi # "open"
          /\ ~ended.err => Moves(st, ended, {}) /\ ended.buf = <<>>
      BY <2>3, <3>1, TsSegmentCloseGood
    <3>3. clean => st.seg[1].part = <<>> /\ st.seg[1].fi # "closed"
      BY <2>3, <3>1 DEF Ready
    <3>4. clean => Part(ended.seg) = {}
      BY <3>2, <3>3, NoSamples DEF Part
    <3> QED BY <3>2, <3>3, <3>4, NoSamples DEF Stored
  <2> QED BY <2>1, <2>2, <2>3
<1>2. Now("none")' = n /\ rcInst' = inst
  BY Zenon DEF InstanceEnd, Now, NoSeg
<1> HIDE DEF ended
<1>3. /\ ended.ver \in [RcTracks -> Nat] /\ ended.files \in [RcTimes -> RcFileSet]
      /\ ended.taken \in SUBSET RcSamples /\ ended.gone \in SUBSET RcSamples
      /\ ended.next \in [RcTracks -> Seq(RcSamples)]
  BY <1>1, StateFields DEF StateGood
<1>4. pend \in SUBSET RcSamples
  <2> SUFFICES ASSUME NEW t \in RcTracks PROVE ToSet(ended.next[t]) \subseteq RcSamples
    OBVIOUS
  <2>1. ended.next[t] \in Seq(RcSamples)
    BY <1>3
  <2> QED BY <2>1 DEF ToSet
<1>8. pend = Waiting(ended.next)
  BY DEF Waiting
<1> HIDE DEF pend
<1>5. n \in RcStates
  <2>1. nx \in [RcTracks -> Seq(RcSamples)] /\ <<>> \in Seq(RcSegments) /\ <<>> \in Seq(RcSamples)
        /\ ended.gone \cup pend \in SUBSET RcSamples /\ "none" \in FaultKinds
    BY <1>3, <1>4 DEF FaultKinds
  <2> HIDE DEF nx
  <2> QED BY <1>3, <2>1 DEF RcStates
<1>6. /\ n.seg = <<>> /\ n.files = ended.files /\ n.fault = "none" /\ ~n.err /\ n.buf = <<>>
      /\ n.taken = ended.taken /\ n.gone = ended.gone \cup pend
      /\ \A t \in RcTracks : n.next[t] = <<>>
  OBVIOUS
<1> HIDE DEF n
<1>7. Ready(n, RcFmp4, clean)
  BY <1>1, <1>5, <1>6, EndedGood
<1>9. clean => Keeps(st, n)
  <2> SUFFICES ASSUME clean, Fresh(n.files) PROVE Fresh(st.files) /\ (Lossless(st) => Lossless(n))
    BY DEF Keeps
  <2>1. Waiting(n.next) = {}
    BY <1>6, NoSamples DEF Waiting
  <2>2. Stored(n) = Disk(ended.files)
    BY <1>6, NoSamples DEF Stored, Part
  <2>3. Fresh(st.files) /\ Stored(st) = Disk(ended.files)
    BY <1>1, <1>6 DEF Moves
  <2>4. ended.taken = st.taken /\ ended.gone = st.gone /\ ended.next = st.next
    BY <1>1 DEF SameTracks
  <2> QED BY <1>6, <1>8, <2>1, <2>2, <2>3, <2>4 DEF Lossless
<1> QED BY <1>2, <1>7, <1>9

\* A callback that failed: the instance is closed without what is in the buffer.
LEMMA GivenUp ==
    ASSUME NEW st, NEW fmp4, NEW clean, StateGood(st, fmp4, clean)
    PROVE  LET c == [st EXCEPT !.err = FALSE, !.buf = <<>>]
           IN  /\ StateGood(c, fmp4, clean) /\ ~c.err
               /\ c.taken = st.taken /\ c.files = st.files /\ c.seg = st.seg
<1> DEFINE e == [st EXCEPT !.err = FALSE]
           c == [st EXCEPT !.err = FALSE, !.buf = <<>>]
<1>1. FALSE \in BOOLEAN /\ <<>> \in Seq(RcSamples)
  OBVIOUS
<1>2. /\ StateGood(e, fmp4, clean) /\ e \in RcStates /\ ~e.err /\ SameTracks(st, e)
      /\ e.files = st.files /\ e.seg = st.seg
  BY <1>1, WithErr DEF StateGood
<1>3. c = [e EXCEPT !.buf = <<>>]
  BY Zenon
<1> HIDE DEF e, c
<1>4. /\ c \in RcStates /\ SameTracks(e, c) /\ c.files = e.files /\ c.seg = e.seg
      /\ c.fault = e.fault /\ c.err = e.err
  BY <1>1, <1>2, <1>3, WithBuf
<1>5. StateGood(c, fmp4, clean)
  BY <1>2, <1>4 DEF StateGood, SameTracks
<1> QED BY <1>2, <1>4, <1>5 DEF c, SameTracks

\* A callback returns.
LEMMA SettleGood ==
    ASSUME NEW st, NEW clean \in BOOLEAN, Outcome(st, RcFmp4, clean), Settle(st)
    PROVE  /\ Ready(Now("none")', RcFmp4, clean) /\ rcInst' \in {rcInst, "paused"}
           /\ clean => ~st.err /\ Keeps(st, Now("none")')
<1>1. CASE st.err
  <2> DEFINE c == [st EXCEPT !.err = FALSE, !.buf = <<>>]
  <2>1. InstanceEnd(c, "paused")
    BY <1>1 DEF Settle
  <2>2. StateGood(st, RcFmp4, clean) /\ FALSE \in BOOLEAN /\ ~clean
    BY <1>1 DEF Outcome
  <2>3. StateGood(c, RcFmp4, clean) /\ ~c.err
    BY <2>2, GivenUp
  <2> HIDE DEF c
  <2> QED BY <2>1, <2>2, <2>3, InstanceEndGood
<1>2. CASE ~st.err
  <2> DEFINE n == [seg |-> st.seg, next |-> st.next, ver |-> st.ver, hasVideo |-> st.hasVideo,
                   buf |-> st.buf, files |-> st.files, taken |-> st.taken, gone |-> st.gone,
                   fault |-> "none", err |-> FALSE]
  <2>1. /\ rcSeg' = st.seg /\ rcNext' = st.next /\ rcVer' = st.ver
        /\ rcHasVideo' = st.hasVideo /\ rcBuf' = st.buf /\ rcFiles' = st.files
        /\ rcTaken' = st.taken /\ rcGone' = st.gone /\ rcInst' = rcInst
    BY <1>2 DEF Settle
  <2>2. Ready(st, RcFmp4, clean) /\ st \in RcStates /\ st.err = FALSE
    BY <1>2, StateFields DEF Outcome, StateGood
  <2>3. Now("none")' = n
    BY Zenon, <2>1, <2>2 DEF Now
  <2>4. /\ n \in RcStates /\ n.seg = st.seg /\ n.next = st.next /\ n.ver = st.ver /\ n.files = st.files
        /\ n.fault = "none" /\ n.err = FALSE /\ n.buf = st.buf /\ n.taken = st.taken /\ n.gone = st.gone
    <3>1. "none" \in FaultKinds
      BY DEF FaultKinds
    <3>2. n \in RcStates
      BY <2>2, <3>1, StateFields DEF RcStates
    <3> QED BY <3>2
  <2> HIDE DEF n
  <2>5. StateGood(n, RcFmp4, clean)
    BY <2>2, <2>4 DEF StateGood, Ready
  <2>6. Ready(n, RcFmp4, clean)
    BY <2>2, <2>4, <2>5 DEF Ready
  <2>7. Keeps(st, n)
    BY <2>4 DEF Keeps, Lossless, Stored
  <2> QED BY <1>2, <2>1, <2>3, <2>6, <2>7
<1> QED BY <1>1, <1>2

\* No callback splits a unit in more than two samples.
LEMMA CallbackSamples ==
    ASSUME NEW format, NEW codec
    PROVE  Callback(format, codec).samples \in {1, 2}
  BY DEF Callback, Cb, Fmp4AV1, Fmp4VP9, Fmp4H265, Fmp4H264, Fmp4MPEG4Video, Fmp4MPEG1Video,
         Fmp4MJPEG, Fmp4Opus, Fmp4MPEG4Audio, Fmp4AC3, Fmp4PCM, TsH26x, TsOldVideo, TsAudio

\* Parameters travel in the stream in MPEG-TS: no callback renews any.
LEMMA TsRenewsNothing ==
    ASSUME NEW codec
    PROVE  Callback("mpegts", codec).renews = "none"
  BY DEF Callback, Cb, TsH26x, TsOldVideo, TsAudio

LEMMA KeepsTwice ==
    ASSUME NEW a, NEW b, NEW c, Keeps(a, b), Keeps(b, c) PROVE Keeps(a, c)
  BY DEF Keeps

\* A callback that renews the parameters of its track loses nothing.
LEMMA RenewalGood ==
    ASSUME NEW st, NEW fmp4, NEW clean \in BOOLEAN, NEW t \in RcTracks, NEW v,
           Ready(st, fmp4, clean), LaterVer(st.ver, t, v), fmp4
    PROVE  /\ Ready(UpdateCodecs(PutVer(st, t, v)), fmp4, clean)
           /\ clean => Keeps(st, UpdateCodecs(PutVer(st, t, v)))
<1> DEFINE r == UpdateCodecs(PutVer(st, t, v))
<1>1. AfterRenewal(st, r, fmp4, clean)
  BY ONLY Ready(st, fmp4, clean), LaterVer(st.ver, t, v), fmp4, clean \in BOOLEAN, t \in RcTracks,
          UpdateCodecsGood
<1> HIDE DEF r
<1>2. clean => Keeps(st, r)
  BY <1>1 DEF AfterRenewal, Keeps, Moves, Lossless
<1> QED BY <1>1, <1>2 DEF AfterRenewal, r

LEMMA SampleGood ==
    ASSUME NEW t \in RcTracks, NEW d \in RcTimes, NEW key \in BOOLEAN, NEW ver \in [RcTracks -> Nat]
    PROVE  Sample(t, d, key, ver[t]) \in RcSamples /\ Suits(Sample(t, d, key, ver[t]), ver)
<1> DEFINE x == Sample(t, d, key, ver[t])
<1>1. ver[t] \in Nat
  OBVIOUS
<1>2. x \in RcSamples /\ x.ver = ver[t] /\ x.track = t
  BY <1>1 DEF Sample, RcSamples
<1> HIDE DEF x
<1> QED BY <1>1, <1>2 DEF Suits, x

LEMMA RecordUnitGood ==
    ASSUME RcInv, NEW t \in RcTracks, RecordUnit(t)
    PROVE  RcInv'
<1>1. PICK fault \in FaultKinds, key \in BOOLEAN, ver \in 0..2, spills \in BOOLEAN :
        LET cb == Callback(rcFormat, rcCodecs[t])
            codec == RenewedBy(t, ver, fault)
            wrote == UnitWrite(codec, t, key, spills)
        IN  /\ rcTime[t] + 2 * cb.samples <= MaxDts + 2
            /\ fault # "none" => rcFaults < MaxRcFaults
            /\ rcFaults' = IF fault = "none" THEN rcFaults ELSE rcFaults + 1
            /\ ver \in {rcVer[t], rcVer[t] + 1}
            /\ rcTime' = [rcTime EXCEPT ![t] = @ + 2 * cb.samples]
            /\ IF cb.waits /\ t \notin rcSeen /\ ~key
               THEN Settle(codec) /\ UNCHANGED rcSeen
               ELSE /\ Settle(wrote)
                    /\ ~wrote.err => rcSeen' = rcSeen \cup {t}
            /\ UNCHANGED <<rcFormat, rcCodecs>>
  BY DEF RecordUnit
<1> DEFINE cb == Callback(rcFormat, rcCodecs[t])
           start == Now(fault)
           renewed == cb.renews # "none" /\ ver # rcVer[t]
           codec == RenewedBy(t, ver, fault)
           one == Sample(t, rcTime[t], key, codec.ver[t])
           two == Sample(t, rcTime[t] + 2, key, codec.ver[t])
           w == TrackWrite(codec, one)
           wrote == UnitWrite(codec, t, key, spills)
           clean == rcFaults' = 0
<1>2. /\ rcTime[t] + 2 * cb.samples <= MaxDts + 2
      /\ fault # "none" => rcFaults < MaxRcFaults
      /\ rcFaults' = IF fault = "none" THEN rcFaults ELSE rcFaults + 1
      /\ ver \in {rcVer[t], rcVer[t] + 1}
      /\ rcTime' = [rcTime EXCEPT ![t] = @ + 2 * cb.samples]
      /\ rcFormat' = rcFormat
      /\ Settle(codec) \/ Settle(wrote)
  <2>1. rcFormat' = rcFormat
    BY <1>1
  <2> QED BY Zenon, <1>1, <2>1
<1>3. /\ codec = IF renewed THEN UpdateCodecs([start EXCEPT !.ver[t] = ver]) ELSE start
      /\ wrote = IF rcFormat = "mpegts" THEN TsWrite(codec, one, spills)
                   ELSE IF cb.samples = 1 \/ w.err THEN w ELSE TrackWrite(w, two)
  <2>1. codec = IF renewed THEN UpdateCodecs([start EXCEPT !.ver[t] = ver]) ELSE start
    BY Zenon DEF RenewedBy
  <2> HIDE DEF codec
  <2>2. wrote = IF rcFormat = "mpegts" THEN TsWrite(codec, one, spills)
                  ELSE IF cb.samples = 1 \/ w.err THEN w ELSE TrackWrite(w, two)
    BY Zenon DEF UnitWrite
  <2> QED BY <2>1, <2>2
<1> HIDE DEF codec, wrote
<1>4. cb.samples \in {1, 2}
  BY CallbackSamples
<1>20. renewed => rcFormat # "mpegts"
  <2> DEFINE c == rcCodecs[t]
  <2>1. rcFormat = "mpegts" => Callback(rcFormat, c).renews = "none"
    <3> HIDE DEF c
    <3> QED BY TsRenewsNothing
  <2> QED BY <2>1
<1> HIDE DEF cb
<1>5. /\ rcInst \in {"running", "paused", "closed"} /\ rcFaults \in 0..MaxRcFaults
      /\ rcTime \in [RcTracks -> 0..(MaxDts + 2)] /\ MaxDts \in Nat /\ MaxRcFaults \in Nat
      /\ rcFormat \in {"fmp4", "mpegts"}
  BY RcBounds DEF RcInv, RcTypes
<1>6. /\ rcTime[t] \in RcTimes /\ (cb.samples # 1 => rcTime[t] + 2 \in RcTimes)
      /\ rcTime' \in [RcTracks -> 0..(MaxDts + 2)]
  <2>1. rcTime[t] \in 0..(MaxDts + 2)
    BY <1>5
  <2>2. rcTime[t] + 2 * cb.samples \in 0..(MaxDts + 2)
    BY <1>2, <1>4, <1>5, <2>1
  <2>3. rcTime[t] \in RcTimes /\ (cb.samples # 1 => rcTime[t] + 2 \in RcTimes)
    BY <1>2, <1>4, <1>5, <2>1 DEF RcTimes
  <2> QED BY <1>2, <1>5, <2>2, <2>3
<1>7. rcFaults' \in 0..MaxRcFaults /\ (clean => RcClean /\ fault = "none")
  BY <1>2, <1>5 DEF RcClean
<1>8. clean \in BOOLEAN
  OBVIOUS
<1> HIDE DEF clean
<1>9. /\ Ready(start, RcFmp4, clean) /\ start.ver = rcVer
      /\ Kept(start, clean)
  <2> DEFINE now == Now("none")
  <2>1. /\ start.seg = rcSeg /\ start.next = rcNext /\ start.ver = rcVer
        /\ start.files = rcFiles /\ start.fault = fault /\ start.err = FALSE
        /\ start.buf = rcBuf /\ start.taken = rcTaken /\ start.gone = rcGone
    BY DEF Now
  <2>2. Ready(now, RcFmp4, RcClean) /\ now \in RcStates /\ Kept(now, RcClean)
    BY DEF RcInv, Ready, StateGood
  <2>3. /\ now.seg = rcSeg /\ now.next = rcNext /\ now.ver = rcVer /\ now.hasVideo = rcHasVideo
        /\ now.buf = rcBuf /\ now.files = rcFiles /\ now.taken = rcTaken /\ now.gone = rcGone
        /\ now.err = FALSE
    BY NowFields
  <2> HIDE DEF now
  <2>4. start \in RcStates
    BY <2>2, <2>3, StateFields DEF RcStates, Now
  <2> HIDE DEF start
  <2>5. Kept(start, clean)
    BY <1>7, <2>1, <2>2, <2>3 DEF Kept, Lossless, Stored
  <2> QED BY <1>7, <2>1, <2>2, <2>3, <2>4, <2>5, CallbackBegins
<1> HIDE DEF start
<1>10. Ready(codec, RcFmp4, clean) /\ (clean => Keeps(start, codec))
  <2>1. CASE renewed
    <3>1. codec = UpdateCodecs(PutVer(start, t, ver))
      <4>1. [start EXCEPT !.ver[t] = ver] = PutVer(start, t, ver)
        BY Zenon DEF PutVer
      <4>2. codec = UpdateCodecs([start EXCEPT !.ver[t] = ver])
        BY <1>3, <2>1
      <4> QED BY Zenon, <4>1, <4>2
    <3>2. LaterVer(start.ver, t, ver)
      <4>1. rcVer[t] \in Nat
        BY <1>9, StateFields DEF Ready, StateGood
      <4> QED BY <1>2, <1>9, <4>1 DEF LaterVer
    <3>4. RcFmp4
      BY <1>5, <1>20, <2>1 DEF RcFmp4
    <3>5. Ready(start, RcFmp4, clean) /\ LaterVer(start.ver, t, ver) /\ RcFmp4 /\ clean \in BOOLEAN
          /\ t \in RcTracks
      BY <1>8, <1>9, <3>2, <3>4
    <3> QED BY ONLY <3>1, <3>5, RenewalGood
  <2>2. CASE ~renewed
    <3>1. codec = start
      BY <1>3, <2>2
    <3> QED BY <1>9, <3>1 DEF Keeps
  <2> QED BY <2>1, <2>2
<1>11. codec.ver \in [RcTracks -> Nat]
  BY <1>10, StateFields DEF Ready, StateGood
<1>12. one \in RcSamples /\ Suits(one, codec.ver)
  BY <1>6, <1>11, SampleGood
<1>13. cb.samples # 1 => two \in RcSamples /\ Suits(two, codec.ver)
  <2> DEFINE d == rcTime[t] + 2
  <2>1. cb.samples # 1 => d \in RcTimes
    BY <1>6
  <2> HIDE DEF d
  <2>2. cb.samples # 1 => /\ Sample(t, d, key, codec.ver[t]) \in RcSamples
                          /\ Suits(Sample(t, d, key, codec.ver[t]), codec.ver)
    BY <1>11, <2>1, SampleGood
  <2> QED BY <2>2 DEF d
<1> HIDE DEF one, two
<1>14. Outcome(wrote, RcFmp4, clean) /\ (~wrote.err => Keeps(codec, wrote))
  <2>1. CASE rcFormat = "mpegts"
    <3>1. wrote = TsWrite(codec, one, spills) /\ ~RcFmp4
      BY <1>3, <2>1 DEF RcFmp4
    <3>2. /\ Ready(codec, RcFmp4, clean) /\ one \in RcSamples /\ ~RcFmp4 /\ clean \in BOOLEAN
          /\ spills \in BOOLEAN
      BY <1>8, <1>10, <1>12, <3>1
    <3> QED BY ONLY <3>1, <3>2, TsWriteGood
  <2>2. CASE rcFormat # "mpegts"
    <3>4. Ready(codec, RcFmp4, clean) /\ one \in RcSamples /\ RcFmp4 /\ clean \in BOOLEAN /\ Suits(one, codec.ver)
      BY <1>5, <1>8, <1>10, <1>12, <2>2 DEF RcFmp4
    <3>1. Outcome(w, RcFmp4, clean) /\ w.ver = codec.ver /\ (~w.err => Keeps(codec, w))
      BY ONLY <3>4, TrackWriteGood
    <3> HIDE DEF w
    <3>2. CASE cb.samples = 1 \/ w.err
      <4>1. wrote = w
        BY <1>3, <2>2, <3>2
      <4> QED BY <3>1, <4>1
    <3>3. CASE ~(cb.samples = 1 \/ w.err)
      <4>1. wrote = TrackWrite(w, two)
        BY <1>3, <2>2, <3>3
      <4>2. Ready(w, RcFmp4, clean) /\ two \in RcSamples /\ Suits(two, w.ver)
        BY <1>13, <3>1, <3>3 DEF Outcome
      <4>3. Outcome(wrote, RcFmp4, clean) /\ (~wrote.err => Keeps(w, wrote))
        BY ONLY <3>4, <4>1, <4>2, TrackWriteGood
      <4> QED BY <3>1, <3>3, <4>3 DEF Keeps
    <3> QED BY <3>2, <3>3
  <2> QED BY <2>1, <2>2
<1>15. Outcome(codec, RcFmp4, clean)
  BY <1>10 DEF Outcome, Ready
<1>16. /\ Ready(Now("none")', RcFmp4, clean) /\ rcInst' \in {rcInst, "paused"}
       /\ clean => Keeps(start, Now("none")')
  <2>1. CASE Settle(codec)
    <3>1. /\ Ready(Now("none")', RcFmp4, clean) /\ rcInst' \in {rcInst, "paused"}
          /\ clean => Keeps(codec, Now("none")')
      BY <1>8, <1>15, <2>1, SettleGood
    <3> QED BY <1>10, <3>1 DEF Keeps
  <2>2. CASE Settle(wrote)
    <3>1. /\ Ready(Now("none")', RcFmp4, clean) /\ rcInst' \in {rcInst, "paused"}
          /\ clean => ~wrote.err /\ Keeps(wrote, Now("none")')
      BY <1>8, <1>14, <2>2, SettleGood
    <3> QED BY <1>10, <1>14, <3>1 DEF Keeps
  <2> QED BY <1>2, <2>1, <2>2
<1>17. RcFmp4' = RcFmp4 /\ RcClean' = clean
  BY <1>2 DEF RcFmp4, RcClean, clean
<1>18. Ready(Now("none"), RcFmp4, RcClean)' /\ Kept(Now("none"), RcClean)'
  <2>1. Kept(Now("none")', clean)
    BY <1>9, <1>16 DEF Kept, Keeps
  <2> QED BY Zenon, <1>16, <1>17, <2>1
<1>19. RcTypes'
  BY <1>2, <1>5, <1>6, <1>7, <1>16 DEF RcTypes
<1> QED BY <1>18, <1>19 DEF RcInv

LEMMA RecorderBegins ==
    ASSUME RcInit PROVE RcInv
<1> DEFINE n == Now("none")
           nx == [t \in RcTracks |-> <<>>]
           zero == [t \in RcTracks |-> 0]
           fs == [d \in 0..MaxDts |-> NoFile]
<1>1. /\ rcInst = "running" /\ rcSeg = <<>> /\ rcNext = nx /\ rcVer = zero /\ rcHasVideo = FALSE
      /\ rcBuf = <<>> /\ rcFiles = fs /\ rcTime = [video |-> 0, audio |-> 1]
      /\ rcTaken = {} /\ rcGone = {} /\ rcFaults = 0
  BY Zenon DEF RcInit, NoSeg
<1>13. rcFormat \in {"fmp4", "mpegts"}
  BY RcBounds DEF RcInit
<1>2. RcTypes
  <2>1. rcTime \in [RcTracks -> 0..(MaxDts + 2)]
    BY <1>1, RcBounds DEF RcTracks
  <2> QED BY <1>1, <1>13, <2>1, RcBounds DEF RcTypes
<1>3. /\ n.seg = <<>> /\ n.next = nx /\ n.ver = zero /\ n.hasVideo = FALSE /\ n.buf = <<>> /\ n.files = fs
      /\ n.taken = {} /\ n.gone = {} /\ n.fault = "none" /\ n.err = FALSE
  BY <1>1, NowFields
<1>4. /\ nx \in [RcTracks -> Seq(RcSamples)] /\ zero \in [RcTracks -> Nat]
      /\ <<>> \in Seq(RcSegments) /\ <<>> \in Seq(RcSamples) /\ "none" \in FaultKinds
  BY DEF FaultKinds
<1>5. NoFile \in RcFileSet /\ NoFile.made = 0 /\ NoFile.complete = 0 /\ NoFile.samples = <<>>
  <2>1. zero \in [RcTracks -> Nat] /\ <<>> \in Seq(RcSamples)
    OBVIOUS
  <2>2. NoFile = [made |-> 0, complete |-> 0, header |-> zero, samples |-> <<>>]
    BY DEF NoFile
  <2> HIDE DEF zero
  <2> QED BY <2>1, <2>2 DEF RcFileSet
<1>6. fs \in [RcTimes -> RcFileSet] /\ \A d \in RcTimes : fs[d] = NoFile
  BY <1>5 DEF RcTimes
<1>7. n \in RcStates
  <2> HIDE DEF nx, zero, fs
  <2>1. n = [seg |-> <<>>, next |-> nx, ver |-> zero, hasVideo |-> FALSE, buf |-> <<>>, files |-> fs,
             taken |-> {}, gone |-> {}, fault |-> "none", err |-> FALSE]
    BY Zenon, <1>1 DEF Now
  <2> HIDE DEF n
  <2> QED BY <1>4, <1>6, <2>1 DEF RcStates
<1>8. \A fmp4 : FileGood(NoFile, fmp4, RcClean, FALSE)
  <2> SUFFICES ASSUME NEW fmp4 PROVE FileGood(NoFile, fmp4, RcClean, FALSE)
    OBVIOUS
  <2>1. Fits(<<>>, NoFile.header)
    BY DEF Fits
  <2> QED BY <1>5, <2>1 DEF FileGood
<1>9. StateGood(n, RcFmp4, RcClean)
  <2>1. \A d \in RcTimes : OpenAt(n.seg, d) = FALSE
    BY <1>3 DEF OpenAt
  <2>2. DiskGood(n.files, n.seg, RcFmp4, RcClean)
    <3> HIDE DEF n, fs
    <3> QED BY <1>3, <1>6, <1>8, <2>1 DEF DiskGood
  <2>3. PartGood(n.files, n.seg, n.ver, RcFmp4)
    BY <1>3 DEF PartGood
  <2> HIDE DEF n
  <2> QED BY <1>3, <1>7, <2>2, <2>3 DEF StateGood
<1>10. NextFits(n.next, n.ver)
  <2>1. Len(<<>>) = 0 /\ Fits(<<>>, n.ver)
    BY DEF Fits
  <2> QED BY <1>3, <2>1 DEF NextFits
<1>12. Kept(n, RcClean)
  <2>1. Disk(n.files) = {}
    <3> HIDE DEF n, fs
    <3> QED BY <1>3, <1>5, <1>6, NoSamples DEF Disk
  <2>2. Waiting(n.next) = {}
    BY <1>3, NoSamples DEF Waiting
  <2> HIDE DEF n
  <2> QED BY <1>3, <2>1, <2>2, NoSamples DEF Kept, Lossless, Stored, Part
<1> HIDE DEF n
<1>11. Ready(n, RcFmp4, RcClean)
  BY <1>3, <1>9, <1>10 DEF Ready
<1> QED BY <1>2, <1>11, <1>12 DEF RcInv, n

\* The recorder stays between two writes.
LEMMA RecorderSteps ==
    ASSUME RcInv, [RcNext]_rcVars PROVE RcInv'
<1>1. ASSUME NEW inst \in {"paused", "closed"}, InstanceEnd(Now("none"), inst),
             UNCHANGED <<rcFormat, rcCodecs, rcTime, rcFaults>>
      PROVE  RcInv'
  <2>1. /\ StateGood(Now("none"), RcFmp4, RcClean) /\ ~Now("none").err
        /\ Ready(Now("none"), RcFmp4, RcClean) /\ Kept(Now("none"), RcClean)
    BY DEF RcInv, Ready
  <2>2. RcClean \in BOOLEAN
    BY DEF RcClean
  <2>3. /\ Ready(Now("none")', RcFmp4, RcClean) /\ rcInst' = inst
        /\ RcClean => Keeps(Now("none"), Now("none")')
    BY <1>1, <2>1, <2>2, InstanceEndGood
  <2>7. Kept(Now("none")', RcClean)
    BY <2>1, <2>3 DEF Kept, Keeps
  <2>4. RcFmp4' = RcFmp4 /\ RcClean' = RcClean
    BY <1>1 DEF RcFmp4, RcClean
  <2>5. Ready(Now("none"), RcFmp4, RcClean)' /\ Kept(Now("none"), RcClean)'
    BY Zenon, <2>3, <2>4, <2>7
  <2>6. RcTypes'
    BY <1>1, <2>3 DEF RcTypes, RcInv
  <2> QED BY <2>5, <2>6 DEF RcInv
<1>2. ASSUME NEW t \in RcTracks, RecordUnit(t) PROVE RcInv'
  BY <1>2, RecordUnitGood
<1>3. ASSUME NEW t \in RcTracks, RefuseUnit(t) PROVE RcInv'
  BY <1>1, <1>3 DEF RefuseUnit
<1>4. CASE RecorderClose
  BY <1>1, <1>4 DEF RecorderClose
<1>5. ASSUME UNCHANGED <<rcFormat, rcCodecs, rcSeg, rcNext, rcVer, rcSeen, rcHasVideo, rcBuf, rcFiles,
                         rcTime, rcTaken, rcGone, rcFaults>>,
             rcInst' \in {"running", "paused", "closed"}
      PROVE  RcInv'
  <2>1. Now("none")' = Now("none") /\ RcFmp4' = RcFmp4 /\ RcClean' = RcClean
    BY <1>5 DEF Now, RcFmp4, RcClean
  <2>2. Ready(Now("none"), RcFmp4, RcClean) /\ Kept(Now("none"), RcClean)
    BY DEF RcInv
  <2>3. Ready(Now("none"), RcFmp4, RcClean)' /\ Kept(Now("none"), RcClean)'
    BY Zenon, <2>1, <2>2
  <2>4. RcTypes'
    BY <1>5 DEF RcTypes, RcInv
  <2> QED BY <2>3, <2>4 DEF RcInv
<1>6. CASE Restart
  BY <1>5, <1>6 DEF Restart
<1>7. CASE UNCHANGED rcVars
  <2>1. rcInst \in {"running", "paused", "closed"}
    BY DEF RcInv, RcTypes
  <2> QED BY <1>5, <1>7, <2>1 DEF rcVars
<1> QED BY <1>2, <1>3, <1>4, <1>6, <1>7 DEF RcNext

LEMMA RecorderInvariant == RcSpec => []RcInv
  BY RecorderBegins, RecorderSteps, PTL DEF RcSpec

\* The state of the recorder stays in its types.
THEOREM RecorderTypeCorrect == RcSpec => []RcTypeOK
<1>1. ASSUME RcInv PROVE RcTypeOK
  <2>1. Now("none") \in RcStates
    BY <1>1 DEF RcInv, Ready, StateGood
  <2>2. rcSeg \in Seq(RcSegments) /\ rcHasVideo \in BOOLEAN
    BY <2>1, StateFields, NowFields
  <2>3. rcSeg # <<>> => rcSeg[1] \in RcSegments
    BY <2>2
  <2>4. rcSeg # <<>> => rcSeg[1].start \in RcTimes /\ rcSeg[1].last \in RcTimes
    BY <2>3 DEF RcSegments
  <2>5. RcTimes \subseteq 0..MaxDts + 1
    BY RcBounds DEF RcTimes
  <2> QED BY <1>1, <2>2, <2>4, <2>5 DEF RcTypeOK, RcInv, RcTypes, NoSeg
<1> QED BY <1>1, RecorderInvariant, PTL

\* What is on the disk, by the invariant.
LEMMA DiskOfRecorder ==
    ASSUME RcInv
    PROVE  /\ rcFiles \in [RcTimes -> RcFileSet]
           /\ \A d \in RcTimes : FileGood(rcFiles[d], RcFmp4, RcClean, OpenAt(rcSeg, d))
<1> DEFINE n == Now("none")
<1>1. n \in RcStates /\ DiskGood(n.files, n.seg, RcFmp4, RcClean)
  BY DEF RcInv, Ready, StateGood
<1>2. n.files = rcFiles /\ n.seg = rcSeg
  BY NowFields
<1> HIDE DEF n
<1> QED BY <1>1, <1>2, StateFields DEF DiskGood

\* Whatever fails, no sample is in a file whose header has older parameters of
\* its codec than it needs (updateCodecs and writeInit).
THEOREM RecordedHeadersKeepUp == RcSpec => []HeadersKeepUp
<1>1. ASSUME RcInv PROVE HeadersKeepUp
  <2> SUFFICES ASSUME NEW d \in DOMAIN rcFiles, NEW k \in DOMAIN OnDisk(d), rcFormat = "fmp4"
               PROVE  OnDisk(d)[k].ver <= rcFiles[d].header[OnDisk(d)[k].track]
    BY DEF HeadersKeepUp
  <2>1. d \in RcTimes /\ FileGood(rcFiles[d], RcFmp4, RcClean, OpenAt(rcSeg, d))
        /\ rcFiles[d] \in RcFileSet
    BY <1>1, DiskOfRecorder
  <2>2. RcFmp4
    BY DEF RcFmp4
  <2>3. Fits(rcFiles[d].samples, rcFiles[d].header) /\ rcFiles[d].samples \in Seq(RcSamples)
    BY <2>1, <2>2 DEF FileGood, RcFileSet
  <2>4. k \in 1..Len(rcFiles[d].samples)
    BY <2>3 DEF OnDisk
  <2> QED BY <2>3, <2>4 DEF Fits, OnDisk
<1> QED BY <1>1, RecorderInvariant, PTL

\* The hooks of a segment: no file is reported complete more often than it was
\* made and, as long as no write fails, each but the open one exactly as often.
THEOREM RecorderHooksPaired == RcSpec => []HooksPaired
<1>1. ASSUME RcInv PROVE HooksPaired
  <2> SUFFICES ASSUME NEW d \in DOMAIN rcFiles
               PROVE  /\ rcFiles[d].complete <= rcFiles[d].made
                      /\ rcFaults = 0 => rcFiles[d].made = rcFiles[d].complete +
                           (IF rcSeg # NoSeg /\ rcSeg[1].start = d /\ rcSeg[1].fi = "open" THEN 1 ELSE 0)
    BY DEF HooksPaired
  <2>1. FileGood(rcFiles[d], RcFmp4, RcClean, OpenAt(rcSeg, d))
    BY <1>1, DiskOfRecorder
  <2> QED BY <2>1 DEF FileGood, RcClean, OpenAt, NoSeg
<1> QED BY <1>1, RecorderInvariant, PTL

\* No sample is lost: as long as no write fails and no file is made again, what
\* the tracks accepted is what the files, the open part, the buffer and the
\* pending samples hold, and what was dropped on purpose (formatFMP4Track.write,
\* formatMPEGTS.write and the closing of segments and instances).
THEOREM RecorderLosesNothing == RcSpec => []NothingLost
<1>1. ASSUME RcInv PROVE NothingLost
  <2> DEFINE n == Now("none")
  <2>1. /\ n.seg = rcSeg /\ n.next = rcNext /\ n.buf = rcBuf /\ n.files = rcFiles
        /\ n.taken = rcTaken /\ n.gone = rcGone
    BY NowFields
  <2>2. Kept(n, RcClean)
    BY <1>1 DEF RcInv
  <2> HIDE DEF n
  <2> SUFFICES ASSUME rcFaults = 0, Rewritten = {}
               PROVE  rcTaken = InFiles \cup InMemory \cup rcGone
    BY DEF NothingLost
  <2>3. rcFiles \in [RcTimes -> RcFileSet]
    BY <1>1, DiskOfRecorder
  <2>4. Fresh(rcFiles)
    <3> SUFFICES ASSUME NEW d \in RcTimes PROVE rcFiles[d].made <= 1
      BY DEF Fresh
    <3>1. rcFiles[d] \in RcFileSet /\ d \in DOMAIN rcFiles
      BY <2>3
    <3>2. rcFiles[d].made \in Nat
      BY <3>1 DEF RcFileSet
    <3>3. ~(rcFiles[d].made > 1)
      BY <3>1 DEF Rewritten
    <3> QED BY <3>2, <3>3
  <2>5. Lossless(n)
    BY <2>1, <2>2, <2>4 DEF Kept, RcClean
  <2> DEFINE next == UNION {ToSet(rcNext[t]) : t \in RcTracks}
             open == IF rcSeg = NoSeg THEN {} ELSE ToSet(rcSeg[1].part)
             buf == ToSet(rcBuf)
  <2>6. Disk(rcFiles) = InFiles
    BY <2>3 DEF Disk, InFiles, OnDisk
  <2>7. InMemory = (buf \cup next) \cup open /\ Waiting(rcNext) = next /\ Part(rcSeg) = open
    BY Zenon DEF InMemory, Waiting, Part, NoSeg
  <2> HIDE DEF next, open
  <2>8. rcTaken = (((InFiles \cup open) \cup buf) \cup next) \cup rcGone
    BY <2>1, <2>5, <2>6, <2>7 DEF Lossless, Stored
  <2> HIDE DEF buf
  <2> QED BY <2>7, <2>8
<1> QED BY <1>1, RecorderInvariant, PTL

-----------------------------------------------------------------------------
(* Where the recorder's samples are, and how often its files end.            *)

\* How often a file was completed, and may be completed by the segment that is
\* written now.
Live(seg, d) == seg # <<>> /\ seg[1].start = d /\ seg[1].fi # "closed"
Ends(st, d) == st.files[d].complete + (IF Live(st.seg, d) THEN 1 ELSE 0)
Shrinks(st, r) == \A d \in RcTimes : Ends(r, d) <= Ends(st, d)

\* Only the file at d got these samples, after those it had or instead of them.
Lands(files, files2, d, more) ==
    /\ \A e \in RcTimes : e # d => files2[e].samples = files[e].samples
    /\ files2[d].samples = more \/ files2[d].samples = files[d].samples \o more

LEMMA EndsNat ==
    ASSUME NEW st \in RcStates, NEW d \in RcTimes
    PROVE  /\ st.files[d].complete \in Nat /\ st.files[d].samples \in Seq(RcSamples)
           /\ Ends(st, d) \in Nat /\ st.files[d].complete <= Ends(st, d)
           /\ Ends(st, d) <= st.files[d].complete + 1
<1>1. st.files[d] \in RcFileSet
  BY StateFields
<1>2. st.files[d].complete \in Nat /\ st.files[d].samples \in Seq(RcSamples)
  BY <1>1 DEF RcFileSet
<1> DEFINE n == st.files[d].complete
<1> HIDE DEF n
<1>3. n \in Nat
  BY <1>2 DEF n
<1>4. CASE Live(st.seg, d)
  <2>1. Ends(st, d) = n + 1
    BY <1>4 DEF Ends, n
  <2> QED BY <1>2, <1>3, <2>1 DEF n
<1>5. CASE ~Live(st.seg, d)
  <2>1. Ends(st, d) = n + 0
    BY <1>5 DEF Ends, n
  <2> QED BY <1>2, <1>3, <2>1 DEF n
<1> QED BY <1>4, <1>5

\* Nothing ends more often when no file is completed and no segment begins.
LEMMA ShrinksIf ==
    ASSUME NEW st \in RcStates, NEW r \in RcStates,
           \A d \in RcTimes : r.files[d].complete = st.files[d].complete,
           \A d \in RcTimes : Live(r.seg, d) => Live(st.seg, d)
    PROVE  Shrinks(st, r)
<1> SUFFICES ASSUME NEW d \in RcTimes PROVE Ends(r, d) <= Ends(st, d)
  BY DEF Shrinks
<1> DEFINE n == st.files[d].complete
<1>1. n \in Nat /\ r.files[d].complete = n /\ (Live(r.seg, d) => Live(st.seg, d))
  BY EndsNat
<1> HIDE DEF n
<1> QED BY <1>1 DEF Ends, n

LEMMA ShrinksTwice ==
    ASSUME NEW a \in RcStates, NEW b \in RcStates, NEW c \in RcStates, Shrinks(a, b), Shrinks(b, c)
    PROVE  Shrinks(a, c)
<1> SUFFICES ASSUME NEW d \in RcTimes PROVE Ends(c, d) <= Ends(a, d)
  BY DEF Shrinks
<1>1. Ends(a, d) \in Nat /\ Ends(b, d) \in Nat /\ Ends(c, d) \in Nat
  BY EndsNat
<1>2. Ends(c, d) <= Ends(b, d) /\ Ends(b, d) <= Ends(a, d)
  BY DEF Shrinks
<1> QED BY <1>1, <1>2

\* os.Create leaves the other files alone and completes none.
LEMMA OpenFileLands ==
    ASSUME NEW st, NEW fmp4, NEW clean \in BOOLEAN, NEW withHeader \in BOOLEAN,
           StateGood(st, fmp4, clean), st.seg # <<>>, st.seg[1].fi = "nil", ~st.err
    PROVE  LET r == OpenFile(st, withHeader)
           IN  /\ \A e \in RcTimes : r.files[e].complete = st.files[e].complete
               /\ \A e \in RcTimes : e # st.seg[1].start => r.files[e].samples = st.files[e].samples
               /\ ~r.err => r.files[st.seg[1].start].samples = <<>>
               /\ Shrinks(st, r)
<1> DEFINE s == st.seg[1]
           d == s.start
           g == Created(st.files[d], st.ver)
           fs == [st.files EXCEPT ![d] = g]
           r == OpenFile(st, withHeader)
<1>1. st \in RcStates
  BY DEF StateGood
<1>2. st.files \in [RcTimes -> RcFileSet] /\ d \in RcTimes /\ st.ver \in [RcTracks -> Nat]
  BY <1>1, StateFields
<1>3. g \in RcFileSet /\ g.samples = <<>> /\ g.complete = st.files[d].complete
  BY <1>2, CreatedFile
<1>4. (r.files = st.files /\ r.err) \/ r.files = fs
  <2> DEFINE created == [st EXCEPT !.files[s.start] = Created(@, st.ver)]
  <2>1. created \in RcStates /\ created.files = fs
    <3>1. created = [st EXCEPT !.files = fs]
      BY Zenon
    <3>2. fs \in [RcTimes -> RcFileSet]
      BY <1>2, <1>3
    <3> HIDE DEF fs, created
    <3> QED BY <1>1, <3>1, <3>2, WithFiles
  <2>2. r = IF st.fault = "create" THEN Failed(st)
            ELSE IF withHeader /\ st.fault = "init" THEN Failed(created)
            ELSE [created EXCEPT !.seg[1].fi = "open"]
    BY Zenon DEF OpenFile
  <2> HIDE DEF created
  <2>3. [created EXCEPT !.seg[1].fi = "open"].files = created.files
    BY <2>1 DEF RcStates
  <2>4. /\ Failed(st).files = st.files /\ Failed(st).err /\ Failed(created).files = created.files
    BY <1>1, <2>1, FailedGood
  <2> HIDE DEF r
  <2>5. CASE st.fault = "create"
    <3>1. r = Failed(st)
      BY <2>2, <2>5
    <3> QED BY <2>4, <3>1
  <2>6. CASE st.fault # "create" /\ (withHeader /\ st.fault = "init")
    <3>1. r = Failed(created)
      BY <2>2, <2>6
    <3> QED BY <2>1, <2>4, <3>1
  <2>7. CASE st.fault # "create" /\ ~(withHeader /\ st.fault = "init")
    <3>1. r = [created EXCEPT !.seg[1].fi = "open"]
      BY <2>2, <2>7
    <3> QED BY <2>1, <2>3, <3>1
  <2> QED BY <2>5, <2>6, <2>7
<1>5. /\ StateGood(r, fmp4, clean) /\ r.seg # <<>> /\ r.seg[1].start = d
  BY OpenFileGood
<1> HIDE DEF r, g
<1>6. /\ \A e \in RcTimes : r.files[e].complete = st.files[e].complete
      /\ \A e \in RcTimes : e # d => r.files[e].samples = st.files[e].samples
      /\ ~r.err => r.files[d].samples = <<>>
  BY <1>2, <1>3, <1>4
<1>7. \A e \in RcTimes : Live(r.seg, e) => Live(st.seg, e)
  BY <1>5 DEF Live
<1>8. r \in RcStates
  BY <1>5 DEF StateGood
<1>9. Shrinks(st, r)
  <2> HIDE DEF d
  <2> QED BY ONLY <1>1, <1>6, <1>7, <1>8, ShrinksIf
<1> QED BY <1>6, <1>9 DEF r

LEMMA FileUpdated ==
    ASSUME NEW f \in RcFileSet, NEW more \in Seq(RcSamples)
    PROVE  /\ Written(f, more) \in RcFileSet /\ Written(f, more).complete = f.complete
           /\ Written(f, more).samples = f.samples \o more
           /\ Completed(f) \in RcFileSet /\ Completed(f).complete = f.complete + 1
           /\ Completed(f).samples = f.samples
<1>1. f.samples \o more \in Seq(RcSamples) /\ f.complete + 1 \in Nat
  BY DEF RcFileSet
<1>2. /\ Written(f, more) \in RcFileSet /\ Written(f, more).complete = f.complete
      /\ Written(f, more).samples = f.samples \o more
  BY <1>1 DEF RcFileSet, Written
<1>3. /\ Completed(f) \in RcFileSet /\ Completed(f).complete = f.complete + 1
      /\ Completed(f).samples = f.samples
  BY <1>1 DEF RcFileSet, Completed
<1> QED BY <1>2, <1>3

LEMMA NoMore ==
    ASSUME NEW a \in Seq(RcSamples) PROVE a \o <<>> = a /\ <<>> \o a = a
OBVIOUS

\* A part lands in the file of its segment.
LEMMA PartCloseLands ==
    ASSUME NEW st, NEW fmp4, NEW clean \in BOOLEAN, StateGood(st, fmp4, clean), st.seg # <<>>, ~st.err
    PROVE  LET r == PartClose(st)
           IN  /\ Shrinks(st, r)
               /\ ~r.err => Lands(st.files, r.files, st.seg[1].start, st.seg[1].part)
<1> DEFINE opened == IF st.seg[1].fi = "nil" THEN OpenFile(st, TRUE) ELSE st
           d == st.seg[1].start
           p == st.seg[1].part
           r == PartClose(st)
<1>1. /\ st \in RcStates /\ st.files \in [RcTimes -> RcFileSet] /\ d \in RcTimes
      /\ p \in Seq(RcSamples) /\ st.seg[1].fi \in {"nil", "open", "closed"}
  BY StateFields DEF StateGood
<1>2. /\ StateGood(opened, fmp4, clean) /\ opened.seg # <<>> /\ opened.seg[1].start = d
      /\ opened.seg[1].part = p
      /\ opened.seg[1].fi = "closed" => st.seg[1].fi = "closed"
      /\ \A e \in RcTimes : opened.files[e].complete = st.files[e].complete
      /\ \A e \in RcTimes : e # d => opened.files[e].samples = st.files[e].samples
      /\ ~opened.err => opened.files[d].samples \in {<<>>, st.files[d].samples}
      /\ Shrinks(st, opened)
  <2>1. CASE st.seg[1].fi = "nil"
    <3>1. opened = OpenFile(st, TRUE) /\ TRUE \in BOOLEAN
      BY <2>1
    <3> HIDE DEF opened
    <3>2. /\ StateGood(opened, fmp4, clean) /\ opened.seg # <<>> /\ opened.seg[1].start = d
          /\ opened.seg[1].part = p
          /\ opened.seg[1].fi = "closed" => st.seg[1].fi = "closed"
      BY <2>1, <3>1, OpenFileGood
    <3>3. /\ \A e \in RcTimes : opened.files[e].complete = st.files[e].complete
          /\ \A e \in RcTimes : e # d => opened.files[e].samples = st.files[e].samples
          /\ ~opened.err => opened.files[d].samples = <<>>
          /\ Shrinks(st, opened)
      BY <2>1, <3>1, OpenFileLands
    <3> QED BY <3>2, <3>3
  <2>2. CASE st.seg[1].fi # "nil"
    <3>1. opened = st
      BY <2>2
    <3>2. Shrinks(st, st)
      BY <1>1, ShrinksIf
    <3> HIDE DEF opened
    <3> QED BY <3>1, <3>2
  <2> QED BY <2>1, <2>2
<1> DEFINE g == Written(opened.files[d], p)
           fs == [opened.files EXCEPT ![d] = g]
<1>3. opened \in RcStates /\ opened.files \in [RcTimes -> RcFileSet] /\ opened.files[d] \in RcFileSet
  <2>1. opened \in RcStates
    BY <1>2 DEF StateGood
  <2> HIDE DEF opened
  <2> QED BY <1>1, <2>1, StateFields
<1>4. r = IF opened.err THEN opened
          ELSE IF opened.seg[1].fi = "closed" THEN Failed(opened)
          ELSE IF opened.fault = "data" THEN Failed(opened)
          ELSE [opened EXCEPT !.files = fs]
  <2>1. r = IF opened.err THEN opened
            ELSE IF opened.seg[1].fi = "closed" THEN Failed(opened)
            ELSE IF opened.fault = "data" THEN Failed(opened)
            ELSE [opened EXCEPT !.files[opened.seg[1].start].samples = @ \o opened.seg[1].part]
    BY Zenon DEF PartClose
  <2>2. opened.seg[1].start = d /\ opened.seg[1].part = p
    BY <1>2
  <2>3. fs = [opened.files EXCEPT ![d].samples = @ \o p]
    BY Zenon DEF Written
  <2> HIDE DEF fs, opened, r, d, p
  <2>4. [opened EXCEPT !.files[opened.seg[1].start].samples = @ \o opened.seg[1].part] =
          [opened EXCEPT !.files = fs]
    BY Zenon, <2>2, <2>3
  <2> QED BY Zenon, <2>1, <2>4
<1> HIDE DEF opened
<1>5. CASE opened.err
  <2>1. r = opened
    BY <1>4, <1>5
  <2> HIDE DEF r
  <2> QED BY <1>2, <1>5, <2>1 DEF r
<1>6. CASE ~opened.err /\ (opened.seg[1].fi = "closed" \/ opened.fault = "data")
  <2>1. r = Failed(opened)
    BY <1>4, <1>6
  <2> HIDE DEF r
  <2>2. r \in RcStates /\ r.err /\ r.files = opened.files /\ r.seg = opened.seg
    BY <1>3, <2>1, FailedGood
  <2>3. Shrinks(opened, r)
    BY <1>3, <2>2, ShrinksIf
  <2>4. Shrinks(st, r)
    BY <1>1, <1>2, <1>3, <2>2, <2>3, ShrinksTwice
  <2> QED BY <2>2, <2>4 DEF r
<1>7. CASE ~opened.err /\ ~(opened.seg[1].fi = "closed" \/ opened.fault = "data")
  <2>1. r = [opened EXCEPT !.files = fs]
    BY <1>4, <1>7
  <2>2. /\ g \in RcFileSet /\ g.complete = opened.files[d].complete
        /\ g.samples = opened.files[d].samples \o p
    BY <1>1, <1>3, FileUpdated
  <2> HIDE DEF g
  <2>3. fs \in [RcTimes -> RcFileSet] /\ fs[d] = g /\ \A e \in RcTimes : e # d => fs[e] = opened.files[e]
    BY <1>1, <1>3, <2>2
  <2> HIDE DEF fs, r
  <2>4. r \in RcStates /\ r.files = fs /\ r.seg = opened.seg
    BY <1>3, <2>1, <2>3, WithFiles
  <2>5. Shrinks(opened, r)
    <3>1. \A e \in RcTimes : r.files[e].complete = opened.files[e].complete
      BY <2>2, <2>3, <2>4
    <3> QED BY <1>3, <2>4, <3>1, ShrinksIf
  <2>6. Shrinks(st, r)
    BY <1>1, <1>2, <1>3, <2>4, <2>5, ShrinksTwice
  <2>7. Lands(st.files, r.files, d, p)
    <3>1. \A e \in RcTimes : e # d => r.files[e].samples = st.files[e].samples
      BY <1>2, <2>3, <2>4
    <3>2. r.files[d].samples = opened.files[d].samples \o p
      BY <2>2, <2>3, <2>4
    <3>3. r.files[d].samples = p \/ r.files[d].samples = st.files[d].samples \o p
      <4>1. CASE opened.files[d].samples = <<>>
        BY <1>1, <3>2, <4>1, NoMore
      <4>2. CASE opened.files[d].samples = st.files[d].samples
        BY <3>2, <4>2
      <4> QED BY <1>2, <1>7, <4>1, <4>2
    <3> QED BY <3>1, <3>3 DEF Lands
  <2> QED BY <2>6, <2>7 DEF r
<1> QED BY <1>5, <1>6, <1>7

\* The end of a file changes no samples.
LEMMA FileCloseLands ==
    ASSUME NEW st, NEW fmp4, NEW clean \in BOOLEAN, StateGood(st, fmp4, clean), st.seg # <<>>, ~st.err
    PROVE  LET r == FileClose(st)
           IN  /\ Shrinks(st, r)
               /\ \A e \in RcTimes : r.files[e].samples = st.files[e].samples
<1> DEFINE s == st.seg[1]
           d == s.start
           s2 == [s EXCEPT !.fi = "closed"]
           seg2 == [st.seg EXCEPT ![1] = s2]
           g == Completed(st.files[d])
           fs == [st.files EXCEPT ![d] = g]
           closed == [st EXCEPT !.seg = seg2]
           done == [closed EXCEPT !.files = fs]
           r == FileClose(st)
<1>1. st \in RcStates
  BY DEF StateGood
<1>2. /\ st.files \in [RcTimes -> RcFileSet] /\ st.seg \in Seq(RcSegments) /\ s \in RcSegments
      /\ d \in RcTimes /\ st.files[d] \in RcFileSet /\ s.fi \in {"nil", "open", "closed"}
  BY <1>1, StateFields
<1>3. s2 \in RcSegments /\ s2.fi = "closed" /\ s2.start = d
  BY <1>2, SegFi
<1>4. seg2 \in Seq(RcSegments) /\ seg2 # <<>> /\ seg2[1] = s2
  <2> HIDE DEF s2
  <2> QED BY <1>2, <1>3, SegUpdated
<1>5. closed \in RcStates /\ closed.files = st.files /\ closed.seg = seg2
  <2> HIDE DEF seg2
  <2> QED BY <1>1, <1>4, WithSeg
<1>6. r = IF s.fi = "nil" THEN st
          ELSE IF s.fi = "closed" \/ st.fault = "close" THEN Failed(closed)
          ELSE IF st.fault = "duration" /\ rcFormat = "fmp4" THEN Failed(done)
          ELSE done
  <2>1. closed = [st EXCEPT !.seg[1].fi = "closed"]
    BY Zenon
  <2>2. done = [closed EXCEPT !.files[st.seg[1].start].complete = @ + 1]
    <3>1. closed.files = st.files
      BY <1>5
    <3>2. [closed EXCEPT !.files[st.seg[1].start].complete = @ + 1] =
            [closed EXCEPT !.files = [closed.files EXCEPT ![d] = Completed(closed.files[d])]]
      BY Zenon DEF Completed
    <3> HIDE DEF closed
    <3> QED BY Zenon, <3>1, <3>2
  <2> DEFINE closedAt == [st EXCEPT !.seg[1].fi = "closed"]
             doneAt(c) == [c EXCEPT !.files[st.seg[1].start].complete = @ + 1]
  <2>3. r = IF s.fi = "nil" THEN st
            ELSE IF s.fi = "closed" \/ st.fault = "close" THEN Failed(closedAt)
            ELSE IF st.fault = "duration" /\ rcFormat = "fmp4" THEN Failed(doneAt(closedAt))
            ELSE doneAt(closedAt)
    BY Zenon DEF FileClose
  <2>4. closedAt = closed /\ doneAt(closed) = done
    BY Zenon, <2>1, <2>2
  <2> HIDE DEF closed, done, closedAt, doneAt, r
  <2> QED BY Zenon, <2>3, <2>4
<1>7. \A e \in RcTimes : ~Live(seg2, e)
  BY <1>3, <1>4 DEF Live
<1> HIDE DEF s2, seg2, closed
<1>8. CASE s.fi = "nil"
  <2>1. r = st
    BY <1>6, <1>8
  <2>2. Shrinks(st, st)
    BY <1>1, ShrinksIf
  <2> HIDE DEF r
  <2> QED BY <2>1, <2>2 DEF r
<1>9. CASE s.fi # "nil" /\ (s.fi = "closed" \/ st.fault = "close")
  <2>1. r = Failed(closed)
    BY <1>6, <1>9
  <2> HIDE DEF r
  <2>2. r \in RcStates /\ r.seg = seg2 /\ r.files = st.files
    BY <1>5, <2>1, FailedGood
  <2>3. Shrinks(st, r)
    BY <1>1, <1>7, <2>2, ShrinksIf
  <2> QED BY <2>2, <2>3 DEF r
<1>10. CASE ~(s.fi = "nil") /\ ~(s.fi = "closed" \/ st.fault = "close")
  <2>1. /\ g \in RcFileSet /\ g.complete = st.files[d].complete + 1 /\ g.samples = st.files[d].samples
    <3>1. <<>> \in Seq(RcSamples)
      OBVIOUS
    <3> QED BY <1>2, <3>1, FileUpdated
  <2> HIDE DEF g
  <2>2. fs \in [RcTimes -> RcFileSet] /\ fs[d] = g /\ \A e \in RcTimes : e # d => fs[e] = st.files[e]
    BY <1>2, <2>1
  <2> HIDE DEF fs
  <2>3. done \in RcStates /\ done.files = fs /\ done.seg = seg2
    BY <1>5, <2>2, WithFiles
  <2> HIDE DEF done
  <2>4. r \in RcStates /\ r.files = fs /\ r.seg = seg2
    <3>1. r = Failed(done) \/ r = done
      BY <1>6, <1>10
    <3> HIDE DEF r
    <3> QED BY <2>3, <3>1, FailedGood
  <2> HIDE DEF r
  <2>5. \A e \in RcTimes : r.files[e].samples = st.files[e].samples
    BY <2>1, <2>2, <2>4
  <2>6. Shrinks(st, r)
    <3> SUFFICES ASSUME NEW e \in RcTimes PROVE Ends(r, e) <= Ends(st, e)
      BY DEF Shrinks
    <3>1. Ends(st, e) \in Nat /\ st.files[e].complete \in Nat /\ st.files[e].complete <= Ends(st, e)
      BY <1>1, EndsNat
    <3>2. ~Live(r.seg, e)
      BY <1>7, <2>4
    <3>3. Ends(r, e) = fs[e].complete + 0
      BY <2>4, <3>2 DEF Ends
    <3>4. CASE e = d
      <4>1. Live(st.seg, e)
        BY <1>10, <3>4 DEF Live
      <4>2. Ends(st, e) = st.files[e].complete + 1
        BY <4>1 DEF Ends
      <4>3. fs[e].complete = st.files[e].complete + 1
        BY <2>1, <2>2, <3>4
      <4> QED BY <3>1, <3>3, <4>2, <4>3
    <3>5. CASE e # d
      <4>1. fs[e].complete = st.files[e].complete
        BY <2>2, <3>5
      <4> QED BY <3>1, <3>3, <4>1
    <3> QED BY <3>4, <3>5
  <2> QED BY <2>5, <2>6 DEF r
<1> QED BY <1>8, <1>9, <1>10

LEMMA ClosedAfterLands ==
    ASSUME NEW closed, NEW fmp4, NEW clean \in BOOLEAN, StateGood(closed, fmp4, clean), closed.seg # <<>>
    PROVE  LET ended == FileClose([closed EXCEPT !.err = FALSE])
               r == [ended EXCEPT !.err = @ \/ closed.err]
           IN  /\ r \in RcStates /\ Shrinks(closed, r)
               /\ \A e \in RcTimes : r.files[e].samples = closed.files[e].samples
<1> DEFINE c == [closed EXCEPT !.err = FALSE]
           ended == FileClose(c)
           e == ended.err \/ closed.err
           r == [ended EXCEPT !.err = e]
<1>1. StateGood(c, fmp4, clean) /\ c.files = closed.files /\ c.seg = closed.seg /\ ~c.err
  <2>1. FALSE \in BOOLEAN
    OBVIOUS
  <2> QED BY <2>1, WithErr
<1> HIDE DEF c
<1>2. StateGood(ended, fmp4, clean)
  BY <1>1, FileCloseGood
<1>3. Shrinks(c, ended) /\ \A d \in RcTimes : ended.files[d].samples = c.files[d].samples
  BY <1>1, FileCloseLands
<1> HIDE DEF ended
<1>4. e \in BOOLEAN
  OBVIOUS
<1> HIDE DEF e
<1>5. StateGood(r, fmp4, clean) /\ r.files = ended.files /\ r.seg = ended.seg
  BY <1>2, <1>4, WithErr
<1> HIDE DEF r
<1>6. r \in RcStates
  BY <1>5 DEF StateGood
<1>7. Shrinks(closed, r)
  BY <1>1, <1>3, <1>5 DEF Shrinks, Ends
<1> QED BY <1>1, <1>3, <1>5, <1>6, <1>7 DEF r, e, ended, c

\* The end of a segment: its part lands in its file.
LEMMA SegmentCloseLands ==
    ASSUME NEW st, NEW fmp4, NEW clean \in BOOLEAN, StateGood(st, fmp4, clean), st.seg # <<>>, ~st.err
    PROVE  LET r == Fmp4SegmentClose(st)
           IN  /\ Shrinks(st, r)
               /\ ~r.err => Lands(st.files, r.files, st.seg[1].start, st.seg[1].part)
<1> DEFINE r == Fmp4SegmentClose(st)
           d == st.seg[1].start
           p == st.seg[1].part
<1>1. /\ st \in RcStates /\ d \in RcTimes
  BY StateFields DEF StateGood
<1>2. CASE p = <<>>
  <2>1. r = FileClose(st)
    BY <1>2 DEF Fmp4SegmentClose
  <2> HIDE DEF r
  <2>2. Shrinks(st, r) /\ \A e \in RcTimes : r.files[e].samples = st.files[e].samples
    BY <2>1, FileCloseLands
  <2>3. st.files[d].samples \in Seq(RcSamples)
    BY <1>1, EndsNat
  <2>4. st.files[d].samples = st.files[d].samples \o p
    BY <1>2, <2>3, NoMore
  <2> QED BY <1>1, <2>2, <2>4 DEF r, Lands
<1>3. CASE p # <<>>
  <2> DEFINE closed == PartClose(st)
  <2>1. /\ StateGood(closed, fmp4, clean) /\ SameTracks(st, closed)
        /\ closed.seg # <<>> /\ closed.seg[1].start = st.seg[1].start
        /\ closed.err => ~clean \/ st.seg[1].fi = "closed"
        /\ closed.seg[1].fi = "closed" => st.seg[1].fi = "closed"
    BY PartCloseGood
  <2>2. Shrinks(st, closed) /\ (~closed.err => Lands(st.files, closed.files, d, p))
    BY PartCloseLands
  <2>3. r = [FileClose([closed EXCEPT !.err = FALSE]) EXCEPT !.err = @ \/ closed.err]
    BY Zenon, <1>3 DEF Fmp4SegmentClose
  <2> HIDE DEF closed, r
  <2>4. closed.err => r.err
    BY <2>1, <2>3, ClosedAfter
  <2>5. /\ r \in RcStates /\ Shrinks(closed, r)
        /\ \A e \in RcTimes : r.files[e].samples = closed.files[e].samples
    BY <2>1, <2>3, ClosedAfterLands
  <2>6. closed \in RcStates
    BY <2>1 DEF StateGood
  <2>7. Shrinks(st, r)
    BY <1>1, <2>2, <2>5, <2>6, ShrinksTwice
  <2>8. ~r.err => Lands(st.files, r.files, d, p)
    BY <1>1, <2>2, <2>4, <2>5 DEF Lands
  <2> QED BY <2>7, <2>8 DEF r
<1> QED BY <1>2, <1>3

\* bufio.Writer.Flush: the buffer lands in the file of the segment.
LEMMA FlushLands ==
    ASSUME NEW st, NEW fmp4, NEW clean \in BOOLEAN, StateGood(st, fmp4, clean), st.seg # <<>>, ~st.err,
           ~fmp4
    PROVE  LET r == Flush(st)
           IN  /\ Shrinks(st, r)
               /\ ~r.err => Lands(st.files, r.files, st.seg[1].start, st.buf)
<1> DEFINE opened == IF st.seg[1].fi = "nil" THEN OpenFile(st, FALSE) ELSE st
           d == st.seg[1].start
           p == st.buf
           r == Flush(st)
<1>1. /\ st \in RcStates /\ st.files \in [RcTimes -> RcFileSet] /\ d \in RcTimes
      /\ p \in Seq(RcSamples) /\ st.seg[1].fi \in {"nil", "open", "closed"}
      /\ st.files[d].samples \in Seq(RcSamples)
  BY StateFields, EndsNat DEF StateGood
<1>2. /\ StateGood(opened, fmp4, clean) /\ opened.seg # <<>> /\ opened.seg[1].start = d
      /\ opened.buf = p
      /\ \A e \in RcTimes : opened.files[e].complete = st.files[e].complete
      /\ \A e \in RcTimes : e # d => opened.files[e].samples = st.files[e].samples
      /\ ~opened.err => opened.files[d].samples \in {<<>>, st.files[d].samples}
      /\ Shrinks(st, opened)
  <2>1. CASE st.seg[1].fi = "nil"
    <3>1. opened = OpenFile(st, FALSE) /\ FALSE \in BOOLEAN
      BY <2>1
    <3> HIDE DEF opened
    <3>2. /\ StateGood(opened, fmp4, clean) /\ opened.seg # <<>> /\ opened.seg[1].start = d
          /\ opened.buf = p
      BY <2>1, <3>1, OpenFileGood
    <3>3. /\ \A e \in RcTimes : opened.files[e].complete = st.files[e].complete
          /\ \A e \in RcTimes : e # d => opened.files[e].samples = st.files[e].samples
          /\ ~opened.err => opened.files[d].samples = <<>>
          /\ Shrinks(st, opened)
      BY <2>1, <3>1, OpenFileLands
    <3> QED BY <3>2, <3>3
  <2>2. CASE st.seg[1].fi # "nil"
    <3>1. opened = st
      BY <2>2
    <3>2. Shrinks(st, st)
      BY <1>1, ShrinksIf
    <3> HIDE DEF opened
    <3> QED BY <3>1, <3>2
  <2> QED BY <2>1, <2>2
<1> DEFINE g == Written(opened.files[d], p)
           fs == [opened.files EXCEPT ![d] = g]
           landed == [[opened EXCEPT !.files = fs] EXCEPT !.buf = <<>>]
<1>3. opened \in RcStates /\ opened.files \in [RcTimes -> RcFileSet] /\ opened.files[d] \in RcFileSet
  <2>1. opened \in RcStates
    BY <1>2 DEF StateGood
  <2> HIDE DEF opened
  <2> QED BY <1>1, <2>1, StateFields
<1>4. r = IF p = <<>> THEN st ELSE IF opened.err THEN opened
          ELSE IF opened.seg[1].fi = "closed" \/ opened.fault = "data" THEN Failed(opened)
          ELSE landed
  <2>1. r = IF p = <<>> THEN st ELSE IF opened.err THEN opened
            ELSE IF opened.seg[1].fi = "closed" \/ opened.fault = "data" THEN Failed(opened)
            ELSE [opened EXCEPT !.files[d].samples = @ \o p, !.buf = <<>>]
    BY Zenon DEF Flush
  <2>2. [opened EXCEPT !.files[d].samples = @ \o p, !.buf = <<>>] = landed
    <3>1. fs = [opened.files EXCEPT ![d].samples = @ \o p]
      BY Zenon DEF Written
    <3>2. [opened EXCEPT !.files[d].samples = @ \o p, !.buf = <<>>] =
            [[opened EXCEPT !.files = [opened.files EXCEPT ![d].samples = @ \o p]] EXCEPT !.buf = <<>>]
      <4> HIDE DEF opened, d, p
      <4> QED BY Zenon
    <3> HIDE DEF fs, opened, d, p
    <3> QED BY Zenon, <3>1, <3>2
  <2> HIDE DEF landed, opened, d, p, r
  <2> QED BY Zenon, <2>1, <2>2
<1> HIDE DEF opened
<1>8. CASE p = <<>>
  <2>1. r = st
    BY <1>4, <1>8
  <2> HIDE DEF r
  <2>2. Shrinks(st, st) /\ st.files[d].samples \o p = st.files[d].samples
    BY <1>1, <1>8, ShrinksIf, NoMore
  <2> QED BY <2>1, <2>2 DEF r, Lands
<1>5. CASE p # <<>> /\ opened.err
  <2>1. r = opened
    BY <1>4, <1>5
  <2> HIDE DEF r
  <2> QED BY <1>2, <1>5, <2>1 DEF r
<1>6. CASE p # <<>> /\ ~opened.err /\ (opened.seg[1].fi = "closed" \/ opened.fault = "data")
  <2>1. r = Failed(opened)
    BY <1>4, <1>6
  <2> HIDE DEF r
  <2>2. r \in RcStates /\ r.err /\ r.files = opened.files /\ r.seg = opened.seg
    BY <1>3, <2>1, FailedGood
  <2>3. Shrinks(opened, r)
    BY <1>3, <2>2, ShrinksIf
  <2>4. Shrinks(st, r)
    BY <1>1, <1>2, <1>3, <2>2, <2>3, ShrinksTwice
  <2> QED BY <2>2, <2>4 DEF r
<1>7. CASE p # <<>> /\ ~opened.err /\ ~(opened.seg[1].fi = "closed" \/ opened.fault = "data")
  <2>1. r = landed
    BY <1>4, <1>7
  <2>2. /\ g \in RcFileSet /\ g.complete = opened.files[d].complete
        /\ g.samples = opened.files[d].samples \o p
    BY <1>1, <1>3, FileUpdated
  <2> HIDE DEF g
  <2>3. fs \in [RcTimes -> RcFileSet] /\ fs[d] = g /\ \A e \in RcTimes : e # d => fs[e] = opened.files[e]
    BY <1>1, <1>3, <2>2
  <2> HIDE DEF fs, r
  <2>4. r \in RcStates /\ r.files = fs /\ r.seg = opened.seg
    <3> DEFINE m == [opened EXCEPT !.files = fs]
               none == <<>>
    <3>1. m \in RcStates /\ m.files = fs /\ m.seg = opened.seg
      BY <1>3, <2>3, WithFiles
    <3> HIDE DEF m
    <3>2. r = [m EXCEPT !.buf = none] /\ none \in Seq(RcSamples)
      BY <2>1 DEF m
    <3> HIDE DEF none
    <3> QED BY ONLY <3>1, <3>2, WithBuf
  <2>5. Shrinks(opened, r)
    <3>1. \A e \in RcTimes : r.files[e].complete = opened.files[e].complete
      BY <2>2, <2>3, <2>4
    <3> QED BY <1>3, <2>4, <3>1, ShrinksIf
  <2>6. Shrinks(st, r)
    BY <1>1, <1>2, <1>3, <2>4, <2>5, ShrinksTwice
  <2>7. Lands(st.files, r.files, d, p)
    <3>1. \A e \in RcTimes : e # d => r.files[e].samples = st.files[e].samples
      BY <1>2, <2>3, <2>4
    <3>2. r.files[d].samples = opened.files[d].samples \o p
      BY <2>2, <2>3, <2>4
    <3>3. r.files[d].samples = p \/ r.files[d].samples = st.files[d].samples \o p
      <4>1. CASE opened.files[d].samples = <<>>
        BY <1>1, <3>2, <4>1, NoMore
      <4>2. CASE opened.files[d].samples = st.files[d].samples
        BY <3>2, <4>2
      <4> QED BY <1>2, <1>7, <4>1, <4>2
    <3> QED BY <3>1, <3>3 DEF Lands
  <2> QED BY <2>6, <2>7 DEF r
<1> QED BY <1>5, <1>6, <1>7, <1>8

\* formatMPEGTSSegment.close
LEMMA TsSegmentCloseLands ==
    ASSUME NEW st, NEW fmp4, NEW clean \in BOOLEAN, StateGood(st, fmp4, clean), st.seg # <<>>, ~st.err,
           ~fmp4
    PROVE  LET r == TsSegmentClose(st)
           IN  /\ Shrinks(st, r)
               /\ ~r.err => Lands(st.files, r.files, st.seg[1].start, st.buf)
<1> DEFINE r == TsSegmentClose(st)
           flushed == Flush(st)
           d == st.seg[1].start
           p == st.buf
<1>1. st \in RcStates /\ d \in RcTimes
  BY StateFields DEF StateGood
<1>2. /\ StateGood(flushed, fmp4, clean) /\ SameTracks(st, flushed)
      /\ flushed.seg # <<>> /\ flushed.seg[1].start = st.seg[1].start
      /\ flushed.err => ~clean \/ st.seg[1].fi = "closed"
      /\ flushed.seg[1].fi = "closed" => st.seg[1].fi = "closed"
  BY FlushGood
<1>3. Shrinks(st, flushed) /\ (~flushed.err => Lands(st.files, flushed.files, d, p))
  BY FlushLands
<1>4. r = [FileClose([flushed EXCEPT !.err = FALSE]) EXCEPT !.err = @ \/ flushed.err]
  BY Zenon DEF TsSegmentClose
<1> HIDE DEF flushed, r
<1>5. flushed.err => r.err
  BY <1>2, <1>4, ClosedAfter
<1>6. /\ r \in RcStates /\ Shrinks(flushed, r)
      /\ \A e \in RcTimes : r.files[e].samples = flushed.files[e].samples
  BY <1>2, <1>4, ClosedAfterLands
<1>7. flushed \in RcStates
  BY <1>2 DEF StateGood
<1>8. Shrinks(st, r)
  BY <1>1, <1>3, <1>6, <1>7, ShrinksTwice
<1>9. ~r.err => Lands(st.files, r.files, d, p)
  BY <1>1, <1>3, <1>5, <1>6 DEF Lands
<1> QED BY <1>8, <1>9 DEF r

\* The samples of a track follow one another.
Before(x, y) == x.track = y.track => x.dts < y.dts
Rises(s) == \A j, k \in 1..Len(s) : j < k => Before(s[j], s[k])
Precede(a, b) == \A x \in a, y \in b : Before(x, y)

LEMMA NotBeforeItself ==
    ASSUME NEW x \in RcSamples PROVE ~Before(x, x)
<1>1. x.dts \in Nat
  BY RcBounds DEF RcSamples, RcTimes
<1> QED BY <1>1 DEF Before

LEMMA InSamples ==
    ASSUME NEW a \in Seq(RcSamples)
    PROVE  /\ ToSet(a) \subseteq RcSamples
           /\ \A k \in 1..Len(a) : a[k] \in ToSet(a)
           /\ \A x \in ToSet(a) : \E k \in 1..Len(a) : x = a[k]
BY DEF ToSet

LEMMA RisesJoin ==
    ASSUME NEW a \in Seq(RcSamples), NEW b \in Seq(RcSamples), Rises(a), Rises(b),
           Precede(ToSet(a), ToSet(b))
    PROVE  Rises(a \o b)
<1> DEFINE c == a \o b
<1>1. /\ Len(a) \in Nat /\ Len(b) \in Nat /\ Len(c) = Len(a) + Len(b)
      /\ \A k \in 1..Len(c) : c[k] = IF k <= Len(a) THEN a[k] ELSE b[k - Len(a)]
  OBVIOUS
<1> HIDE DEF c
<1> SUFFICES ASSUME NEW j \in 1..Len(c), NEW k \in 1..Len(c), j < k PROVE Before(c[j], c[k])
  BY DEF Rises, c
<1>2. CASE k <= Len(a)
  <2>1. j \in 1..Len(a) /\ k \in 1..Len(a) /\ c[j] = a[j] /\ c[k] = a[k]
    BY <1>1, <1>2
  <2> QED BY <2>1 DEF Rises
<1>3. CASE ~(k <= Len(a)) /\ j <= Len(a)
  <2>1. /\ j \in 1..Len(a) /\ k - Len(a) \in 1..Len(b) /\ c[j] = a[j] /\ c[k] = b[k - Len(a)]
    BY <1>1, <1>3
  <2>2. a[j] \in ToSet(a) /\ b[k - Len(a)] \in ToSet(b)
    BY <2>1, InSamples
  <2> QED BY <2>1, <2>2 DEF Precede
<1>4. CASE ~(k <= Len(a)) /\ ~(j <= Len(a))
  <2>1. /\ j - Len(a) \in 1..Len(b) /\ k - Len(a) \in 1..Len(b) /\ j - Len(a) < k - Len(a)
        /\ c[j] = b[j - Len(a)] /\ c[k] = b[k - Len(a)]
    BY <1>1, <1>4
  <2> QED BY <2>1 DEF Rises
<1> QED BY <1>2, <1>3, <1>4

LEMMA RisesOne ==
    ASSUME NEW a \in Seq(RcSamples), NEW x \in RcSamples, Rises(a), Precede(ToSet(a), {x})
    PROVE  Rises(Append(a, x))
<1> DEFINE c == Append(a, x)
<1>1. /\ Len(a) \in Nat /\ Len(c) = Len(a) + 1
      /\ \A k \in 1..Len(c) : c[k] = IF k <= Len(a) THEN a[k] ELSE x
  OBVIOUS
<1> HIDE DEF c
<1> SUFFICES ASSUME NEW j \in 1..Len(c), NEW k \in 1..Len(c), j < k PROVE Before(c[j], c[k])
  BY DEF Rises, c
<1>2. j \in 1..Len(a) /\ c[j] = a[j]
  BY <1>1
<1>3. CASE k <= Len(a)
  <2>1. k \in 1..Len(a) /\ c[k] = a[k]
    BY <1>1, <1>3
  <2> QED BY <1>2, <2>1 DEF Rises
<1>4. CASE ~(k <= Len(a))
  <2>1. c[k] = x /\ a[j] \in ToSet(a)
    BY <1>1, <1>2, <1>4, InSamples
  <2> QED BY <1>2, <2>1 DEF Precede
<1> QED BY <1>3, <1>4

LEMMA RisesNone == Rises(<<>>)
BY DEF Rises

\* The samples of a track are in order in each file and in memory, where they
\* come after those on the disk; no sample is in two files, nor both dropped
\* and kept.
Core(files, mem, gone) ==
    /\ \A d \in RcTimes : Rises(files[d].samples)
    /\ Rises(mem)
    /\ \A d \in RcTimes : Precede(ToSet(files[d].samples), ToSet(mem))
    /\ gone \cap ToSet(mem) = {}
    /\ \A d \in RcTimes : gone \cap ToSet(files[d].samples) = {}
    /\ \A d, e \in RcTimes : d # e => ToSet(files[d].samples) \cap ToSet(files[e].samples) = {}

\* What is in memory lands in a file.
LEMMA CoreLands ==
    ASSUME NEW files \in [RcTimes -> RcFileSet], NEW files2 \in [RcTimes -> RcFileSet], NEW d \in RcTimes,
           NEW mem \in Seq(RcSamples), NEW gone, Core(files, mem, gone), Lands(files, files2, d, mem)
    PROVE  /\ Core(files2, <<>>, gone) /\ ToSet(files2[d].samples) \subseteq ToSet(files[d].samples) \cup ToSet(mem)
           /\ \A e \in RcTimes : e # d => files2[e].samples = files[e].samples
<1> DEFINE a == files[d].samples
           b == files2[d].samples
<1>1. files[d] \in RcFileSet /\ \A e \in RcTimes : files[e].samples \in Seq(RcSamples)
  BY DEF RcFileSet
<1>2. a \in Seq(RcSamples) /\ (b = mem \/ b = a \o mem)
  BY <1>1 DEF Lands
<1>3. Rises(a) /\ Rises(mem) /\ Precede(ToSet(a), ToSet(mem))
  BY DEF Core
<1>4. \A e \in RcTimes : e # d => files2[e].samples = files[e].samples
  BY DEF Lands
<1> HIDE DEF a, b
<1>5. Rises(b) /\ ToSet(b) \subseteq ToSet(a) \cup ToSet(mem)
  <2>1. CASE b = mem
    BY <1>3, <2>1
  <2>2. CASE b = a \o mem
    <3>1. Rises(a \o mem)
      BY <1>2, <1>3, RisesJoin
    <3>2. ToSet(a \o mem) = ToSet(a) \cup ToSet(mem)
      BY <1>2, SamplesJoined
    <3> QED BY <2>2, <3>1, <3>2
  <2> QED BY <1>2, <2>1, <2>2
<1>6. ToSet(<<>>) = {} /\ Rises(<<>>)
  BY NoSamples, RisesNone
<1>7. \A e \in RcTimes : Rises(files2[e].samples)
  BY <1>4, <1>5 DEF Core, b
<1>8. \A e \in RcTimes : gone \cap ToSet(files2[e].samples) = {}
  <2> SUFFICES ASSUME NEW e \in RcTimes PROVE gone \cap ToSet(files2[e].samples) = {}
    OBVIOUS
  <2>1. gone \cap ToSet(files[e].samples) = {} /\ gone \cap ToSet(mem) = {}
    BY DEF Core
  <2>2. CASE e = d
    BY <1>5, <2>1, <2>2 DEF a, b
  <2>3. CASE e # d
    BY <1>4, <2>1, <2>3
  <2> QED BY <2>2, <2>3
<1>9. \A e \in RcTimes : e # d => ToSet(b) \cap ToSet(files[e].samples) = {}
  <2> SUFFICES ASSUME NEW e \in RcTimes, e # d, NEW x \in ToSet(b), x \in ToSet(files[e].samples)
               PROVE  FALSE
    OBVIOUS
  <2>1. ToSet(a) \cap ToSet(files[e].samples) = {} /\ Precede(ToSet(files[e].samples), ToSet(mem))
    BY DEF Core, a
  <2>2. x \in ToSet(mem)
    BY <1>5, <2>1
  <2>3. Before(x, x) /\ x \in RcSamples
    BY <2>1, <2>2, InSamples DEF Precede
  <2> QED BY <2>3, NotBeforeItself
<1>10. \A e, f \in RcTimes : e # f => ToSet(files2[e].samples) \cap ToSet(files2[f].samples) = {}
  <2> SUFFICES ASSUME NEW e \in RcTimes, NEW f \in RcTimes, e # f
               PROVE  ToSet(files2[e].samples) \cap ToSet(files2[f].samples) = {}
    OBVIOUS
  <2>1. ToSet(files[e].samples) \cap ToSet(files[f].samples) = {}
    BY DEF Core
  <2>2. CASE e = d
    BY <1>4, <1>9, <2>2 DEF b
  <2>3. CASE f = d
    BY <1>4, <1>9, <2>3 DEF b
  <2>4. CASE e # d /\ f # d
    BY <1>4, <2>1, <2>4
  <2> QED BY <2>2, <2>3, <2>4
<1>11. Core(files2, <<>>, gone)
  BY <1>6, <1>7, <1>8, <1>10 DEF Core, Precede
<1> QED BY <1>4, <1>5, <1>11 DEF a, b

\* A sample that follows them all is added to what is in memory, or dropped.
LEMMA CoreGrows ==
    ASSUME NEW files \in [RcTimes -> RcFileSet], NEW mem \in Seq(RcSamples), NEW gone, NEW x \in RcSamples,
           Core(files, mem, gone), Precede(Disk(files) \cup ToSet(mem), {x})
    PROVE  /\ Precede(gone, {x}) => Core(files, Append(mem, x), gone)
           /\ Core(files, mem, gone \cup {x})
<1>1. ToSet(Append(mem, x)) = ToSet(mem) \cup {x}
  BY SampleJoined
<1>2. ~Before(x, x)
  BY NotBeforeItself
<1>3. \A d \in RcTimes : Precede(ToSet(files[d].samples), {x})
  BY DEF Precede, Disk
<1>4. Precede(ToSet(mem), {x})
  BY DEF Precede
<1>5. Rises(Append(mem, x))
  BY <1>4, RisesOne DEF Core
<1>6. \A d \in RcTimes : x \notin ToSet(files[d].samples)
  BY <1>2, <1>3 DEF Precede
<1>7. x \notin ToSet(mem)
  BY <1>2, <1>4 DEF Precede
<1>8. Precede(gone, {x}) => x \notin gone
  BY <1>2 DEF Precede
<1>9. Core(files, mem, gone \cup {x})
  BY <1>6, <1>7 DEF Core
<1>10. ASSUME Precede(gone, {x}) PROVE Core(files, Append(mem, x), gone)
  <2>1. \A d \in RcTimes : Precede(ToSet(files[d].samples), ToSet(Append(mem, x)))
    BY <1>1, <1>3 DEF Core, Precede
  <2>2. gone \cap ToSet(Append(mem, x)) = {}
    BY <1>1, <1>8, <1>10 DEF Core
  <2> QED BY <1>5, <2>1, <2>2 DEF Core
<1> QED BY <1>9, <1>10

\* The samples in memory that wait to be written, and all that are kept or
\* were dropped but for the pending ones.
MemOf(st, fmp4) ==
    IF fmp4 THEN (IF st.seg = <<>> THEN <<>> ELSE st.seg[1].part) ELSE st.buf
KeptOrGone(st, fmp4) == (Disk(st.files) \cup ToSet(MemOf(st, fmp4))) \cup st.gone

\* In fMP4 no sample is older than the segment it is in.
Floored(st) ==
    /\ \A d \in RcTimes : \A x \in ToSet(st.files[d].samples) : x.dts >= d
    /\ st.seg # <<>> => \A x \in ToSet(st.seg[1].part) : x.dts >= st.seg[1].start

\* As long as no write failed: everything is in order, and in one place.
Sound(st, fmp4) == Core(st.files, MemOf(st, fmp4), st.gone) /\ (fmp4 => Floored(st))
Tidy(st, r, fmp4, more) == Sound(r, fmp4) /\ KeptOrGone(r, fmp4) \subseteq KeptOrGone(st, fmp4) \cup more

LEMMA MemSamples ==
    ASSUME NEW st \in RcStates, NEW fmp4 PROVE MemOf(st, fmp4) \in Seq(RcSamples)
<1>1. <<>> \in Seq(RcSamples)
  OBVIOUS
<1> QED BY <1>1, StateFields DEF MemOf

\* Nothing moves.
LEMMA SoundSame ==
    ASSUME NEW st, NEW r, NEW fmp4, Sound(st, fmp4), r.files = st.files, r.gone = st.gone,
           MemOf(r, fmp4) = MemOf(st, fmp4),
           r.seg # <<>> => \/ r.seg[1].part = <<>>
                           \/ /\ st.seg # <<>> /\ r.seg[1].start = st.seg[1].start
                              /\ r.seg[1].part = st.seg[1].part
    PROVE  Sound(r, fmp4) /\ KeptOrGone(r, fmp4) = KeptOrGone(st, fmp4)
<1>1. KeptOrGone(r, fmp4) = KeptOrGone(st, fmp4)
  BY DEF KeptOrGone
<1>2. fmp4 => Floored(r)
  BY NoSamples DEF Sound, Floored
<1> QED BY <1>1, <1>2 DEF Sound

\* What is in memory lands in the file of the segment.
LEMMA SoundLands ==
    ASSUME NEW st \in RcStates, NEW r \in RcStates, NEW fmp4, Sound(st, fmp4), st.seg # <<>>,
           r.gone = st.gone, MemOf(r, fmp4) = <<>>,
           Lands(st.files, r.files, st.seg[1].start, MemOf(st, fmp4))
    PROVE  Tidy(st, r, fmp4, {})
<1> DEFINE d == st.seg[1].start
           mem == MemOf(st, fmp4)
           fs == st.files
           fs2 == r.files
           gone == st.gone
<1>1. /\ d \in RcTimes /\ fs \in [RcTimes -> RcFileSet] /\ fs2 \in [RcTimes -> RcFileSet]
      /\ mem \in Seq(RcSamples)
  BY StateFields, MemSamples
<1>2. Core(fs, mem, gone) /\ Lands(fs, fs2, d, mem)
  BY DEF Sound
<1>3. fmp4 => /\ \A e \in RcTimes : \A x \in ToSet(fs[e].samples) : x.dts >= e
              /\ \A x \in ToSet(mem) : x.dts >= d
  BY DEF Sound, Floored, MemOf
<1>4. fmp4 /\ r.seg # <<>> => r.seg[1].part = <<>>
  BY DEF MemOf
<1> HIDE DEF d, mem, fs, fs2, gone
<1>5. /\ Core(fs2, <<>>, gone) /\ ToSet(fs2[d].samples) \subseteq ToSet(fs[d].samples) \cup ToSet(mem)
      /\ \A e \in RcTimes : e # d => fs2[e].samples = fs[e].samples
  BY <1>1, <1>2, CoreLands
<1>6. Disk(fs2) \subseteq Disk(fs) \cup ToSet(mem)
  <2> SUFFICES ASSUME NEW e \in RcTimes, NEW x \in ToSet(fs2[e].samples)
               PROVE  x \in Disk(fs) \cup ToSet(mem)
    BY DEF Disk
  <2>1. CASE e = d
    BY <1>1, <1>5, <2>1 DEF Disk
  <2>2. CASE e # d
    BY <1>5, <2>2 DEF Disk
  <2> QED BY <2>1, <2>2
<1>7. fmp4 => \A e \in RcTimes : \A x \in ToSet(fs2[e].samples) : x.dts >= e
  <2> SUFFICES ASSUME fmp4, NEW e \in RcTimes, NEW x \in ToSet(fs2[e].samples) PROVE x.dts >= e
    OBVIOUS
  <2>1. CASE e = d
    BY <1>1, <1>3, <1>5, <2>1
  <2>2. CASE e # d
    BY <1>3, <1>5, <2>2
  <2> QED BY <2>1, <2>2
<1>8. fmp4 => Floored(r)
  BY <1>4, <1>7, NoSamples DEF Floored, fs2
<1>9. Sound(r, fmp4)
  BY <1>5, <1>8 DEF Sound, gone, fs2
<1>10. KeptOrGone(r, fmp4) \subseteq KeptOrGone(st, fmp4)
  BY <1>6, NoSamples DEF KeptOrGone, mem, fs, fs2
<1> QED BY <1>9, <1>10 DEF Tidy

\* A sample is added to what is in memory.
LEMMA SoundGrows ==
    ASSUME NEW st \in RcStates, NEW r, NEW fmp4, NEW x \in RcSamples, Sound(st, fmp4), st.seg # <<>>,
           Precede(KeptOrGone(st, fmp4), {x}), fmp4 => x.dts >= st.seg[1].start,
           r.files = st.files, r.gone = st.gone, r.seg # <<>>, r.seg[1].start = st.seg[1].start,
           MemOf(r, fmp4) = Append(MemOf(st, fmp4), x)
    PROVE  Tidy(st, r, fmp4, {x})
<1> DEFINE mem == MemOf(st, fmp4)
<1>1. mem \in Seq(RcSamples) /\ st.files \in [RcTimes -> RcFileSet]
  BY MemSamples, StateFields
<1>2. Core(st.files, mem, st.gone)
  BY DEF Sound
<1>3. Precede(Disk(st.files) \cup ToSet(mem), {x}) /\ Precede(st.gone, {x})
  BY DEF KeptOrGone, Precede
<1>6. fmp4 => /\ \A e \in RcTimes : \A y \in ToSet(st.files[e].samples) : y.dts >= e
              /\ \A y \in ToSet(mem) : y.dts >= st.seg[1].start
  BY DEF Sound, Floored, MemOf
<1>7. fmp4 => r.seg[1].part = Append(mem, x)
  BY DEF MemOf
<1>8. MemOf(r, fmp4) = Append(mem, x)
  OBVIOUS
<1> HIDE DEF mem
<1>4. Core(st.files, Append(mem, x), st.gone)
  BY <1>1, <1>2, <1>3, CoreGrows
<1>5. ToSet(Append(mem, x)) = ToSet(mem) \cup {x}
  BY <1>1, SampleJoined
<1>9. fmp4 => Floored(r)
  BY <1>5, <1>6, <1>7 DEF Floored
<1>10. KeptOrGone(r, fmp4) \subseteq KeptOrGone(st, fmp4) \cup {x}
  BY <1>5, <1>8 DEF KeptOrGone, mem
<1> QED BY <1>4, <1>8, <1>9, <1>10 DEF Tidy, Sound

\* A sample is dropped.
LEMMA SoundDrops ==
    ASSUME NEW st \in RcStates, NEW r, NEW fmp4, NEW x \in RcSamples, Sound(st, fmp4),
           Precede(KeptOrGone(st, fmp4), {x}), r.files = st.files, r.gone = st.gone \cup {x}, r.seg = st.seg,
           r.buf = st.buf
    PROVE  Tidy(st, r, fmp4, {x})
<1> DEFINE mem == MemOf(st, fmp4)
<1>1. mem \in Seq(RcSamples) /\ st.files \in [RcTimes -> RcFileSet]
  BY MemSamples, StateFields
<1>2. Core(st.files, mem, st.gone) /\ MemOf(r, fmp4) = mem
  BY DEF Sound, MemOf
<1>3. Precede(Disk(st.files) \cup ToSet(mem), {x})
  BY DEF KeptOrGone, Precede
<1>6. fmp4 => Floored(r)
  BY DEF Sound, Floored
<1>7. KeptOrGone(r, fmp4) \subseteq KeptOrGone(st, fmp4) \cup {x}
  BY <1>2 DEF KeptOrGone
<1> HIDE DEF mem
<1>4. Core(st.files, mem, st.gone \cup {x})
  BY <1>1, <1>2, <1>3, CoreGrows
<1> QED BY <1>2, <1>4, <1>6, <1>7 DEF Tidy, Sound

\* A segment begins.
Grew(st, r, d) == \A e \in RcTimes : Ends(r, e) <= Ends(st, e) + (IF e = d THEN 1 ELSE 0)

LEMMA BeginEnds ==
    ASSUME NEW st \in RcStates, NEW d \in RcTimes
    PROVE  LET r == Begin(st, d)
           IN  /\ r \in RcStates /\ SameTracks(st, r) /\ r.files = st.files /\ r.buf = st.buf /\ r.err = st.err
               /\ r.seg # <<>> /\ r.seg[1].start = d /\ r.seg[1].fi = "nil" /\ r.seg[1].part = <<>>
               /\ Grew(st, r, d)
<1> DEFINE seg == NewSegment(d)
           r == Begin(st, d)
<1>1. /\ seg \in Seq(RcSegments) /\ seg # <<>> /\ seg[1].start = d /\ seg[1].fi = "nil"
      /\ seg[1].part = <<>>
  BY NewSegmentGood
<1>2. r = [st EXCEPT !.seg = seg]
  BY DEF Begin
<1> HIDE DEF seg, r
<1>3. /\ r \in RcStates /\ SameTracks(st, r) /\ r.files = st.files /\ r.buf = st.buf /\ r.err = st.err
      /\ r.seg = seg
  BY <1>1, <1>2, WithSeg
<1>4. Grew(st, r, d)
  <2> SUFFICES ASSUME NEW e \in RcTimes PROVE Ends(r, e) <= Ends(st, e) + (IF e = d THEN 1 ELSE 0)
    BY DEF Grew
  <2> DEFINE n == st.files[e].complete
  <2>1. n \in Nat /\ Ends(st, e) \in Nat /\ n <= Ends(st, e) /\ r.files[e].complete = n
    BY <1>3, EndsNat
  <2> HIDE DEF n
  <2>2. CASE e = d
    <3>1. Ends(r, e) <= n + 1
      BY <2>1 DEF Ends
    <3>2. Ends(r, e) \in Nat
      BY <2>1 DEF Ends
    <3> QED BY <2>1, <2>2, <3>1, <3>2
  <2>3. CASE e # d
    <3>1. ~Live(r.seg, e)
      BY <1>1, <1>3, <2>3 DEF Live
    <3>2. Ends(r, e) = n + 0
      BY <2>1, <3>1 DEF Ends
    <3> QED BY <2>1, <2>3, <3>2
  <2> QED BY <2>2, <2>3
<1> QED BY <1>1, <1>3, <1>4 DEF r

LEMMA PutSegEnds ==
    ASSUME NEW st \in RcStates, NEW s \in RcSegments, st.seg # <<>>, s.start = st.seg[1].start,
           s.fi = st.seg[1].fi
    PROVE  LET r == PutSeg(st, s)
           IN  /\ r \in RcStates /\ SameTracks(st, r) /\ r.files = st.files /\ r.buf = st.buf
               /\ r.err = st.err /\ r.seg # <<>> /\ r.seg[1] = s /\ Shrinks(st, r)
<1> DEFINE seg == [st.seg EXCEPT ![1] = s]
           r == PutSeg(st, s)
<1>1. seg \in Seq(RcSegments) /\ seg # <<>> /\ seg[1] = s
  BY StateFields, SegUpdated
<1>2. r = [st EXCEPT !.seg = seg]
  BY DEF PutSeg
<1> HIDE DEF seg, r
<1>3. /\ r \in RcStates /\ SameTracks(st, r) /\ r.files = st.files /\ r.buf = st.buf
      /\ r.err = st.err /\ r.seg = seg
  BY <1>1, <1>2, WithSeg
<1>4. \A d \in RcTimes : Live(r.seg, d) => Live(st.seg, d)
  BY <1>1, <1>3 DEF Live
<1>5. Shrinks(st, r)
  BY <1>3, <1>4, ShrinksIf
<1> QED BY <1>1, <1>3, <1>5 DEF r

LEMMA PartEmptied ==
    ASSUME NEW s \in RcSegments
    PROVE  LET e == [s EXCEPT !.part = <<>>]
           IN  e \in RcSegments /\ e.start = s.start /\ e.fi = s.fi /\ e.part = <<>>
<1>1. \A x \in Seq(RcSamples) : LET e == [s EXCEPT !.part = x]
        IN  e \in RcSegments /\ e.start = s.start /\ e.fi = s.fi /\ e.part = x
  BY SegFields
<1>2. <<>> \in Seq(RcSamples)
  OBVIOUS
<1> QED BY Zenon, <1>1, <1>2

LEMMA TidyTwice ==
    ASSUME NEW a, NEW b, NEW c, NEW fmp4, NEW x, NEW y, Tidy(a, b, fmp4, x), Tidy(b, c, fmp4, y)
    PROVE  Tidy(a, c, fmp4, x \cup y)
BY DEF Tidy

LEMMA ReadyState ==
    ASSUME NEW st, NEW fmp4, NEW clean, Ready(st, fmp4, clean)
    PROVE  st \in RcStates /\ StateGood(st, fmp4, clean) /\ ~st.err
BY DEF Ready, StateGood

\* formatFMP4Segment.write: the part lands in the file when it is long enough,
\* and the sample is added to the part.
LEMMA SegmentWriteLands ==
    ASSUME NEW st, NEW fmp4, NEW clean \in BOOLEAN, NEW sample \in RcSamples, Ready(st, fmp4, clean),
           st.seg # <<>>, fmp4
    PROVE  LET r == Fmp4SegmentWrite(st, sample)
           IN  /\ Shrinks(st, r)
               /\ (/\ ~r.err /\ Sound(st, fmp4) /\ Precede(KeptOrGone(st, fmp4), {sample})
                   /\ sample.dts >= st.seg[1].start) => Tidy(st, r, fmp4, {sample})
<1> DEFINE full == st.seg[1].part # <<>> /\ st.seg[1].partEnd - st.seg[1].partStart >= PartDuration
           pc == PartClose(st)
           emptied == [pc.seg[1] EXCEPT !.part = <<>>]
           closed == IF full THEN PutSeg(pc, emptied) ELSE st
           r == Fmp4SegmentWrite(st, sample)
<1>1. r = IF closed.err THEN closed ELSE PutSeg(closed, PartWrite(closed.seg[1], sample))
  <2>1. [pc EXCEPT !.seg[1].part = <<>>] = PutSeg(pc, emptied)
    <3> HIDE DEF pc
    <3> QED BY Zenon DEF PutSeg
  <2> DEFINE c == IF full THEN [pc EXCEPT !.seg[1].part = <<>>] ELSE st
             after(x) == [x EXCEPT !.seg[1] = PartWrite(@, sample)]
  <2>2. r = IF c.err THEN c ELSE after(c)
    BY Zenon DEF Fmp4SegmentWrite
  <2>3. after(closed) = PutSeg(closed, PartWrite(closed.seg[1], sample))
    <3> HIDE DEF closed
    <3> QED BY Zenon DEF PutSeg
  <2>4. c = closed
    BY Zenon, <2>1
  <2> HIDE DEF c, closed, after, r
  <2> QED BY Zenon, <2>2, <2>3, <2>4
<1>2. st \in RcStates /\ StateGood(st, fmp4, clean) /\ ~st.err
  BY ReadyState
<1>3. /\ closed \in RcStates /\ closed.seg # <<>> /\ closed.seg[1].start = st.seg[1].start
      /\ Shrinks(st, closed)
      /\ ~closed.err /\ Sound(st, fmp4) => Tidy(st, closed, fmp4, {})
  <2>1. CASE full
    <3>1. /\ StateGood(pc, fmp4, clean) /\ SameTracks(st, pc)
          /\ pc.seg # <<>> /\ pc.seg[1].start = st.seg[1].start
      BY <1>2, PartCloseGood
    <3>2. Shrinks(st, pc) /\ (~pc.err => Lands(st.files, pc.files, st.seg[1].start, st.seg[1].part))
      BY <1>2, PartCloseLands
    <3>3. closed = PutSeg(pc, emptied)
      BY <2>1
    <3> HIDE DEF pc, closed
    <3>4. pc \in RcStates /\ pc.seg[1] \in RcSegments
      BY <3>1, StateFields DEF StateGood
    <3>5. emptied \in RcSegments /\ emptied.start = pc.seg[1].start /\ emptied.fi = pc.seg[1].fi /\ emptied.part = <<>>
      BY <3>4, PartEmptied
    <3> HIDE DEF emptied
    <3>6. /\ closed \in RcStates /\ SameTracks(pc, closed) /\ closed.files = pc.files /\ closed.err = pc.err
          /\ closed.seg # <<>> /\ closed.seg[1] = emptied /\ Shrinks(pc, closed)
      BY <3>1, <3>3, <3>4, <3>5, PutSegEnds
    <3>7. Shrinks(st, closed)
      BY <1>2, <3>2, <3>4, <3>6, ShrinksTwice
    <3>8. ~closed.err /\ Sound(st, fmp4) => Tidy(st, closed, fmp4, {})
      <4>1. closed.gone = st.gone /\ MemOf(closed, fmp4) = <<>> /\ MemOf(st, fmp4) = st.seg[1].part
        BY <3>1, <3>5, <3>6 DEF SameTracks, MemOf
      <4>2. ~closed.err => Lands(st.files, closed.files, st.seg[1].start, MemOf(st, fmp4))
        BY <3>2, <3>6, <4>1
      <4> QED BY <1>2, <3>6, <4>1, <4>2, SoundLands
    <3> QED BY <3>1, <3>5, <3>6, <3>7, <3>8
  <2>2. CASE ~full
    <3>1. closed = st
      BY <2>2
    <3>2. Shrinks(st, st)
      BY <1>2, ShrinksIf
    <3> HIDE DEF closed
    <3> QED BY <1>2, <3>1, <3>2 DEF Tidy
  <2> QED BY <2>1, <2>2
<1> HIDE DEF closed
<1>4. CASE closed.err
  <2>1. r = closed
    BY <1>1, <1>4
  <2> HIDE DEF r
  <2> QED BY <1>3, <1>4, <2>1 DEF r
<1>5. CASE ~closed.err
  <2> DEFINE s == PartWrite(closed.seg[1], sample)
  <2>1. r = PutSeg(closed, s)
    BY <1>1, <1>5
  <2>2. closed.seg[1] \in RcSegments
    BY <1>3, StateFields
  <2>3. /\ s \in RcSegments /\ s.start = closed.seg[1].start /\ s.fi = closed.seg[1].fi
        /\ s.part = Append(closed.seg[1].part, sample)
    BY <2>2, PartWriteGood
  <2> HIDE DEF s, r
  <2>4. /\ r \in RcStates /\ SameTracks(closed, r) /\ r.files = closed.files /\ r.err = closed.err
        /\ r.seg # <<>> /\ r.seg[1] = s /\ Shrinks(closed, r)
    BY <1>3, <2>1, <2>3, PutSegEnds
  <2>5. Shrinks(st, r)
    BY <1>2, <1>3, <2>4, ShrinksTwice
  <2>6. ASSUME Sound(st, fmp4), Precede(KeptOrGone(st, fmp4), {sample}), sample.dts >= st.seg[1].start
        PROVE  Tidy(st, r, fmp4, {sample})
    <3>1. Tidy(st, closed, fmp4, {})
      BY <1>3, <1>5, <2>6
    <3>2. Sound(closed, fmp4) /\ Precede(KeptOrGone(closed, fmp4), {sample})
      BY <2>6, <3>1 DEF Tidy, Precede
    <3>3. MemOf(r, fmp4) = Append(MemOf(closed, fmp4), sample)
      BY <1>3, <2>3, <2>4 DEF MemOf
    <3>4. r.gone = closed.gone /\ r.seg[1].start = closed.seg[1].start /\ sample.dts >= closed.seg[1].start
      BY <1>3, <2>3, <2>4, <2>6 DEF SameTracks
    <3>5. Tidy(closed, r, fmp4, {sample})
      BY <1>3, <2>4, <3>2, <3>3, <3>4, SoundGrows
    <3>6. Tidy(st, r, fmp4, {} \cup {sample})
      BY <3>1, <3>5, TidyTwice
    <3> QED BY <3>6 DEF Tidy
  <2> QED BY <2>5, <2>6 DEF r
<1> QED BY <1>4, <1>5

\* The end of formatFMP4Track.write: the segment ends and another begins.
LEMMA SwitchSegmentLands ==
    ASSUME NEW st, NEW fmp4, NEW clean \in BOOLEAN, NEW new \in RcSamples, Ready(st, fmp4, clean),
           st.seg # <<>>, fmp4
    PROVE  LET r == SwitchSegment(st, new)
           IN  /\ r.err => Shrinks(st, r)
               /\ Grew(st, r, new.dts)
               /\ ~r.err => r.seg # <<>> /\ r.seg[1].start = new.dts /\ r.seg[1].fi = "nil"
               /\ ~r.err /\ Sound(st, fmp4) => Tidy(st, r, fmp4, {})
<1> DEFINE s == [st.seg[1] EXCEPT !.last = new.dts]
           moved == PutSeg(st, s)
           closed == Fmp4SegmentClose(moved)
           r == SwitchSegment(st, new)
<1>1. /\ st \in RcStates /\ StateGood(st, fmp4, clean) /\ ~st.err
      /\ st.seg[1] \in RcSegments /\ new.dts \in RcTimes
  BY ReadyState, StateFields DEF RcSamples
<1>2. s \in RcSegments /\ s.start = st.seg[1].start /\ s.fi = st.seg[1].fi /\ s.part = st.seg[1].part
  BY <1>1, SegFields
<1>3. moved = [st EXCEPT !.seg[1].last = new.dts]
  BY Zenon DEF PutSeg
<1>4. r = IF closed.err THEN closed ELSE [closed EXCEPT !.seg = NewSegment(new.dts)]
  <2> HIDE DEF moved
  <2> QED BY Zenon, <1>3 DEF SwitchSegment
<1> HIDE DEF s
<1>5. /\ StateGood(moved, fmp4, clean) /\ SameTracks(st, moved) /\ moved.files = st.files /\ ~moved.err
      /\ moved.seg # <<>> /\ moved.seg[1] = s /\ Shrinks(st, moved) /\ moved \in RcStates
  <2>1. /\ (fmp4 /\ s.fi = "nil") => Fits(s.part, st.ver)
        /\ (fmp4 /\ s.fi = "open") => Fits(s.part, st.files[s.start].header)
    BY <1>1, <1>2 DEF StateGood, PartGood
  <2>2. moved = PutSeg(st, s)
    OBVIOUS
  <2> HIDE DEF moved
  <2>3. StateGood(moved, fmp4, clean)
    BY ONLY <1>1, <1>2, <2>1, <2>2, st.seg # <<>>, PutSegGood
  <2>4. /\ moved \in RcStates /\ SameTracks(st, moved) /\ moved.files = st.files /\ moved.err = st.err
        /\ moved.seg # <<>> /\ moved.seg[1] = s /\ Shrinks(st, moved)
    BY <1>1, <1>2, <2>2, PutSegEnds
  <2> QED BY <1>1, <2>3, <2>4
<1> HIDE DEF moved
<1>6. StateGood(closed, fmp4, clean) /\ SameTracks(moved, closed)
  BY <1>5, SegmentCloseGood
<1>7. /\ Shrinks(moved, closed)
      /\ ~closed.err => Lands(moved.files, closed.files, moved.seg[1].start, moved.seg[1].part)
  BY <1>5, SegmentCloseLands
<1> HIDE DEF closed
<1>8. closed \in RcStates
  BY <1>6 DEF StateGood
<1>9. Shrinks(st, closed)
  BY <1>1, <1>5, <1>7, <1>8, ShrinksTwice
<1>10. CASE closed.err
  <2>1. r = closed
    BY <1>4, <1>10
  <2> HIDE DEF r
  <2>2. Grew(st, r, new.dts)
    <3> SUFFICES ASSUME NEW e \in RcTimes
                 PROVE  Ends(r, e) <= Ends(st, e) + (IF e = new.dts THEN 1 ELSE 0)
      BY DEF Grew
    <3>1. Ends(r, e) \in Nat /\ Ends(st, e) \in Nat /\ Ends(r, e) <= Ends(st, e)
      BY <1>1, <1>8, <1>9, <2>1, EndsNat DEF Shrinks
    <3> QED BY <3>1
  <2> QED BY <1>9, <1>10, <2>1, <2>2 DEF r
<1>11. CASE ~closed.err
  <2> DEFINE d == new.dts
  <2>1. r = Begin(closed, d) /\ d \in RcTimes
    BY <1>1, <1>4, <1>11 DEF Begin
  <2> HIDE DEF r, d
  <2>2. /\ r \in RcStates /\ SameTracks(closed, r) /\ r.files = closed.files /\ r.err = closed.err
        /\ r.seg # <<>> /\ r.seg[1].start = d /\ r.seg[1].fi = "nil" /\ r.seg[1].part = <<>>
        /\ Grew(closed, r, d)
    BY <1>8, <2>1, BeginEnds
  <2>3. Grew(st, r, d)
    <3> SUFFICES ASSUME NEW e \in RcTimes
                 PROVE  Ends(r, e) <= Ends(st, e) + (IF e = d THEN 1 ELSE 0)
      BY DEF Grew
    <3>1. /\ Ends(r, e) \in Nat /\ Ends(st, e) \in Nat /\ Ends(closed, e) \in Nat
          /\ Ends(closed, e) <= Ends(st, e)
          /\ Ends(r, e) <= Ends(closed, e) + (IF e = d THEN 1 ELSE 0)
      BY <1>1, <1>8, <1>9, <2>2, EndsNat DEF Shrinks, Grew
    <3> QED BY <3>1
  <2>4. ASSUME Sound(st, fmp4) PROVE Tidy(st, r, fmp4, {})
    <3>1. /\ MemOf(r, fmp4) = <<>> /\ MemOf(st, fmp4) = st.seg[1].part /\ r.gone = st.gone
      BY <1>5, <1>6, <2>2 DEF MemOf, SameTracks
    <3>2. Lands(st.files, r.files, st.seg[1].start, MemOf(st, fmp4))
      BY <1>2, <1>5, <1>7, <1>11, <2>2, <3>1
    <3> QED BY <1>1, <2>2, <2>4, <3>1, <3>2, SoundLands
  <2> QED BY <1>11, <2>2, <2>3, <2>4 DEF r, d
<1> QED BY <1>10, <1>11

\* updateCodecs: nothing happens, or the segment ends and there is none.
Unmoved(st, r) == r.seg = st.seg /\ r.files = st.files

RenewalEnds(st, r, t, v, fmp4, clean) ==
    /\ Shrinks(st, r) /\ r.ver = [st.ver EXCEPT ![t] = v]
    /\ Unmoved(st, r) \/ r.seg = <<>>
    /\ st.seg = <<>> \/ st.seg[1].fi = "nil" => Unmoved(st, r)
    /\ clean /\ Sound(st, fmp4) => Tidy(st, r, fmp4, {})

LEMMA RenewalLands ==
    ASSUME NEW st, NEW fmp4, NEW clean \in BOOLEAN, NEW t \in RcTracks, NEW v,
           Ready(st, fmp4, clean), LaterVer(st.ver, t, v), fmp4
    PROVE  RenewalEnds(st, UpdateCodecs(PutVer(st, t, v)), t, v, fmp4, clean)
<1> DEFINE c == PutVer(st, t, v)
           r == UpdateCodecs(c)
<1>1. /\ StateGood(c, fmp4, clean) /\ ~c.err /\ c.seg = st.seg /\ c.files = st.files
      /\ c.next = st.next /\ c.buf = st.buf /\ c.hasVideo = st.hasVideo
      /\ c.taken = st.taken /\ c.gone = st.gone /\ c.ver = [st.ver EXCEPT ![t] = v]
      /\ fmp4 => NextFits(c.next, c.ver)
  BY ONLY Ready(st, fmp4, clean), LaterVer(st.ver, t, v), t \in RcTracks, PutVerGood
<1>4. AfterRenewal(st, r, fmp4, clean)
  BY UpdateCodecsGood
<1> HIDE DEF c
<1>5. r \in RcStates /\ st \in RcStates /\ c \in RcStates /\ r.gone = st.gone
  BY <1>1, <1>4, ReadyState DEF AfterRenewal, StateGood
<1>2. CASE c.seg # <<>> /\ c.seg[1].fi # "nil"
  <2> DEFINE f == Fmp4SegmentClose(c)
  <2>1. StateGood(f, fmp4, clean) /\ SameTracks(c, f) /\ (f.err => ~clean \/ c.seg[1].fi = "closed")
    BY <1>1, <1>2, SegmentCloseGood
  <2>2. Shrinks(c, f) /\ (~f.err => Lands(c.files, f.files, c.seg[1].start, c.seg[1].part))
    BY <1>1, <1>2, SegmentCloseLands
  <2>3. r = [f EXCEPT !.seg = <<>>, !.err = FALSE]
    BY <1>2 DEF UpdateCodecs, NoSeg
  <2> HIDE DEF f, r
  <2>4. f \in RcStates
    BY <2>1 DEF StateGood
  <2>5. r.seg = <<>> /\ r.files = f.files /\ r.ver = f.ver
    BY <2>3, <2>4 DEF RcStates
  <2>6. Shrinks(f, r)
    <3>1. \A d \in RcTimes : Live(r.seg, d) => Live(f.seg, d)
      BY <2>5 DEF Live
    <3> QED BY <1>5, <2>4, <2>5, <3>1, ShrinksIf
  <2>7. Shrinks(c, r)
    BY <1>5, <2>2, <2>4, <2>6, ShrinksTwice
  <2>8. Shrinks(st, r)
    BY <1>1, <2>7 DEF Shrinks, Ends
  <2>9. ASSUME clean, Sound(st, fmp4) PROVE Tidy(st, r, fmp4, {})
    <3>4. st.seg # <<>> /\ st.seg[1].fi # "closed"
      BY <1>1, <1>2 DEF Ready
    <3>1. ~f.err
      BY <1>1, <2>1, <2>9, <3>4
    <3>2. MemOf(r, fmp4) = <<>> /\ MemOf(st, fmp4) = st.seg[1].part /\ st.seg # <<>>
      BY <1>1, <1>2, <2>5 DEF MemOf
    <3>3. Lands(st.files, r.files, st.seg[1].start, MemOf(st, fmp4))
      BY <1>1, <2>2, <2>5, <3>1, <3>2
    <3> QED BY <1>5, <2>9, <3>2, <3>3, SoundLands
  <2>10. r.ver = [st.ver EXCEPT ![t] = v]
    BY <1>1, <2>1, <2>5 DEF SameTracks
  <2> QED BY <1>1, <1>2, <2>5, <2>8, <2>9, <2>10 DEF r, c, RenewalEnds
<1>3. CASE ~(c.seg # <<>> /\ c.seg[1].fi # "nil")
  <2>1. r = c
    BY <1>3 DEF UpdateCodecs, NoSeg
  <2> HIDE DEF r
  <2>2. Shrinks(st, r)
    BY <1>1, <1>5, <2>1, ShrinksIf
  <2>3. Sound(st, fmp4) => Tidy(st, r, fmp4, {})
    <3>1. MemOf(r, fmp4) = MemOf(st, fmp4)
      BY <1>1, <2>1 DEF MemOf
    <3>2. r.files = st.files /\ r.gone = st.gone /\ r.seg = st.seg
      BY <1>1, <2>1
    <3> SUFFICES ASSUME Sound(st, fmp4) PROVE Tidy(st, r, fmp4, {})
      OBVIOUS
    <3>4. r.seg # <<>> => \/ r.seg[1].part = <<>>
                         \/ /\ st.seg # <<>> /\ r.seg[1].start = st.seg[1].start
                            /\ r.seg[1].part = st.seg[1].part
      BY <3>2
    <3>3. Sound(r, fmp4) /\ KeptOrGone(r, fmp4) = KeptOrGone(st, fmp4)
      BY ONLY <3>1, <3>2, <3>4, Sound(st, fmp4), SoundSame
    <3> QED BY <3>3 DEF Tidy
  <2> QED BY <1>1, <2>1, <2>2, <2>3 DEF r, c, Unmoved, RenewalEnds
<1> QED BY <1>2, <1>3

One(b) == IF b THEN 1 ELSE 0

\* The pending sample of the track begins a segment.
Begins(st, new, d) ==
    st.seg = <<>> /\ st.next[new.track] # <<>> /\ d = st.next[new.track][1].dts

\* What track.write does to the ends of files: one segment may begin with the
\* pending sample, if there is none, and one with the new sample.
TrackEnds(st, r, new) ==
    /\ \A d \in RcTimes : Ends(r, d) <= Ends(st, d) + One(d = new.dts) + One(Begins(st, new, d))
    /\ ~r.err => \/ Ends(r, new.dts) <= Ends(st, new.dts)
                 \/ r.seg # <<>> /\ r.seg[1].start = new.dts /\ r.seg[1].fi = "nil"
    /\ ~r.err /\ st.next[new.track] # <<>> => r.seg # <<>>
    /\ st.next[new.track] = <<>> => ~r.err /\ Unmoved(st, r)

\* A track has one pending sample.
LEMMA OnePending ==
    ASSUME NEW st, NEW clean, NEW t \in RcTracks, Ready(st, TRUE, clean), st.next[t] # <<>>
    PROVE  /\ st.next[t][1] \in RcSamples /\ st.next[t][1].dts \in RcTimes
           /\ Suits(st.next[t][1], st.ver) /\ ToSet(st.next[t]) = {st.next[t][1]}
<1> DEFINE a == st.next[t]
<1>1. a \in Seq(RcSamples) /\ a # <<>> /\ Fits(a, st.ver) /\ Len(a) <= 1
  BY ReadyState, StateFields DEF Ready, NextFits
<1> HIDE DEF a
<1>2. Len(a) \in Nat /\ Len(a) # 0
  BY <1>1
<1>3. Len(a) = 1 /\ 1 \in 1..Len(a)
  <2> DEFINE n == Len(a)
  <2>1. n \in Nat /\ n # 0 /\ n <= 1
    BY <1>1, <1>2
  <2> HIDE DEF n
  <2>2. n = 1 /\ 1 \in 1..n
    BY ONLY <2>1
  <2> QED BY <2>2 DEF n
<1>4. a[1] \in RcSamples /\ Suits(a[1], st.ver)
  BY <1>1, <1>3 DEF Fits, Suits
<1>5. ToSet(a) = {a[1]}
  BY <1>1, <1>3 DEF ToSet
<1>6. a[1].dts \in RcTimes
  BY <1>4 DEF RcSamples
<1> QED BY <1>4, <1>5, <1>6 DEF a

LEMMA ShrinksTrack ==
    ASSUME NEW st \in RcStates, NEW r \in RcStates, NEW new, Shrinks(st, r)
    PROVE  \A d \in RcTimes : Ends(r, d) <= Ends(st, d) + One(d = new.dts) + One(Begins(st, new, d))
<1> SUFFICES ASSUME NEW d \in RcTimes
             PROVE  Ends(r, d) <= Ends(st, d) + One(d = new.dts) + One(Begins(st, new, d))
  OBVIOUS
<1>1. Ends(r, d) \in Nat /\ Ends(st, d) \in Nat /\ Ends(r, d) <= Ends(st, d)
  BY EndsNat DEF Shrinks
<1>2. One(d = new.dts) \in Nat /\ One(Begins(st, new, d)) \in Nat
  BY DEF One
<1> QED BY <1>1, <1>2

\* formatFMP4Track.write: the pending sample goes to the segment or is dropped,
\* and the new one is pending.
LEMMA TrackWriteLands ==
    ASSUME NEW st0, NEW clean \in BOOLEAN, NEW new \in RcSamples, Ready(st0, TRUE, clean),
           Suits(new, st0.ver),
           st0.next[new.track] # <<>> => st0.next[new.track][1].dts # new.dts
    PROVE  LET r == TrackWrite(st0, new)
           IN  /\ r.taken = st0.taken \cup {new} /\ r.next = Pending(st0.next, new)
               /\ TrackEnds(st0, r, new)
               /\ (~r.err /\ Sound(st0, TRUE) /\ Precede(KeptOrGone(st0, TRUE), ToSet(st0.next[new.track]))) =>
                    Tidy(st0, r, TRUE, ToSet(st0.next[new.track]))
<1> DEFINE t == new.track
           st == Accept(st0, new)
           sample == st0.next[t][1]
           begun == BeginSegment(st, sample)
           wrote == Fmp4SegmentWrite(begun, sample)
           ends == /\ ~wrote.err
                   /\ ~st.hasVideo \/ t = "video"
                   /\ new.key /\ new.dts >= SegmentDuration + wrote.seg[1].start
           r == TrackWrite(st0, new)
<1>1. r = IF st0.next[t] = <<>> THEN st
          ELSE IF sample.dts < begun.seg[1].start THEN [begun EXCEPT !.gone = @ \cup {sample}]
          ELSE IF ends THEN SwitchSegment(wrote, new) ELSE wrote
  BY Zenon DEF TrackWrite
<1>2. /\ Ready(st, TRUE, clean) /\ st.seg = st0.seg /\ st.ver = st0.ver
      /\ st.files = st0.files /\ st.buf = st0.buf /\ st.gone = st0.gone
      /\ st.taken = st0.taken \cup {new} /\ st.next = Pending(st0.next, new)
  <2> DEFINE fmp4 == TRUE
  <2>1. st = Accept(st0, new) /\ (fmp4 => Suits(new, st0.ver)) /\ Ready(st0, fmp4, clean)
    OBVIOUS
  <2> HIDE DEF st, fmp4
  <2>2. /\ Ready(st, fmp4, clean) /\ st.seg = st0.seg /\ st.files = st0.files /\ st.ver = st0.ver
        /\ st.buf = st0.buf /\ st.gone = st0.gone /\ st.taken = st0.taken \cup {new}
        /\ st.next = Pending(st0.next, new)
    BY ONLY <2>1, new \in RcSamples, SampleTaken
  <2> QED BY <2>2 DEF fmp4
<1> HIDE DEF st
<1>5. t \in RcTracks /\ new.dts \in RcTimes
  BY DEF RcSamples
<1>6. st0 \in RcStates /\ st \in RcStates /\ ~st.err
  BY <1>2, ReadyState
<1>7. Shrinks(st0, st)
  BY <1>2, <1>6, ShrinksIf
<1>8. ASSUME Sound(st0, TRUE) PROVE Sound(st, TRUE) /\ KeptOrGone(st, TRUE) = KeptOrGone(st0, TRUE)
  <2> DEFINE fmp4 == TRUE
  <2>1. MemOf(st, fmp4) = MemOf(st0, fmp4)
    BY <1>2 DEF MemOf
  <2>2. st.seg # <<>> => \/ st.seg[1].part = <<>>
                         \/ /\ st0.seg # <<>> /\ st.seg[1].start = st0.seg[1].start
                            /\ st.seg[1].part = st0.seg[1].part
    BY <1>2
  <2>3. Sound(st0, fmp4) /\ st.files = st0.files /\ st.gone = st0.gone
    BY <1>2, <1>8
  <2> HIDE DEF fmp4
  <2>4. Sound(st, fmp4) /\ KeptOrGone(st, fmp4) = KeptOrGone(st0, fmp4)
    BY ONLY <2>1, <2>2, <2>3, SoundSame
  <2> QED BY <2>4 DEF fmp4
<1>3. CASE st0.next[t] = <<>>
  <2>1. r = st
    BY <1>1, <1>3
  <2> HIDE DEF r
  <2>2. TrackEnds(st0, r, new)
    <3>1. \A d \in RcTimes : Ends(r, d) <= Ends(st0, d) + One(d = new.dts) + One(Begins(st0, new, d))
      BY <1>6, <1>7, <2>1, ShrinksTrack
    <3>2. Ends(r, new.dts) <= Ends(st0, new.dts)
      BY <1>5, <1>7, <2>1 DEF Shrinks
    <3> QED BY <1>2, <1>3, <1>6, <2>1, <3>1, <3>2 DEF TrackEnds, Unmoved
  <2>3. Sound(st0, TRUE) => Tidy(st0, r, TRUE, ToSet(st0.next[t]))
    BY <1>8, <2>1 DEF Tidy
  <2> QED BY <1>2, <2>1, <2>2, <2>3 DEF r
<1>4. CASE st0.next[t] # <<>>
  <2>1. /\ sample \in RcSamples /\ sample.dts \in RcTimes /\ Suits(sample, st.ver)
        /\ ToSet(st0.next[t]) = {sample} /\ sample.dts # new.dts
    BY <1>2, <1>4, <1>5, OnePending
  <2>11. \A d \in RcTimes : Begins(st0, new, d) <=> (st0.seg = <<>> /\ d = sample.dts)
    BY <1>4 DEF Begins
  <2> HIDE DEF sample
  <2>2. /\ Ready(begun, TRUE, clean) /\ begun.seg # <<>> /\ SameTracks(st, begun) /\ begun \in RcStates
        /\ \A d \in RcTimes : Ends(begun, d) <= Ends(st0, d) + One(Begins(st0, new, d))
        /\ Sound(st, TRUE) => Sound(begun, TRUE) /\ KeptOrGone(begun, TRUE) = KeptOrGone(st, TRUE)
    <3>1. CASE st.seg = <<>>
      <4> DEFINE d == sample.dts
                 fmp4 == TRUE
      <4>1. d \in RcTimes /\ begun = Begin(st, d)
        BY <2>1, <3>1 DEF NoSeg, BeginSegment, Begin
      <4>2. AtRest(st, fmp4, clean)
        BY <1>2, <3>1 DEF Ready, AtRest
      <4>11. \A e \in RcTimes : Begins(st0, new, e) <=> e = d
        BY <1>2, <2>11, <3>1
      <4> HIDE DEF d, begun, fmp4
      <4>3. Ready(begun, fmp4, clean) /\ begun.seg # <<>>
        BY ONLY <4>1, <4>2, SegmentBegun
      <4>4. /\ begun \in RcStates /\ SameTracks(st, begun) /\ begun.files = st.files /\ begun.buf = st.buf
            /\ begun.seg[1].part = <<>> /\ Grew(st, begun, d)
        BY <1>6, <4>1, BeginEnds
      <4>5. ASSUME NEW e \in RcTimes PROVE Ends(begun, e) <= Ends(st0, e) + One(Begins(st0, new, e))
        <5>1. /\ Ends(st0, e) \in Nat /\ Ends(st, e) \in Nat /\ Ends(begun, e) \in Nat
              /\ Ends(st, e) <= Ends(st0, e)
              /\ Ends(begun, e) <= Ends(st, e) + (IF e = d THEN 1 ELSE 0)
          BY <1>6, <1>7, <4>4, EndsNat DEF Shrinks, Grew
        <5>2. CASE e = d
          BY <4>11, <5>1, <5>2 DEF One
        <5>3. CASE e # d
          BY <4>11, <5>1, <5>3 DEF One
        <5> QED BY <5>2, <5>3
      <4>6. ASSUME Sound(st, fmp4) PROVE Sound(begun, fmp4) /\ KeptOrGone(begun, fmp4) = KeptOrGone(st, fmp4)
        <5>1. MemOf(begun, fmp4) = MemOf(st, fmp4)
          BY <3>1, <4>3, <4>4 DEF MemOf
        <5>2. begun.gone = st.gone
          BY <4>4 DEF SameTracks
        <5> QED BY <4>4, <4>6, <5>1, <5>2, SoundSame
      <4> QED BY <4>3, <4>4, <4>5, <4>6 DEF fmp4
    <3>2. CASE st.seg # <<>>
      <4>1. begun = st
        BY <3>2 DEF NoSeg, BeginSegment
      <4> HIDE DEF begun
      <4>2. ASSUME NEW e \in RcTimes PROVE Ends(begun, e) <= Ends(st0, e) + One(Begins(st0, new, e))
        <5>1. /\ Ends(st0, e) \in Nat /\ Ends(begun, e) \in Nat /\ Ends(begun, e) <= Ends(st0, e)
          BY <1>6, <1>7, <4>1, EndsNat DEF Shrinks
        <5>2. One(Begins(st0, new, e)) \in Nat
          BY DEF One
        <5> QED BY <5>1, <5>2
      <4> QED BY <1>2, <1>6, <3>2, <4>1, <4>2 DEF SameTracks
    <3> QED BY <3>1, <3>2
  <2> HIDE DEF begun
  <2>3. ~Begins(st0, new, new.dts)
    BY <1>5, <2>1, <2>11
  <2>4. begun.taken = st0.taken \cup {new} /\ begun.next = Pending(st0.next, new) /\ begun.gone = st0.gone
    BY <1>2, <2>2 DEF SameTracks
  <2>5. ASSUME NEW x \in RcStates, Shrinks(begun, x)
        PROVE  /\ \A d \in RcTimes : Ends(x, d) <= Ends(st0, d) + One(d = new.dts) + One(Begins(st0, new, d))
               /\ Ends(x, new.dts) <= Ends(st0, new.dts)
    <3>1. ASSUME NEW d \in RcTimes
          PROVE  /\ Ends(x, d) \in Nat /\ Ends(st0, d) \in Nat /\ One(Begins(st0, new, d)) \in Nat
                 /\ Ends(x, d) <= Ends(st0, d) + One(Begins(st0, new, d))
      <4>1. /\ Ends(x, d) \in Nat /\ Ends(st0, d) \in Nat /\ Ends(begun, d) \in Nat
            /\ Ends(x, d) <= Ends(begun, d) /\ Ends(begun, d) <= Ends(st0, d) + One(Begins(st0, new, d))
        BY <1>6, <2>2, <2>5, EndsNat DEF Shrinks
      <4>2. One(Begins(st0, new, d)) \in Nat
        BY DEF One
      <4> QED BY <4>1, <4>2
    <3>2. ASSUME NEW d \in RcTimes
          PROVE  Ends(x, d) <= Ends(st0, d) + One(d = new.dts) + One(Begins(st0, new, d))
      <4>1. One(d = new.dts) \in Nat
        BY DEF One
      <4> QED BY <3>1, <4>1
    <3>3. One(Begins(st0, new, new.dts)) = 0
      BY <2>3 DEF One
    <3>4. Ends(x, new.dts) <= Ends(st0, new.dts)
      BY <1>5, <3>1, <3>3
    <3> QED BY <3>2, <3>4
  <2>6. ASSUME Sound(st0, TRUE), Precede(KeptOrGone(st0, TRUE), ToSet(st0.next[t]))
        PROVE  /\ Sound(begun, TRUE) /\ KeptOrGone(begun, TRUE) = KeptOrGone(st0, TRUE)
               /\ Precede(KeptOrGone(begun, TRUE), {sample})
    BY <1>8, <2>1, <2>2, <2>6
  <2>7. CASE sample.dts < begun.seg[1].start
    <3>1. r = [begun EXCEPT !.gone = @ \cup {sample}]
      BY <1>1, <1>4, <2>7
    <3> HIDE DEF r
    <3>2. /\ Ready(r, TRUE, clean) /\ r.gone = begun.gone \cup {sample}
          /\ r.seg = begun.seg /\ r.files = begun.files
          /\ r.next = begun.next /\ r.buf = begun.buf /\ r.taken = begun.taken
      <4> DEFINE fmp4 == TRUE
      <4>1. sample \in RcSamples /\ Ready(begun, fmp4, clean)
        BY <2>1, <2>2
      <4> HIDE DEF fmp4
      <4>2. /\ Ready(r, fmp4, clean) /\ r.gone = begun.gone \cup {sample}
            /\ r.seg = begun.seg /\ r.files = begun.files /\ r.ver = begun.ver
            /\ r.next = begun.next /\ r.buf = begun.buf /\ r.taken = begun.taken
        BY ONLY <3>1, <4>1, SampleDropped
      <4> QED BY <4>2 DEF fmp4
    <3>3. r \in RcStates /\ ~r.err
      BY <3>2, ReadyState
    <3>4. Shrinks(begun, r)
      BY <2>2, <3>2, <3>3, ShrinksIf
    <3>5. TrackEnds(st0, r, new)
      BY <1>4, <2>2, <2>5, <3>2, <3>3, <3>4 DEF TrackEnds
    <3>6. ASSUME Sound(st0, TRUE), Precede(KeptOrGone(st0, TRUE), ToSet(st0.next[t]))
          PROVE  Tidy(st0, r, TRUE, ToSet(st0.next[t]))
      <4>1. Tidy(begun, r, TRUE, {sample})
        BY <2>1, <2>2, <2>6, <3>2, <3>6, SoundDrops
      <4> QED BY <2>1, <2>6, <3>6, <4>1 DEF Tidy
    <3> QED BY <2>4, <3>2, <3>5, <3>6 DEF r
  <2>8. CASE ~(sample.dts < begun.seg[1].start)
    <3>1. r = IF ends THEN SwitchSegment(wrote, new) ELSE wrote
      BY <1>1, <1>4, <2>8
    <3>2. Outcome(wrote, TRUE, clean) /\ SameTracks(begun, wrote) /\ wrote.seg # <<>>
      <4>1. Suits(sample, begun.ver)
        BY <2>1, <2>2 DEF SameTracks
      <4> QED BY <2>1, <2>2, <4>1, SegmentWriteGood
    <3>3. /\ Shrinks(begun, wrote)
          /\ (/\ ~wrote.err /\ Sound(begun, TRUE) /\ Precede(KeptOrGone(begun, TRUE), {sample})
              /\ sample.dts >= begun.seg[1].start) => Tidy(begun, wrote, TRUE, {sample})
      BY <2>1, <2>2, SegmentWriteLands
    <3>4. sample.dts >= begun.seg[1].start
      <4>1. begun.seg[1].start \in RcTimes
        BY <2>2, StateFields
      <4>2. sample.dts \in Nat /\ begun.seg[1].start \in Nat
        BY <2>1, <4>1, RcBounds DEF RcTimes
      <4> QED BY <2>8, <4>2
    <3> HIDE DEF wrote
    <3>5. wrote \in RcStates
      BY <3>2 DEF Outcome, StateGood
    <3>6. ASSUME ~wrote.err, Sound(st0, TRUE), Precede(KeptOrGone(st0, TRUE), ToSet(st0.next[t]))
          PROVE  Tidy(st0, wrote, TRUE, ToSet(st0.next[t]))
      <4>1. Tidy(begun, wrote, TRUE, {sample})
        BY <2>6, <3>3, <3>4, <3>6
      <4> QED BY <2>1, <2>6, <3>6, <4>1 DEF Tidy
    <3>7. CASE ends
      <4>1. r = SwitchSegment(wrote, new) /\ ~wrote.err
        BY <3>1, <3>7
      <4>2. Ready(wrote, TRUE, clean)
        BY <3>2, <4>1 DEF Outcome
      <4> HIDE DEF r
      <4>3. Outcome(r, TRUE, clean) /\ SameTracks(wrote, r)
        BY <3>2, <4>1, <4>2, SwitchSegmentGood
      <4>4. /\ r.err => Shrinks(wrote, r)
            /\ Grew(wrote, r, new.dts)
            /\ ~r.err => r.seg # <<>> /\ r.seg[1].start = new.dts /\ r.seg[1].fi = "nil"
            /\ ~r.err /\ Sound(wrote, TRUE) => Tidy(wrote, r, TRUE, {})
        BY <3>2, <4>1, <4>2, SwitchSegmentLands
      <4>5. r \in RcStates
        BY <4>3 DEF Outcome, StateGood
      <4>6. ASSUME NEW d \in RcTimes
            PROVE  Ends(r, d) <= Ends(st0, d) + One(d = new.dts) + One(Begins(st0, new, d))
        <5>1. /\ Ends(wrote, d) <= Ends(st0, d) + One(d = new.dts) + One(Begins(st0, new, d))
              /\ Ends(wrote, new.dts) <= Ends(st0, new.dts)
          BY <2>5, <3>3, <3>5
        <5>2. /\ Ends(r, d) \in Nat /\ Ends(wrote, d) \in Nat /\ Ends(st0, d) \in Nat
              /\ Ends(r, d) <= Ends(wrote, d) + (IF d = new.dts THEN 1 ELSE 0)
          BY <1>6, <3>5, <4>4, <4>5, EndsNat DEF Grew
        <5>3. One(Begins(st0, new, d)) \in Nat
          BY DEF One
        <5>4. CASE d = new.dts
          <6>1. One(d = new.dts) = 1
            BY <5>4 DEF One
          <6>2. Ends(r, d) <= Ends(st0, d) + 1
            BY <5>1, <5>2, <5>4
          <6> QED BY <5>2, <5>3, <6>1, <6>2
        <5>5. CASE d # new.dts
          <6>1. One(d = new.dts) = 0
            BY <5>5 DEF One
          <6> QED BY <5>1, <5>2, <5>3, <5>5, <6>1
        <5> QED BY <5>4, <5>5
      <4>7. TrackEnds(st0, r, new)
        BY <1>4, <4>4, <4>6 DEF TrackEnds
      <4>8. ASSUME ~r.err, Sound(st0, TRUE), Precede(KeptOrGone(st0, TRUE), ToSet(st0.next[t]))
            PROVE  Tidy(st0, r, TRUE, ToSet(st0.next[t]))
        BY <3>6, <4>1, <4>4, <4>8 DEF Tidy
      <4>9. r.taken = begun.taken /\ r.next = begun.next
        BY <3>2, <4>3 DEF SameTracks
      <4> QED BY <2>4, <4>7, <4>8, <4>9 DEF r
    <3>8. CASE ~ends
      <4>1. r = wrote
        BY <3>1, <3>8
      <4> HIDE DEF r
      <4>2. TrackEnds(st0, r, new)
        BY <1>4, <2>5, <3>2, <3>3, <3>5, <4>1 DEF TrackEnds
      <4>3. r.taken = begun.taken /\ r.next = begun.next
        BY <3>2, <4>1 DEF SameTracks
      <4> QED BY <2>4, <3>6, <4>1, <4>2, <4>3 DEF r
    <3> QED BY <3>7, <3>8
  <2> QED BY <2>7, <2>8
<1> QED BY <1>3, <1>4

LEMMA SoundSameTs ==
    ASSUME NEW st, NEW r, Sound(st, FALSE), r.files = st.files, r.gone = st.gone, r.buf = st.buf
    PROVE  Sound(r, FALSE) /\ KeptOrGone(r, FALSE) = KeptOrGone(st, FALSE)
<1>1. MemOf(r, FALSE) = MemOf(st, FALSE)
  BY DEF MemOf
<1> QED BY <1>1 DEF Sound, KeptOrGone

LEMMA GrewAfter ==
    ASSUME NEW a \in RcStates, NEW b \in RcStates, NEW c \in RcStates, NEW d,
           Shrinks(a, b), Grew(b, c, d)
    PROVE  Grew(a, c, d)
<1> SUFFICES ASSUME NEW e \in RcTimes
             PROVE  Ends(c, e) <= Ends(a, e) + (IF e = d THEN 1 ELSE 0)
  BY DEF Grew
<1>1. /\ Ends(a, e) \in Nat /\ Ends(b, e) \in Nat /\ Ends(c, e) \in Nat
      /\ Ends(b, e) <= Ends(a, e) /\ Ends(c, e) <= Ends(b, e) + (IF e = d THEN 1 ELSE 0)
  BY EndsNat DEF Shrinks, Grew
<1> QED BY <1>1

LEMMA GrewBefore ==
    ASSUME NEW a \in RcStates, NEW b \in RcStates, NEW c \in RcStates, NEW d,
           Grew(a, b, d), Shrinks(b, c)
    PROVE  Grew(a, c, d)
<1> SUFFICES ASSUME NEW e \in RcTimes
             PROVE  Ends(c, e) <= Ends(a, e) + (IF e = d THEN 1 ELSE 0)
  BY DEF Grew
<1>1. /\ Ends(a, e) \in Nat /\ Ends(b, e) \in Nat /\ Ends(c, e) \in Nat
      /\ Ends(c, e) <= Ends(b, e) /\ Ends(b, e) <= Ends(a, e) + (IF e = d THEN 1 ELSE 0)
  BY EndsNat DEF Shrinks, Grew
<1> QED BY <1>1

LEMMA ShrinksGrew ==
    ASSUME NEW a \in RcStates, NEW b \in RcStates, NEW d, Shrinks(a, b)
    PROVE  Grew(a, b, d)
<1> SUFFICES ASSUME NEW e \in RcTimes
             PROVE  Ends(b, e) <= Ends(a, e) + (IF e = d THEN 1 ELSE 0)
  BY DEF Grew
<1>1. Ends(a, e) \in Nat /\ Ends(b, e) \in Nat /\ Ends(b, e) <= Ends(a, e)
  BY EndsNat DEF Shrinks
<1> QED BY <1>1

\* formatMPEGTS.write, until the sample is written.
LEMMA TsSegmentLands ==
    ASSUME NEW st, NEW clean \in BOOLEAN, NEW sample \in RcSamples, Ready(st, FALSE, clean)
    PROVE  LET r == TsSegment(st, sample)
           IN  /\ Grew(st, r, sample.dts)
               /\ ~r.err /\ Sound(st, FALSE) => Tidy(st, r, FALSE, {})
<1> DEFINE fmp4 == FALSE
           d == sample.dts
           s == [st.seg[1] EXCEPT !.last = d]
           moved == PutSeg(st, s)
           closed == TsSegmentClose(moved)
           flushed == Flush(st)
           s2 == [flushed.seg[1] EXCEPT !.flushed = d]
           ends == /\ ~st.hasVideo \/ sample.track = "video"
                   /\ sample.key /\ d >= SegmentDuration + st.seg[1].start
           late == d >= PartDuration + st.seg[1].flushed
           r == TsSegment(st, sample)
<1>1. st \in RcStates /\ StateGood(st, fmp4, clean) /\ ~st.err /\ d \in RcTimes /\ ~fmp4
  BY ReadyState DEF RcSamples
<1>2. r = IF st.seg = <<>> THEN [st EXCEPT !.seg = NewSegment(d)]
          ELSE IF ends THEN IF closed.err THEN closed ELSE [closed EXCEPT !.seg = NewSegment(d)]
          ELSE IF late THEN PutSeg(flushed, s2) ELSE st
  <2>1. moved = [st EXCEPT !.seg[1].last = d]
    BY Zenon DEF PutSeg
  <2>2. PutSeg(flushed, s2) = [flushed EXCEPT !.seg[1].flushed = d]
    <3> HIDE DEF flushed
    <3> QED BY Zenon DEF PutSeg
  <2>3. r = IF st.seg = <<>> THEN [st EXCEPT !.seg = NewSegment(d)]
            ELSE IF ends
            THEN IF TsSegmentClose([st EXCEPT !.seg[1].last = d]).err
                 THEN TsSegmentClose([st EXCEPT !.seg[1].last = d])
                 ELSE [TsSegmentClose([st EXCEPT !.seg[1].last = d]) EXCEPT !.seg = NewSegment(d)]
            ELSE IF late THEN [flushed EXCEPT !.seg[1].flushed = d] ELSE st
    BY Zenon DEF TsSegment, NoSeg
  <2> HIDE DEF moved, s2, ends, late, flushed, r
  <2> QED BY Zenon, <2>1, <2>2, <2>3
<1>7. r \in RcStates
  <2> HIDE DEF r
  <2>1. Outcome(r, fmp4, clean)
    BY TsSegmentGood DEF r
  <2> QED BY <2>1 DEF Outcome, StateGood
<1>8. MemOf(st, fmp4) = st.buf /\ MemOf(r, fmp4) = r.buf
  BY DEF MemOf
<1>9. ASSUME Lands(st.files, r.files, st.seg[1].start, st.buf), st.seg # <<>>, r.buf = <<>>,
             r.gone = st.gone, Sound(st, FALSE)
      PROVE  Tidy(st, r, FALSE, {})
  <2> HIDE DEF r
  <2>1. /\ Lands(st.files, r.files, st.seg[1].start, MemOf(st, fmp4)) /\ MemOf(r, fmp4) = <<>>
        /\ Sound(st, fmp4) /\ r.gone = st.gone /\ st.seg # <<>> /\ r \in RcStates /\ st \in RcStates
    BY <1>1, <1>7, <1>8, <1>9
  <2> HIDE DEF fmp4
  <2>2. Tidy(st, r, fmp4, {})
    BY ONLY <2>1, SoundLands
  <2> QED BY <2>2 DEF fmp4
<1> HIDE DEF ends, late, d
<1>3. CASE st.seg = <<>>
  <2>1. r = Begin(st, d)
    BY <1>2, <1>3 DEF Begin
  <2> HIDE DEF r
  <2>2. SameTracks(st, r) /\ r.files = st.files /\ r.buf = st.buf /\ Grew(st, r, d)
    BY <1>1, <2>1, BeginEnds
  <2>3. Sound(st, FALSE) => Tidy(st, r, FALSE, {})
    BY <2>2, SoundSameTs DEF Tidy, SameTracks
  <2> QED BY <2>2, <2>3 DEF r, d
<1>4. CASE st.seg # <<>> /\ ends
  <2>1. st.seg[1] \in RcSegments
    BY <1>1, <1>4, StateFields
  <2>2. s \in RcSegments /\ s.start = st.seg[1].start /\ s.fi = st.seg[1].fi /\ s.part = st.seg[1].part
    BY <1>1, <2>1, SegFields
  <2>3. r = IF closed.err THEN closed ELSE [closed EXCEPT !.seg = NewSegment(d)]
    BY <1>2, <1>4
  <2> HIDE DEF s, r
  <2>4. /\ StateGood(moved, fmp4, clean) /\ SameTracks(st, moved) /\ ~moved.err
        /\ moved.seg # <<>> /\ moved.seg[1] = s /\ moved.files = st.files /\ moved.buf = st.buf
        /\ moved \in RcStates /\ Shrinks(st, moved)
    <3> DEFINE m == moved
    <3>1. StateGood(m, fmp4, clean)
      BY <1>1, <1>4, <2>2, PutSegGood
    <3>2. /\ m \in RcStates /\ SameTracks(st, m) /\ m.files = st.files /\ m.buf = st.buf
          /\ m.err = st.err /\ m.seg # <<>> /\ m.seg[1] = s /\ Shrinks(st, m)
      BY <1>1, <1>4, <2>2, PutSegEnds
    <3> QED BY <1>1, <3>1, <3>2
  <2> HIDE DEF moved
  <2>5. /\ StateGood(closed, fmp4, clean) /\ SameTracks(moved, closed)
        /\ ~closed.err => closed.buf = <<>>
    BY <1>1, <2>4, TsSegmentCloseGood
  <2>6. /\ Shrinks(moved, closed)
        /\ ~closed.err => Lands(moved.files, closed.files, moved.seg[1].start, moved.buf)
    BY <1>1, <2>4, TsSegmentCloseLands
  <2> HIDE DEF closed
  <2>9. closed \in RcStates
    BY <2>5 DEF StateGood
  <2>10. Shrinks(st, closed)
    BY <1>1, <2>4, <2>6, <2>9, ShrinksTwice
  <2>7. CASE closed.err
    <3>1. r = closed
      BY <2>3, <2>7
    <3>2. Grew(st, r, d)
      BY <1>1, <2>9, <2>10, <3>1, ShrinksGrew
    <3> QED BY <2>7, <3>1, <3>2 DEF r, d
  <2>8. CASE ~closed.err
    <3>1. r = Begin(closed, d)
      BY <2>3, <2>8 DEF Begin
    <3>2. /\ SameTracks(closed, r) /\ r.files = closed.files /\ r.buf = closed.buf /\ Grew(closed, r, d)
      BY <1>1, <2>9, <3>1, BeginEnds
    <3>3. Grew(st, r, d)
      BY <1>1, <1>7, <2>9, <2>10, <3>2, GrewAfter
    <3>4. Lands(st.files, r.files, st.seg[1].start, st.buf) /\ r.buf = <<>> /\ r.gone = st.gone
      BY <2>2, <2>4, <2>5, <2>6, <2>8, <3>2 DEF SameTracks
    <3>5. Sound(st, FALSE) => Tidy(st, r, FALSE, {})
      BY <1>4, <1>9, <3>4
    <3> QED BY <3>3, <3>5 DEF r, d
  <2> QED BY <2>7, <2>8
<1>5. CASE st.seg # <<>> /\ ~ends /\ late
  <2>1. /\ StateGood(flushed, fmp4, clean) /\ SameTracks(st, flushed) /\ flushed.seg # <<>>
        /\ ~flushed.err => flushed.buf = <<>>
    BY <1>1, <1>5, FlushGood
  <2>2. r = PutSeg(flushed, s2)
    BY <1>2, <1>5
  <2>3. /\ Shrinks(st, flushed)
        /\ ~flushed.err => Lands(st.files, flushed.files, st.seg[1].start, st.buf)
    BY <1>1, <1>5, FlushLands
  <2> HIDE DEF r, flushed
  <2>4. flushed \in RcStates /\ flushed.seg[1] \in RcSegments
    BY <2>1, StateFields DEF StateGood
  <2>5. s2 \in RcSegments /\ s2.start = flushed.seg[1].start /\ s2.fi = flushed.seg[1].fi
    BY <1>1, <2>4, SegFields
  <2> HIDE DEF s2
  <2>6. /\ SameTracks(flushed, r) /\ r.err = flushed.err /\ r.files = flushed.files /\ r.buf = flushed.buf
        /\ Shrinks(flushed, r)
    BY <2>1, <2>2, <2>4, <2>5, PutSegEnds
  <2>7. Shrinks(st, r)
    BY <1>1, <1>7, <2>3, <2>4, <2>6, ShrinksTwice
  <2>8. Grew(st, r, d)
    BY <1>1, <1>7, <2>7, ShrinksGrew
  <2>9. ~r.err => /\ Lands(st.files, r.files, st.seg[1].start, st.buf) /\ r.buf = <<>>
                  /\ r.gone = st.gone
    BY <2>1, <2>3, <2>6 DEF SameTracks
  <2>10. ~r.err /\ Sound(st, FALSE) => Tidy(st, r, FALSE, {})
    BY <1>5, <1>9, <2>9
  <2> QED BY <2>8, <2>10 DEF r, d
<1>6. CASE st.seg # <<>> /\ ~ends /\ ~late
  <2>1. r = st
    BY <1>2, <1>6
  <2>2. Shrinks(st, st)
    BY <1>1, ShrinksIf
  <2> HIDE DEF r
  <2>3. Grew(st, r, d)
    BY <1>1, <2>1, <2>2, ShrinksGrew
  <2> QED BY <2>1, <2>3 DEF r, d, Tidy
<1> QED BY <1>3, <1>4, <1>5, <1>6

\* formatMPEGTS.write: the sample is added to the buffer.
TsEnds(st, r, sample) ==
    /\ r.taken = st.taken \cup {sample} /\ r.next = st.next
    /\ Grew(st, r, sample.dts)
    /\ (~r.err /\ Sound(st, FALSE) /\ Precede(KeptOrGone(st, FALSE), {sample})) => Tidy(st, r, FALSE, {sample})

LEMMA TsWriteLands ==
    ASSUME NEW st, NEW clean \in BOOLEAN, NEW sample \in RcSamples, NEW spills \in BOOLEAN,
           Ready(st, FALSE, clean)
    PROVE  TsEnds(st, TsWrite(st, sample, spills), sample)
<1> DEFINE fmp4 == FALSE
           took == Take(st, sample)
           ready == TsSegment(took, sample)
           s == [ready.seg[1] EXCEPT !.last = sample.dts]
           moved == PutSeg(ready, s)
           b == Append(moved.buf, sample)
           wrote == [moved EXCEPT !.buf = b]
           r == TsWrite(st, sample, spills)
<1>1. /\ Ready(took, fmp4, clean) /\ took.taken = st.taken \cup {sample}
      /\ took.files = st.files /\ took.seg = st.seg /\ took.buf = st.buf /\ took.next = st.next
      /\ took.gone = st.gone
  <2>1. Ready(st, fmp4, clean) /\ ~fmp4 /\ took = Take(st, sample) /\ sample \in RcSamples
    OBVIOUS
  <2> HIDE DEF fmp4, took
  <2>2. /\ Ready(took, fmp4, clean) /\ took.ver = st.ver /\ took.taken = st.taken \cup {sample}
        /\ took.files = st.files /\ took.seg = st.seg /\ took.buf = st.buf /\ took.next = st.next
        /\ took.gone = st.gone
    BY ONLY <2>1, SampleBuffered
  <2> QED BY <2>2
<1>2. r = IF ready.err THEN ready
          ELSE IF spills THEN Flush([ready EXCEPT !.seg[1].last = sample.dts, !.buf = Append(@, sample)])
          ELSE [ready EXCEPT !.seg[1].last = sample.dts, !.buf = Append(@, sample)]
  BY Zenon DEF TsWrite, Take
<1> HIDE DEF took, r
<1>3. Outcome(ready, fmp4, clean) /\ ready.seg # <<>> /\ SameTracks(took, ready)
  BY <1>1, TsSegmentGood
<1>6. /\ Grew(took, ready, sample.dts)
      /\ ~ready.err /\ Sound(took, FALSE) => Tidy(took, ready, FALSE, {})
  BY <1>1, TsSegmentLands
<1> HIDE DEF ready
<1>7. st \in RcStates /\ took \in RcStates /\ ready \in RcStates
  BY <1>1, <1>3, ReadyState DEF Outcome, StateGood
<1>8. Grew(st, ready, sample.dts)
  <2>1. Shrinks(st, took)
    BY <1>1, <1>7, ShrinksIf
  <2> QED BY <1>6, <1>7, <2>1, GrewAfter
<1>9. ready.taken = st.taken \cup {sample} /\ ready.next = st.next
  BY <1>1, <1>3 DEF SameTracks
<1>10. ASSUME ~ready.err, Sound(st, FALSE) PROVE Tidy(st, ready, FALSE, {})
  <2>1. Sound(took, FALSE) /\ KeptOrGone(took, FALSE) = KeptOrGone(st, FALSE)
    BY <1>1, <1>10, SoundSameTs
  <2> QED BY <1>6, <1>10, <2>1 DEF Tidy
<1>4. CASE ready.err
  <2>1. r = ready
    BY <1>2, <1>4
  <2> QED BY <1>4, <1>8, <1>9, <2>1 DEF r, TsEnds
<1>5. CASE ~ready.err
  <2>1. Ready(ready, fmp4, clean) /\ StateGood(ready, fmp4, clean)
    BY <1>3, <1>5 DEF Outcome
  <2>2. ready.seg[1] \in RcSegments /\ sample.dts \in RcTimes /\ ready.buf \in Seq(RcSamples)
    BY <1>3, <1>7, StateFields DEF RcSamples
  <2>3. /\ s \in RcSegments /\ s.start = ready.seg[1].start /\ s.fi = ready.seg[1].fi
        /\ s.part = ready.seg[1].part
    BY <2>2, SegFields
  <2>4. [ready EXCEPT !.seg[1].last = sample.dts, !.buf = Append(@, sample)] = wrote
    <3>1. [ready EXCEPT !.seg[1].last = sample.dts] = moved
      BY Zenon DEF PutSeg
    <3>2. moved.buf = ready.buf
      BY <1>7 DEF RcStates, PutSeg
    <3>3. [ready EXCEPT !.seg[1].last = sample.dts, !.buf = Append(@, sample)] =
            [[ready EXCEPT !.seg[1].last = sample.dts] EXCEPT !.buf = Append(ready.buf, sample)]
      BY <1>7 DEF RcStates
    <3> HIDE DEF moved
    <3> QED BY Zenon, <3>1, <3>2, <3>3
  <2>5. r = IF spills THEN Flush(wrote) ELSE wrote
    <3> HIDE DEF wrote
    <3> QED BY <1>2, <1>5, <2>4
  <2> HIDE DEF s
  <2>6. /\ StateGood(moved, fmp4, clean) /\ SameTracks(ready, moved) /\ moved.err = ready.err
        /\ moved.seg # <<>> /\ moved.seg[1] = s /\ moved.buf = ready.buf /\ moved.files = ready.files
    BY <1>3, <2>1, <2>3, PutSegGood
  <2> HIDE DEF moved
  <2>7. moved \in RcStates /\ b \in Seq(RcSamples)
    <3> DEFINE a == moved.buf
    <3>1. a \in Seq(RcSamples) /\ sample \in RcSamples
      BY <2>2, <2>6
    <3>2. moved \in RcStates
      BY <2>6 DEF StateGood
    <3> HIDE DEF a
    <3>3. Append(a, sample) \in Seq(RcSamples)
      BY ONLY <3>1
    <3> QED BY <3>2, <3>3 DEF a
  <2>14. b = Append(ready.buf, sample)
    BY <2>6
  <2> HIDE DEF b
  <2>8. /\ wrote \in RcStates /\ SameTracks(moved, wrote) /\ wrote.files = moved.files
        /\ wrote.seg = moved.seg /\ wrote.err = moved.err /\ wrote.buf = b /\ wrote.fault = moved.fault
    BY <2>7, WithBuf
  <2> HIDE DEF wrote
  <2>9. StateGood(wrote, fmp4, clean) /\ ~wrote.err /\ wrote.seg # <<>>
    <3>1. StateGood(wrote, fmp4, clean)
      BY <2>6, <2>8 DEF StateGood, PartGood
    <3> QED BY <1>5, <2>6, <2>8, <3>1
  <2>12. Shrinks(ready, wrote)
    <3>1. \A d \in RcTimes : Live(wrote.seg, d) => Live(ready.seg, d)
      BY <1>3, <2>3, <2>6, <2>8 DEF Live
    <3>2. \A d \in RcTimes : wrote.files[d].complete = ready.files[d].complete
      BY <2>6, <2>8
    <3> QED BY <1>7, <2>8, <3>1, <3>2, ShrinksIf
  <2>13. Grew(st, wrote, sample.dts)
    BY <1>7, <1>8, <2>8, <2>12, GrewBefore
  <2>15. wrote.taken = st.taken \cup {sample} /\ wrote.next = st.next /\ wrote.gone = ready.gone
    BY <1>9, <2>6, <2>8 DEF SameTracks
  <2>16. ASSUME Sound(st, FALSE), Precede(KeptOrGone(st, FALSE), {sample})
         PROVE  Tidy(st, wrote, FALSE, {sample})
    <3>1. Tidy(st, ready, FALSE, {})
      BY <1>5, <1>10, <2>16
    <3>2. Sound(ready, fmp4) /\ Precede(KeptOrGone(ready, fmp4), {sample})
      BY <2>16, <3>1 DEF Tidy, Precede
    <3>3. MemOf(wrote, fmp4) = Append(MemOf(ready, fmp4), sample) /\ ~fmp4
      BY <2>8, <2>14 DEF MemOf
    <3>4. /\ wrote.files = ready.files /\ wrote.gone = ready.gone /\ wrote.seg # <<>> /\ ready.seg # <<>>
          /\ wrote.seg[1].start = ready.seg[1].start /\ ready \in RcStates /\ sample \in RcSamples
      BY <1>3, <1>7, <2>3, <2>6, <2>8, <2>15
    <3> HIDE DEF fmp4
    <3>5. Tidy(ready, wrote, fmp4, {sample})
      BY ONLY <3>2, <3>3, <3>4, SoundGrows
    <3> QED BY <3>1, <3>5 DEF Tidy, fmp4
  <2>10. CASE spills
    <3>1. r = Flush(wrote)
      BY <2>5, <2>10
    <3>2. /\ StateGood(r, fmp4, clean) /\ SameTracks(wrote, r) /\ (~r.err => r.buf = <<>>)
      <4> DEFINE f == Flush(wrote)
      <4>1. ~fmp4 /\ clean \in BOOLEAN
        OBVIOUS
      <4>2. StateGood(f, fmp4, clean) /\ SameTracks(wrote, f) /\ (~f.err => f.buf = <<>>)
        BY <2>9, <4>1, FlushGood
      <4> HIDE DEF f
      <4> QED BY <3>1, <4>2 DEF f
    <3>3. /\ Shrinks(wrote, r)
          /\ ~r.err => Lands(wrote.files, r.files, wrote.seg[1].start, wrote.buf)
      <4> DEFINE f == Flush(wrote)
      <4>1. ~fmp4 /\ clean \in BOOLEAN
        OBVIOUS
      <4>2. /\ Shrinks(wrote, f)
            /\ ~f.err => Lands(wrote.files, f.files, wrote.seg[1].start, wrote.buf)
        BY <2>9, <4>1, FlushLands
      <4> HIDE DEF f
      <4> QED BY <3>1, <4>2 DEF f
    <3>4. r \in RcStates
      BY <3>2 DEF StateGood
    <3>5. Grew(st, r, sample.dts)
      BY <1>7, <2>8, <2>13, <3>3, <3>4, GrewBefore
    <3>6. ASSUME ~r.err, Sound(st, FALSE), Precede(KeptOrGone(st, FALSE), {sample})
          PROVE  Tidy(st, r, FALSE, {sample})
      <4>1. Tidy(st, wrote, FALSE, {sample})
        BY <2>16, <3>6
      <4>2. /\ Sound(wrote, fmp4) /\ MemOf(r, fmp4) = <<>> /\ r.gone = wrote.gone /\ wrote.seg # <<>>
            /\ Lands(wrote.files, r.files, wrote.seg[1].start, MemOf(wrote, fmp4))
            /\ wrote \in RcStates /\ r \in RcStates
        BY <2>8, <2>9, <3>2, <3>3, <3>4, <3>6, <4>1 DEF Tidy, MemOf, SameTracks
      <4> HIDE DEF fmp4
      <4>3. Tidy(wrote, r, fmp4, {})
        BY ONLY <4>2, SoundLands
      <4> QED BY <4>1, <4>3 DEF Tidy, fmp4
    <3>7. r.taken = wrote.taken /\ r.next = wrote.next
      BY <3>2 DEF SameTracks
    <3> QED BY <2>15, <3>5, <3>6, <3>7 DEF r, TsEnds
  <2>11. CASE ~spills
    <3>1. r = wrote
      BY <2>5, <2>11
    <3> QED BY <2>13, <2>15, <2>16, <3>1 DEF r, TsEnds
  <2> QED BY <2>10, <2>11
<1> QED BY <1>4, <1>5

\* The two tracks have even and odd times, and what a track accepted is older
\* than its next unit.
Parity(t) == IF t = "video" THEN 0 ELSE 1
Other(t) == IF t = "video" THEN "audio" ELSE "video"
Clocked(taken, time) ==
    /\ \A t \in RcTracks : time[t] \in Nat /\ time[t] % 2 = Parity(t)
    /\ \A x \in taken : x.dts < time[x.track] /\ x.dts % 2 = Parity(x.track)
Ticked(time, t) == [time EXCEPT ![t] = @ + 2]

LEMMA ClockTicks ==
    ASSUME NEW taken \in SUBSET RcSamples, NEW time \in [RcTracks -> Nat], NEW t \in RcTracks,
           Clocked(taken, time)
    PROVE  Clocked(taken, Ticked(time, t)) /\ Ticked(time, t) \in [RcTracks -> Nat]
<1> DEFINE time2 == Ticked(time, t)
<1>1. /\ time2 \in [RcTracks -> Nat] /\ time2[t] = time[t] + 2
      /\ \A u \in RcTracks : u # t => time2[u] = time[u]
  BY DEF Ticked
<1> HIDE DEF time2
<1>2. \A u \in RcTracks : time2[u] \in Nat /\ time2[u] % 2 = Parity(u)
  <2> SUFFICES ASSUME NEW u \in RcTracks PROVE time2[u] % 2 = Parity(u)
    BY <1>1
  <2>1. time[u] \in Nat /\ time[u] % 2 = Parity(u)
    BY DEF Clocked
  <2>2. (time[u] + 2) % 2 = time[u] % 2
    BY <2>1
  <2> QED BY <1>1, <2>1, <2>2
<1>3. ASSUME NEW x \in taken PROVE x.dts < time2[x.track] /\ x.dts % 2 = Parity(x.track)
  <2>1. x.track \in RcTracks /\ x.dts \in Nat
    BY RcBounds DEF RcSamples, RcTimes
  <2>2. x.dts < time[x.track] /\ x.dts % 2 = Parity(x.track) /\ time[x.track] \in Nat
    BY <2>1 DEF Clocked
  <2>3. CASE x.track = t
    BY <1>1, <2>1, <2>2, <2>3
  <2>4. CASE x.track # t
    BY <1>1, <2>1, <2>2, <2>4
  <2> QED BY <2>3, <2>4
<1> QED BY <1>1, <1>2, <1>3 DEF Clocked, time2

\* The time of the next unit of a track is new, and after what came before.
LEMMA TimeIsNew ==
    ASSUME NEW taken \in SUBSET RcSamples, NEW time \in [RcTracks -> Nat], NEW new \in RcSamples,
           Clocked(taken, time), new.dts = time[new.track]
    PROVE  /\ Clocked(taken \cup {new}, Ticked(time, new.track))
           /\ \A x \in taken : x.dts # new.dts
           /\ Precede(taken, {new})
<1> DEFINE t == new.track
<1>1. t \in RcTracks /\ new.dts \in Nat
  BY RcBounds DEF RcSamples, RcTimes
<1>2. Clocked(taken, Ticked(time, t))
  BY <1>1, ClockTicks
<1>3. new.dts < Ticked(time, t)[t] /\ new.dts % 2 = Parity(t)
  BY <1>1 DEF Ticked, Clocked
<1>4. Clocked(taken \cup {new}, Ticked(time, t))
  BY <1>2, <1>3 DEF Clocked
<1>5. ASSUME NEW x \in taken PROVE x.dts # new.dts /\ Before(x, new)
  <2>1. x.track \in RcTracks /\ x.dts \in Nat
    BY RcBounds DEF RcSamples, RcTimes
  <2>2. x.dts < time[x.track] /\ x.dts % 2 = Parity(x.track)
    BY DEF Clocked
  <2>3. CASE x.track = t
    BY <1>1, <2>1, <2>2, <2>3 DEF Before
  <2>4. CASE x.track # t
    <3>1. Parity(x.track) # Parity(t)
      BY <1>1, <2>1, <2>4 DEF Parity, RcTracks
    <3> QED BY <1>3, <2>2, <2>4, <3>1 DEF Before
  <2> QED BY <2>3, <2>4
<1> QED BY <1>4, <1>5 DEF Precede

\* A file is completed twice only if the unit after its first sample renewed
\* the parameters, and each began with a sample.
RenewedIn(taken, d) ==
    \E s, n \in taken : s.track = n.track /\ s.dts = d /\ n.dts = d + 2 /\ n.ver # s.ver
Counted(st, fmp4) ==
    \A d \in RcTimes :
        /\ Ends(st, d) <= 1 \/ (Ends(st, d) = 2 /\ fmp4 /\ RenewedIn(st.taken, d))
        /\ Ends(st, d) > 0 => \E x \in st.taken : x.dts = d

LEMMA CountedShrinks ==
    ASSUME NEW st \in RcStates, NEW r \in RcStates, NEW fmp4, Counted(st, fmp4), Shrinks(st, r),
           st.taken \subseteq r.taken
    PROVE  Counted(r, fmp4)
<1> SUFFICES ASSUME NEW d \in RcTimes
             PROVE  /\ Ends(r, d) <= 1 \/ (Ends(r, d) = 2 /\ fmp4 /\ RenewedIn(r.taken, d))
                    /\ Ends(r, d) > 0 => \E x \in r.taken : x.dts = d
  BY DEF Counted
<1>1. Ends(r, d) \in Nat /\ Ends(st, d) \in Nat /\ Ends(r, d) <= Ends(st, d)
  BY EndsNat DEF Shrinks
<1>2. RenewedIn(st.taken, d) => RenewedIn(r.taken, d)
  BY DEF RenewedIn
<1>3. /\ Ends(st, d) <= 1 \/ (Ends(st, d) = 2 /\ fmp4 /\ RenewedIn(st.taken, d))
      /\ Ends(st, d) > 0 => \E x \in st.taken : x.dts = d
  BY DEF Counted
<1>4. Ends(r, d) > 0 => Ends(st, d) > 0
  BY <1>1
<1>5. Ends(r, d) <= 1 \/ (Ends(r, d) = 2 /\ fmp4 /\ RenewedIn(r.taken, d))
  BY <1>1, <1>2, <1>3
<1> QED BY <1>3, <1>4, <1>5

\* No file has the name that a segment which begins with the next unit gets.
LEMMA NameIsNew ==
    ASSUME NEW st \in RcStates, NEW time \in [RcTracks -> Nat], NEW new \in RcSamples, NEW fmp4,
           Clocked(st.taken, time), Counted(st, fmp4), new.dts = time[new.track]
    PROVE  Ends(st, new.dts) = 0
<1>1. st.taken \in SUBSET RcSamples /\ new.dts \in RcTimes
  BY StateFields DEF RcSamples
<1>2. \A x \in st.taken : x.dts # new.dts
  BY <1>1, TimeIsNew
<1>3. ~(Ends(st, new.dts) > 0)
  BY <1>1, <1>2 DEF Counted
<1>4. Ends(st, new.dts) \in Nat
  BY <1>1, EndsNat
<1> QED BY <1>3, <1>4

\* formatMPEGTS.write: a file is completed once.
LEMMA TsCounts ==
    ASSUME NEW st \in RcStates, NEW r \in RcStates, NEW time \in [RcTracks -> Nat], NEW new \in RcSamples,
           Clocked(st.taken, time), Counted(st, FALSE), new.dts = time[new.track],
           Grew(st, r, new.dts), r.taken = st.taken \cup {new}
    PROVE  Counted(r, FALSE)
<1>1. Ends(st, new.dts) = 0
  BY NameIsNew
<1> SUFFICES ASSUME NEW d \in RcTimes
             PROVE  Ends(r, d) <= 1 /\ (Ends(r, d) > 0 => \E x \in r.taken : x.dts = d)
  BY DEF Counted
<1>2. /\ Ends(r, d) \in Nat /\ Ends(st, d) \in Nat
      /\ Ends(r, d) <= Ends(st, d) + (IF d = new.dts THEN 1 ELSE 0)
  BY EndsNat DEF Grew
<1>3. CASE d = new.dts
  BY <1>1, <1>2, <1>3
<1>4. CASE d # new.dts
  <2>1. Ends(st, d) <= 1 /\ (Ends(st, d) > 0 => \E x \in st.taken : x.dts = d)
    BY DEF Counted
  <2>2. Ends(r, d) <= Ends(st, d)
    BY <1>2, <1>4
  <2>3. Ends(r, d) > 0 => Ends(st, d) > 0
    BY <1>2, <2>2
  <2> QED BY <1>2, <2>1, <2>2, <2>3
<1> QED BY <1>3, <1>4

\* The pending sample of a track is the last that it accepted.
LastTaken(st, time, t) ==
    st.next[t] # <<>> => /\ st.next[t][1].track = t /\ st.next[t][1] \in st.taken
                         /\ st.next[t][1].dts + 2 = time[t]

\* Between two units: the pending sample has the present parameters, at most one
\* file has its name, which then is that of a segment that is written or, when
\* no other sample is pending, of one that is still to be created.
Poised(st, t) ==
    st.next[t] # <<>> =>
        /\ st.next[t][1].ver = st.ver[t] /\ Ends(st, st.next[t][1].dts) <= 1
        /\ st.seg = <<>> => Ends(st, st.next[t][1].dts) = 0
        /\ (st.next[Other(t)] = <<>> /\ Ends(st, st.next[t][1].dts) = 1) =>
              st.seg # <<>> /\ st.seg[1].fi = "nil"

\* Before a unit of track t is written: if its pending sample begins a segment
\* of a name there was already, then its parameters were renewed.
Early(st, t) ==
    /\ st.next[t] # <<>> =>
         /\ Ends(st, st.next[t][1].dts) <= 1
         /\ (st.seg = <<>> /\ Ends(st, st.next[t][1].dts) = 1) => st.next[t][1].ver # st.ver[t]
    /\ st.next[Other(t)] # <<>> =>
         /\ st.next[Other(t)][1].ver = st.ver[Other(t)] /\ Ends(st, st.next[Other(t)][1].dts) <= 1
         /\ (st.next[t] = <<>> /\ st.seg = <<>>) => Ends(st, st.next[Other(t)][1].dts) = 0

Timely(st, time, fmp4) ==
    /\ Clocked(st.taken, time) /\ Counted(st, fmp4) /\ \A t \in RcTracks : LastTaken(st, time, t)
Steady(st, time, fmp4) == Timely(st, time, fmp4) /\ \A t \in RcTracks : Poised(st, t)

LEMMA TwoTracks ==
    ASSUME NEW t \in RcTracks
    PROVE  /\ Other(t) \in RcTracks /\ Other(t) # t /\ Other(Other(t)) = t /\ Parity(Other(t)) # Parity(t)
           /\ \A u \in RcTracks : u = t \/ u = Other(t)
BY DEF RcTracks, Other, Parity

\* The times of the pending samples and of the next unit differ.
LEMMA PendingApart ==
    ASSUME NEW st \in RcStates, NEW time \in [RcTracks -> Nat], NEW t \in RcTracks,
           Clocked(st.taken, time), \A u \in RcTracks : LastTaken(st, time, u)
    PROVE  /\ st.next[t] # <<>> =>
                /\ st.next[t][1] \in RcSamples /\ st.next[t][1].dts \in RcTimes
                /\ st.next[t][1].dts # time[t]
           /\ st.next[Other(t)] # <<>> =>
                /\ st.next[Other(t)][1].dts \in RcTimes /\ st.next[Other(t)][1].dts # time[t]
                /\ st.next[t] # <<>> => st.next[Other(t)][1].dts # st.next[t][1].dts
<1> DEFINE u == Other(t)
           x == st.next[t][1]
           y == st.next[u][1]
<1>1. u \in RcTracks /\ Parity(u) # Parity(t)
  BY TwoTracks
<1>2. time[t] \in Nat /\ time[t] % 2 = Parity(t)
  BY DEF Clocked
<1>3. st.next[t] # <<>> => x \in st.taken /\ x.dts + 2 = time[t] /\ x.track = t
  BY DEF LastTaken
<1>4. st.next[u] # <<>> => y \in st.taken /\ y.track = u
  BY <1>1 DEF LastTaken
<1>5. \A z \in st.taken : z \in RcSamples /\ z.dts \in RcTimes /\ z.dts \in Nat /\ z.dts % 2 = Parity(z.track)
  BY StateFields, RcBounds DEF RcSamples, RcTimes, Clocked
<1> HIDE DEF u, x, y
<1>6. st.next[t] # <<>> => x \in RcSamples /\ x.dts \in RcTimes /\ x.dts # time[t] /\ x.dts % 2 = Parity(t)
  BY <1>3, <1>5
<1>7. st.next[u] # <<>> => y.dts \in RcTimes /\ y.dts % 2 = Parity(u)
  BY <1>4, <1>5
<1> QED BY <1>1, <1>2, <1>6, <1>7 DEF u, x, y

LEMMA OneIs ==
    ASSUME NEW b PROVE One(b) \in {0, 1} /\ (~b => One(b) = 0)
BY DEF One

\* formatFMP4Track.write counts: the files that end.
LEMMA TrackCounts ==
    ASSUME NEW st \in RcStates, NEW r \in RcStates, NEW time \in [RcTracks -> Nat], NEW new \in RcSamples,
           Timely(st, time, TRUE), Early(st, new.track), new.dts = time[new.track],
           new.ver = st.ver[new.track], r.taken = st.taken \cup {new}, TrackEnds(st, r, new)
    PROVE  Counted(r, TRUE) /\ Ends(r, new.dts) <= 1
<1> DEFINE t == new.track
           x == st.next[t][1]
<1>1. t \in RcTracks /\ new.dts \in RcTimes
  BY DEF RcSamples
<1>2. Ends(st, new.dts) = 0
  BY NameIsNew DEF Timely
<1>3. st.next[t] # <<>> => /\ x \in RcSamples /\ x.dts \in RcTimes /\ x.dts # new.dts
                           /\ x.track = t /\ x \in st.taken /\ x.dts + 2 = new.dts
  BY <1>1, PendingApart DEF Timely, LastTaken
<1>4. st.next[t] # <<>> => /\ Ends(st, x.dts) <= 1
                           /\ (st.seg = <<>> /\ Ends(st, x.dts) = 1) => x.ver # new.ver
  BY DEF Early
<1>5. \A d \in RcTimes : Begins(st, new, d) => st.seg = <<>> /\ st.next[t] # <<>> /\ d = x.dts
  BY DEF Begins
<1> HIDE DEF x
<1>6. \A d \in RcTimes : /\ Ends(r, d) \in Nat /\ Ends(st, d) \in Nat
                         /\ Ends(r, d) <= Ends(st, d) + One(d = new.dts) + One(Begins(st, new, d))
  BY EndsNat DEF TrackEnds
<1>7. Ends(r, new.dts) <= 1
  <2> DEFINE d == new.dts
  <2>1. ~Begins(st, new, d)
    BY <1>1, <1>3, <1>5
  <2>2. One(d = new.dts) \in {0, 1} /\ One(Begins(st, new, d)) = 0
    BY <2>1, OneIs
  <2> QED BY <1>1, <1>2, <1>6, <2>2
<1>8. ASSUME NEW d \in RcTimes
      PROVE  /\ Ends(r, d) <= 1 \/ (Ends(r, d) = 2 /\ RenewedIn(r.taken, d))
             /\ Ends(r, d) > 0 => \E z \in r.taken : z.dts = d
  <2>1. CASE d = new.dts
    BY <1>7, <2>1
  <2>2. CASE d # new.dts /\ Begins(st, new, d)
    <3>1. st.seg = <<>> /\ st.next[t] # <<>> /\ d = x.dts
      BY <1>5, <2>2
    <3>2. One(d = new.dts) = 0 /\ One(Begins(st, new, d)) \in {0, 1}
      BY <2>2, OneIs
    <3>3. Ends(r, d) <= Ends(st, d) + 1 /\ Ends(st, d) <= 1
      BY <1>4, <1>6, <3>1, <3>2
    <3>4. Ends(r, d) <= 1 \/ (Ends(r, d) = 2 /\ Ends(st, d) = 1)
      BY <1>6, <3>3
    <3>5. Ends(st, d) = 1 => RenewedIn(r.taken, d)
      BY <1>3, <1>4, <3>1 DEF RenewedIn
    <3>6. x \in r.taken /\ x.dts = d
      BY <1>3, <3>1
    <3> QED BY <3>4, <3>5, <3>6
  <2>3. CASE d # new.dts /\ ~Begins(st, new, d)
    <3>1. One(d = new.dts) = 0 /\ One(Begins(st, new, d)) = 0
      BY <2>3, OneIs
    <3>2. Ends(r, d) <= Ends(st, d)
      BY <1>6, <3>1
    <3>3. /\ Ends(st, d) <= 1 \/ (Ends(st, d) = 2 /\ RenewedIn(st.taken, d))
          /\ Ends(st, d) > 0 => \E z \in st.taken : z.dts = d
      BY DEF Timely, Counted
    <3>4. RenewedIn(st.taken, d) => RenewedIn(r.taken, d)
      BY DEF RenewedIn
    <3>5. Ends(r, d) > 0 => Ends(st, d) > 0
      BY <1>6, <3>2
    <3> QED BY <1>6, <3>2, <3>3, <3>4, <3>5
  <2> QED BY <2>1, <2>2, <2>3
<1> QED BY <1>7, <1>8 DEF Counted

\* Afterwards both tracks are between two units again.
LEMMA TrackSteady ==
    ASSUME NEW st \in RcStates, NEW r \in RcStates, NEW time \in [RcTracks -> Nat], NEW new \in RcSamples,
           Timely(st, time, TRUE), Early(st, new.track), new.dts = time[new.track],
           new.ver = st.ver[new.track], r.taken = st.taken \cup {new}, TrackEnds(st, r, new),
           r.next = Pending(st.next, new), r.ver = st.ver, ~r.err
    PROVE  Steady(r, Ticked(time, new.track), TRUE)
<1> DEFINE t == new.track
           u == Other(t)
           time2 == Ticked(time, t)
           y == st.next[u][1]
<1>1. t \in RcTracks /\ u \in RcTracks /\ u # t /\ Other(u) = t /\ \A v \in RcTracks : v = t \/ v = u
  BY TwoTracks DEF RcSamples
<1>2. st.taken \in SUBSET RcSamples /\ st.next \in [RcTracks -> Seq(RcSamples)] /\ new.dts \in RcTimes
  BY StateFields DEF RcSamples
<1>3. r.next[t] = <<new>> /\ r.next[u] = st.next[u] /\ r.next[t] # <<>> /\ r.next[t][1] = new
  BY <1>1, <1>2 DEF Pending
<1>4. time2[t] = new.dts + 2 /\ time2[u] = time[u]
  BY <1>1 DEF Ticked
<1>5. Counted(r, TRUE) /\ Ends(r, new.dts) <= 1
  BY TrackCounts
<1>6. Clocked(r.taken, time2)
  <2>1. Clocked(st.taken, time)
    BY DEF Timely
  <2>2. Clocked(st.taken \cup {new}, Ticked(time, new.track))
    BY <1>2, <2>1, TimeIsNew
  <2> QED BY <2>2
<1>7. LastTaken(r, time2, t)
  BY <1>3, <1>4 DEF LastTaken
<1>8. LastTaken(r, time2, u)
  BY <1>1, <1>3, <1>4 DEF Timely, LastTaken
<1>9. Poised(r, t)
  <2>1. Ends(st, new.dts) = 0
    BY NameIsNew DEF Timely
  <2>2. Ends(r, new.dts) <= 0 \/ (r.seg # <<>> /\ r.seg[1].fi = "nil")
    BY <2>1 DEF TrackEnds
  <2>3. Ends(r, new.dts) \in Nat
    BY <1>2, EndsNat
  <2>4. Ends(r, new.dts) = 0 \/ (r.seg # <<>> /\ r.seg[1].fi = "nil")
    BY <2>2, <2>3
  <2> QED BY <1>3, <1>5, <2>4 DEF Poised
<1>10. Poised(r, u)
  <2> SUFFICES ASSUME st.next[u] # <<>>
               PROVE  /\ y.ver = st.ver[u] /\ Ends(r, y.dts) <= 1
                      /\ r.seg = <<>> => Ends(r, y.dts) = 0
    BY <1>1, <1>3 DEF Poised
  <2>1. /\ y.dts \in RcTimes /\ y.dts # new.dts
        /\ st.next[t] # <<>> => y.dts # st.next[t][1].dts
    BY <1>1, PendingApart DEF Timely
  <2>2. /\ y.ver = st.ver[u] /\ Ends(st, y.dts) <= 1
        /\ (st.next[t] = <<>> /\ st.seg = <<>>) => Ends(st, y.dts) = 0
    BY DEF Early
  <2>3. ~Begins(st, new, y.dts)
    BY <2>1 DEF Begins
  <2> HIDE DEF y, u, t
  <2>4. One(y.dts = new.dts) = 0 /\ One(Begins(st, new, y.dts)) = 0
    BY <2>1, <2>3, OneIs
  <2>5. Ends(r, y.dts) \in Nat /\ Ends(st, y.dts) \in Nat
    BY <2>1, EndsNat
  <2>6. Ends(r, y.dts) <= Ends(st, y.dts) + One(y.dts = new.dts) + One(Begins(st, new, y.dts))
    BY <2>1 DEF TrackEnds
  <2>7. Ends(r, y.dts) <= Ends(st, y.dts)
    BY <2>4, <2>5, <2>6
  <2>8. r.seg = <<>> => st.next[t] = <<>> /\ st.seg = <<>>
    BY DEF TrackEnds, Unmoved, t
  <2> QED BY <2>2, <2>5, <2>7, <2>8
<1> QED BY <1>1, <1>5, <1>6, <1>7, <1>8, <1>9, <1>10 DEF Steady, Timely

\* As long as no write failed: what is kept or was dropped had been accepted
\* before the pending samples.
Sits(st, fmp4) ==
    /\ Sound(st, fmp4) /\ Precede(KeptOrGone(st, fmp4), Waiting(st.next))
    /\ KeptOrGone(st, fmp4) \subseteq st.taken

LEMMA TrackSits ==
    ASSUME NEW st \in RcStates, NEW r, NEW time \in [RcTracks -> Nat], NEW new \in RcSamples,
           Clocked(st.taken, time), new.dts = time[new.track], Sits(st, TRUE),
           \A t \in RcTracks : \A x \in ToSet(st.next[t]) : x.track = t /\ x \in st.taken,
           Tidy(st, r, TRUE, ToSet(st.next[new.track])),
           r.taken = st.taken \cup {new}, r.next = Pending(st.next, new)
    PROVE  Sits(r, TRUE)
<1> DEFINE t == new.track
<1>1. /\ t \in RcTracks /\ st.taken \in SUBSET RcSamples /\ st.next \in [RcTracks -> Seq(RcSamples)]
  BY StateFields DEF RcSamples
<1>2. KeptOrGone(r, TRUE) \subseteq KeptOrGone(st, TRUE) \cup ToSet(st.next[t]) /\ Sound(r, TRUE)
  BY DEF Tidy
<1>3. KeptOrGone(r, TRUE) \subseteq st.taken
  BY <1>1, <1>2 DEF Sits
<1>4. Precede(st.taken, {new})
  BY <1>1, TimeIsNew
<1>5. ASSUME NEW z \in KeptOrGone(r, TRUE), NEW y \in Waiting(r.next) PROVE Before(z, y)
  <2>1. PICK u \in RcTracks : y \in ToSet(r.next[u])
    BY DEF Waiting
  <2>2. CASE u = t
    <3>1. r.next[u] = <<new>>
      BY <1>1, <2>2 DEF Pending
    <3>2. ToSet(<<new>>) = {new}
      BY DEF ToSet
    <3>3. y = new
      BY <2>1, <3>1, <3>2
    <3> QED BY <1>3, <1>4, <3>3 DEF Precede
  <2>3. CASE u # t
    <3>1. r.next[u] = st.next[u]
      BY <1>1, <2>3 DEF Pending
    <3>2. y \in ToSet(st.next[u]) /\ y.track = u
      BY <2>1, <3>1
    <3>3. CASE z \in KeptOrGone(st, TRUE)
      <4>1. y \in Waiting(st.next)
        BY <3>2 DEF Waiting
      <4> QED BY <3>3, <4>1 DEF Sits, Precede
    <3>4. CASE z \in ToSet(st.next[t])
      <4>1. z.track = t
        BY <1>1, <3>4
      <4> QED BY <2>3, <3>2, <4>1 DEF Before
    <3> QED BY <1>2, <3>3, <3>4
  <2> QED BY <2>2, <2>3
<1>6. Precede(KeptOrGone(r, TRUE), Waiting(r.next))
  BY <1>5 DEF Precede
<1> QED BY <1>2, <1>3, <1>6 DEF Sits

\* The state is ready for a sample, which is the next one of its track.
Due(st, time, new) ==
    /\ Timely(st, time, TRUE) /\ Early(st, new.track)
    /\ new \in RcSamples /\ new.dts = time[new.track] /\ new.ver = st.ver[new.track]

\* What the write of a sample of track t leaves behind.
Wrote(st, r, t, time, clean) ==
    /\ Outcome(r, TRUE, clean) /\ Clocked(r.taken, time) /\ Counted(r, TRUE) /\ r.ver = st.ver
    /\ \A u \in RcTracks : u # t => r.next[u] = st.next[u]
    /\ ~r.err => Steady(r, time, TRUE)
    /\ (~r.err /\ Sits(st, TRUE)) => Sits(r, TRUE)

\* formatFMP4Track.write, of the next sample of its track.
LEMMA TrackWriteOnce ==
    ASSUME NEW st, NEW clean \in BOOLEAN, NEW time \in [RcTracks -> Nat], NEW new,
           Ready(st, TRUE, clean), Due(st, time, new)
    PROVE  Wrote(st, TrackWrite(st, new), new.track, Ticked(time, new.track), clean)
<1> DEFINE t == new.track
           r == TrackWrite(st, new)
<1>14. /\ Timely(st, time, TRUE) /\ Early(st, new.track)
       /\ new \in RcSamples /\ new.dts = time[new.track] /\ new.ver = st.ver[new.track]
  BY DEF Due
<1>1. st \in RcStates /\ t \in RcTracks
  BY <1>14, ReadyState DEF RcSamples
<1>2. st.ver[t] \in Nat /\ st.taken \in SUBSET RcSamples /\ st.next \in [RcTracks -> Seq(RcSamples)]
  BY <1>1, StateFields
<1>3. Suits(new, st.ver)
  BY <1>2, <1>14 DEF Suits
<1>4. Clocked(st.taken, time) /\ \A u \in RcTracks : LastTaken(st, time, u)
  BY <1>14 DEF Timely
<1>5. st.next[t] # <<>> => st.next[t][1].dts # new.dts
  BY <1>1, <1>4, <1>14, PendingApart
<1>6. Outcome(r, TRUE, clean) /\ r.ver = st.ver
  <2> DEFINE fmp4 == TRUE
  <2>1. fmp4 /\ Ready(st, fmp4, clean)
    OBVIOUS
  <2> HIDE DEF fmp4, r
  <2>2. Outcome(r, fmp4, clean) /\ r.ver = st.ver
    BY ONLY <1>3, <1>14, <2>1, clean \in BOOLEAN, TrackWriteGood DEF r
  <2> QED BY <2>2 DEF fmp4
<1>7. /\ r.taken = st.taken \cup {new} /\ r.next = Pending(st.next, new)
      /\ TrackEnds(st, r, new)
      /\ (~r.err /\ Sound(st, TRUE) /\ Precede(KeptOrGone(st, TRUE), ToSet(st.next[t]))) =>
           Tidy(st, r, TRUE, ToSet(st.next[t]))
  BY <1>3, <1>5, <1>14, TrackWriteLands
<1> HIDE DEF r
<1>8. r \in RcStates
  BY <1>6 DEF Outcome, StateGood
<1>9. Counted(r, TRUE)
  BY <1>1, <1>7, <1>8, <1>14, TrackCounts
<1>10. Clocked(r.taken, Ticked(time, t))
  <2>1. Clocked(st.taken \cup {new}, Ticked(time, new.track))
    BY <1>2, <1>4, <1>14, TimeIsNew
  <2> QED BY <1>7, <2>1
<1>11. ~r.err => Steady(r, Ticked(time, t), TRUE)
  BY <1>1, <1>6, <1>7, <1>8, <1>14, TrackSteady
<1>12. ASSUME ~r.err, Sits(st, TRUE) PROVE Sits(r, TRUE)
  <2>1. \A u \in RcTracks : \A x \in ToSet(st.next[u]) : x.track = u /\ x \in st.taken
    <3> SUFFICES ASSUME NEW u \in RcTracks, NEW x \in ToSet(st.next[u])
                 PROVE  x.track = u /\ x \in st.taken
      OBVIOUS
    <3>1. st.next[u] # <<>>
      BY NoSamples
    <3>2. ToSet(st.next[u]) = {st.next[u][1]}
      BY <3>1, OnePending
    <3> QED BY <1>4, <3>1, <3>2 DEF LastTaken
  <2>2. Precede(KeptOrGone(st, TRUE), ToSet(st.next[t])) /\ Sound(st, TRUE)
    BY <1>1, <1>12 DEF Sits, Precede, Waiting
  <2>3. Tidy(st, r, TRUE, ToSet(st.next[t]))
    BY <1>7, <1>12, <2>2
  <2> QED BY <1>1, <1>4, <1>7, <1>12, <1>14, <2>1, <2>3, TrackSits
<1>13. \A u \in RcTracks : u # t => r.next[u] = st.next[u]
  BY <1>1, <1>2, <1>7 DEF Pending
<1> QED BY <1>6, <1>9, <1>10, <1>11, <1>12, <1>13 DEF r, Wrote

\* Between two units, with parameters that were not renewed.
LEMMA SteadyIsEarly ==
    ASSUME NEW st, NEW time, NEW t \in RcTracks, Steady(st, time, TRUE)
    PROVE  Timely(st, time, TRUE) /\ Early(st, t)
<1>1. Poised(st, t) /\ Poised(st, Other(t)) /\ Other(Other(t)) = t
  BY TwoTracks DEF Steady
<1> DEFINE x == st.next[t][1]
           y == st.next[Other(t)][1]
<1>2. st.next[t] # <<>> => Ends(st, x.dts) <= 1 /\ (st.seg = <<>> => Ends(st, x.dts) = 0)
  BY <1>1 DEF Poised
<1>3. st.next[Other(t)] # <<>> => /\ y.ver = st.ver[Other(t)] /\ Ends(st, y.dts) <= 1
                                  /\ st.seg = <<>> => Ends(st, y.dts) = 0
  BY <1>1 DEF Poised
<1>4. st.next[t] # <<>> /\ st.seg = <<>> => Ends(st, x.dts) # 1
  BY <1>2
<1>5. Early(st, t)
  <2> HIDE DEF x, y
  <2>1. /\ st.next[t] # <<>> => /\ Ends(st, x.dts) <= 1
                                /\ (st.seg = <<>> /\ Ends(st, x.dts) = 1) => x.ver # st.ver[t]
        /\ st.next[Other(t)] # <<>> =>
             /\ y.ver = st.ver[Other(t)] /\ Ends(st, y.dts) <= 1
             /\ (st.next[t] = <<>> /\ st.seg = <<>>) => Ends(st, y.dts) = 0
    BY Zenon, <1>2, <1>3, <1>4
  <2> QED BY Zenon, <2>1 DEF Early, x, y
<1> QED BY <1>5 DEF Steady

\* updateCodecs, when the parameters of track t are renewed.
LEMMA RenewalOnce ==
    ASSUME NEW st, NEW clean \in BOOLEAN, NEW t \in RcTracks, NEW v, NEW time \in [RcTracks -> Nat],
           Ready(st, TRUE, clean), LaterVer(st.ver, t, v), v # st.ver[t], Steady(st, time, TRUE)
    PROVE  LET r == UpdateCodecs(PutVer(st, t, v))
           IN  /\ Ready(r, TRUE, clean) /\ r.next = st.next
               /\ Timely(r, time, TRUE) /\ Early(r, t)
               /\ clean /\ Sits(st, TRUE) => Sits(r, TRUE)
<1> DEFINE r == UpdateCodecs(PutVer(st, t, v))
           u == Other(t)
           x == st.next[t][1]
           y == st.next[u][1]
<1>1. /\ Shrinks(st, r) /\ r.ver = [st.ver EXCEPT ![t] = v]
      /\ Unmoved(st, r) \/ r.seg = <<>>
      /\ st.seg = <<>> \/ st.seg[1].fi = "nil" => Unmoved(st, r)
      /\ clean /\ Sound(st, TRUE) => Tidy(st, r, TRUE, {})
      /\ AfterRenewal(st, r, TRUE, clean)
  <2> DEFINE fmp4 == TRUE
  <2>1. fmp4 /\ Ready(st, fmp4, clean)
    OBVIOUS
  <2> HIDE DEF fmp4
  <2>2. RenewalEnds(st, r, t, v, fmp4, clean)
    BY ONLY <2>1, clean \in BOOLEAN, t \in RcTracks, LaterVer(st.ver, t, v), RenewalLands
  <2>3. AfterRenewal(st, r, fmp4, clean)
    BY ONLY <2>1, clean \in BOOLEAN, t \in RcTracks, LaterVer(st.ver, t, v), UpdateCodecsGood DEF r
  <2> QED BY <2>2, <2>3 DEF fmp4, RenewalEnds
<1> HIDE DEF r
<1>2. Ready(r, TRUE, clean) /\ r.next = st.next /\ r.taken = st.taken
  BY <1>1 DEF AfterRenewal
<1>3. st \in RcStates /\ r \in RcStates /\ st.ver \in [RcTracks -> Nat]
  BY <1>2, ReadyState, StateFields
<1>4. u \in RcTracks /\ u # t /\ Other(u) = t
  BY TwoTracks
<1>5. Timely(st, time, TRUE) /\ Poised(st, t) /\ Poised(st, u)
  BY <1>4 DEF Steady
<1>6. Timely(r, time, TRUE)
  <2> DEFINE fmp4 == TRUE
  <2>1. Counted(st, fmp4)
    BY <1>5 DEF Timely
  <2>2. st.taken \subseteq r.taken
    BY <1>2
  <2> HIDE DEF fmp4
  <2>3. Counted(r, fmp4)
    BY <1>1, <1>3, <2>1, <2>2, CountedShrinks
  <2>4. Counted(r, TRUE)
    BY <2>3 DEF fmp4
  <2> QED BY <1>2, <1>5, <2>4 DEF Timely, LastTaken
<1>7. r.ver[t] = v /\ r.ver[u] = st.ver[u]
  BY <1>1, <1>3, <1>4
<1>8. /\ st.next[t] # <<>> => x.dts \in RcTimes
      /\ st.next[u] # <<>> => y.dts \in RcTimes
  BY <1>3, <1>5, PendingApart DEF Timely
<1>9. \A d \in RcTimes : Ends(r, d) \in Nat /\ Ends(st, d) \in Nat /\ Ends(r, d) <= Ends(st, d)
  BY <1>1, <1>3, EndsNat DEF Shrinks
<1>10. st.next[t] # <<>> =>
         /\ Ends(r, x.dts) <= 1
         /\ x.ver # r.ver[t]
  <2> SUFFICES ASSUME st.next[t] # <<>> PROVE Ends(r, x.dts) <= 1 /\ x.ver # r.ver[t]
    OBVIOUS
  <2>1. x.ver = st.ver[t] /\ Ends(st, x.dts) <= 1
    BY <1>5 DEF Poised
  <2>2. Ends(r, x.dts) \in Nat /\ Ends(st, x.dts) \in Nat /\ Ends(r, x.dts) <= Ends(st, x.dts)
    BY <1>8, <1>9
  <2> QED BY <1>7, <2>1, <2>2
<1>11. st.next[u] # <<>> =>
         /\ y.ver = r.ver[u] /\ Ends(r, y.dts) <= 1
         /\ (st.next[t] = <<>> /\ r.seg = <<>>) => Ends(r, y.dts) = 0
  <2> SUFFICES ASSUME st.next[u] # <<>>
               PROVE  /\ y.ver = r.ver[u] /\ Ends(r, y.dts) <= 1
                      /\ (st.next[t] = <<>> /\ r.seg = <<>>) => Ends(r, y.dts) = 0
    OBVIOUS
  <2>1. /\ y.ver = st.ver[u] /\ Ends(st, y.dts) <= 1
        /\ (st.next[t] = <<>> /\ Ends(st, y.dts) = 1) => st.seg # <<>> /\ st.seg[1].fi = "nil"
    BY <1>4, <1>5 DEF Poised
  <2>2. Ends(r, y.dts) \in Nat /\ Ends(st, y.dts) \in Nat /\ Ends(r, y.dts) <= Ends(st, y.dts)
    BY <1>8, <1>9
  <2>3. r.seg = <<>> => ~(st.seg # <<>> /\ st.seg[1].fi = "nil")
    BY <1>1 DEF Unmoved
  <2>4. ASSUME st.next[t] = <<>>, r.seg = <<>> PROVE Ends(r, y.dts) = 0
    <3>1. Ends(st, y.dts) # 1
      BY <2>1, <2>3, <2>4
    <3> QED BY <2>1, <2>2, <3>1
  <2> QED BY <1>7, <2>1, <2>2, <2>4
<1>12. Early(r, t)
  BY <1>2, <1>10, <1>11 DEF Early
<1>13. ASSUME clean, Sits(st, TRUE) PROVE Sits(r, TRUE)
  <2>1. Sound(r, TRUE) /\ KeptOrGone(r, TRUE) \subseteq KeptOrGone(st, TRUE)
    BY <1>1, <1>13 DEF Sits, Tidy
  <2> QED BY <1>2, <1>13, <2>1 DEF Sits, Precede
<1> QED BY <1>2, <1>6, <1>12, <1>13 DEF r

LEMMA SteadyIdle ==
    ASSUME NEW st, NEW time, NEW fmp4, Clocked(st.taken, time), Counted(st, fmp4),
           \A t \in RcTracks : st.next[t] = <<>>
    PROVE  Steady(st, time, fmp4)
BY DEF Steady, Timely, LastTaken, Poised

LEMMA IdleWaits ==
    ASSUME NEW next, \A t \in RcTracks : next[t] = <<>> PROVE Waiting(next) = {}
BY NoSamples DEF Waiting

\* formatMPEGTS.write, of the next sample of a track.
LEMMA TsWriteOnce ==
    ASSUME NEW st, NEW clean \in BOOLEAN, NEW time \in [RcTracks -> Nat], NEW new \in RcSamples,
           NEW spills \in BOOLEAN, Ready(st, FALSE, clean), Timely(st, time, FALSE),
           new.dts = time[new.track], \A t \in RcTracks : st.next[t] = <<>>
    PROVE  LET r == TsWrite(st, new, spills)
           IN  /\ Outcome(r, FALSE, clean) /\ r.next = st.next
               /\ Steady(r, Ticked(time, new.track), FALSE)
               /\ ~r.err /\ Sits(st, FALSE) => Sits(r, FALSE)
<1> DEFINE r == TsWrite(st, new, spills)
<1>1. st \in RcStates /\ st.taken \in SUBSET RcSamples /\ new.track \in RcTracks
  BY ReadyState, StateFields DEF RcSamples
<1>2. Clocked(st.taken, time) /\ Counted(st, FALSE)
  BY DEF Timely
<1>3. Outcome(r, FALSE, clean)
  <2> DEFINE fmp4 == FALSE
  <2>1. ~fmp4 /\ Ready(st, fmp4, clean)
    OBVIOUS
  <2> HIDE DEF fmp4, r
  <2>2. Outcome(r, fmp4, clean)
    BY ONLY <2>1, clean \in BOOLEAN, new \in RcSamples, spills \in BOOLEAN, TsWriteGood DEF r
  <2> QED BY <2>2 DEF fmp4
<1>10. TsEnds(st, r, new)
  BY ONLY clean \in BOOLEAN, new \in RcSamples, spills \in BOOLEAN, Ready(st, FALSE, clean), TsWriteLands
<1> HIDE DEF r
<1>4. /\ r.taken = st.taken \cup {new} /\ r.next = st.next
      /\ Grew(st, r, new.dts)
      /\ (~r.err /\ Sound(st, FALSE) /\ Precede(KeptOrGone(st, FALSE), {new})) => Tidy(st, r, FALSE, {new})
  BY <1>10 DEF TsEnds
<1>5. r \in RcStates
  BY <1>3 DEF Outcome, StateGood
<1>6. Counted(r, FALSE)
  BY <1>1, <1>2, <1>4, <1>5, TsCounts
<1>7. Clocked(st.taken \cup {new}, Ticked(time, new.track)) /\ Precede(st.taken, {new})
  BY <1>1, <1>2, TimeIsNew
<1>8. Steady(r, Ticked(time, new.track), FALSE)
  <2> DEFINE fmp4 == FALSE
             time2 == Ticked(time, new.track)
  <2>1. /\ Clocked(r.taken, time2) /\ Counted(r, fmp4) /\ \A t \in RcTracks : r.next[t] = <<>>
    BY <1>4, <1>6, <1>7
  <2> HIDE DEF fmp4, time2
  <2>2. Steady(r, time2, fmp4)
    BY <2>1, SteadyIdle
  <2> QED BY <2>2 DEF fmp4, time2
<1>9. ASSUME ~r.err, Sits(st, FALSE) PROVE Sits(r, FALSE)
  <2>1. KeptOrGone(st, FALSE) \subseteq st.taken /\ Sound(st, FALSE)
    BY <1>9 DEF Sits
  <2>2. Precede(KeptOrGone(st, FALSE), {new})
    BY <1>7, <2>1 DEF Precede
  <2>3. Sound(r, FALSE) /\ KeptOrGone(r, FALSE) \subseteq KeptOrGone(st, FALSE) \cup {new}
    BY <1>4, <1>9, <2>1, <2>2 DEF Tidy
  <2>4. Waiting(r.next) = {}
    BY <1>4, IdleWaits
  <2> QED BY <1>4, <2>1, <2>3, <2>4 DEF Sits, Precede
<1> QED BY <1>3, <1>4, <1>8, <1>9 DEF r

\* The pending samples are dropped.
LEMMA SoundEnds ==
    ASSUME NEW st \in RcStates, NEW m \in RcStates, NEW n \in RcStates, NEW fmp4, Tidy(st, m, fmp4, {}),
           Sits(st, fmp4), Waiting(st.next) \subseteq st.taken,
           MemOf(n, fmp4) = <<>>, MemOf(m, fmp4) = <<>>, n.seg = <<>>, n.files = m.files,
           m.gone = st.gone, n.gone = st.gone \cup Waiting(st.next), n.taken = st.taken,
           \A t \in RcTracks : n.next[t] = <<>>
    PROVE  Sits(n, fmp4)
<1> DEFINE w == Waiting(st.next)
           mem == MemOf(m, fmp4)
<1>1. Sound(m, fmp4) /\ KeptOrGone(m, fmp4) \subseteq KeptOrGone(st, fmp4)
  BY DEF Tidy
<1>2. Precede(KeptOrGone(st, fmp4), w) /\ KeptOrGone(st, fmp4) \subseteq st.taken
  BY DEF Sits
<1>3. st.taken \in SUBSET RcSamples
  BY StateFields
<1>4. \A x \in w : x \notin KeptOrGone(st, fmp4)
  BY <1>2, <1>3, NotBeforeItself DEF Precede
<1>5. \A d \in RcTimes : ToSet(n.files[d].samples) \subseteq KeptOrGone(m, fmp4)
  BY DEF KeptOrGone, Disk
<1>6. Core(n.files, <<>>, m.gone)
  BY <1>1 DEF Sound
<1>7. ToSet(<<>>) = {}
  BY NoSamples
<1> HIDE DEF w
<1>8. \A d \in RcTimes : (m.gone \cup w) \cap ToSet(n.files[d].samples) = {}
  BY <1>1, <1>4, <1>5, <1>6 DEF Core
<1>9. Core(n.files, <<>>, n.gone)
  BY <1>6, <1>7, <1>8 DEF Core, w
<1>10. fmp4 => Floored(n)
  BY <1>1 DEF Sound, Floored
<1>11. KeptOrGone(n, fmp4) \subseteq KeptOrGone(m, fmp4) \cup w
  BY <1>7 DEF KeptOrGone, w
<1>12. Waiting(n.next) = {}
  BY IdleWaits
<1> QED BY <1>1, <1>2, <1>9, <1>10, <1>11, <1>12 DEF Sits, Sound, Precede, w

\* formatFMP4.close and formatMPEGTS.close
LEMMA InstanceEndOnce ==
    ASSUME NEW st, NEW inst, NEW clean \in BOOLEAN, NEW time, StateGood(st, RcFmp4, clean), ~st.err,
           InstanceEnd(st, inst), clean => Ready(st, RcFmp4, clean) /\ Sits(st, RcFmp4),
           clean => Waiting(st.next) \subseteq st.taken,
           Clocked(st.taken, time), Counted(st, RcFmp4)
    PROVE  /\ Steady(Now("none")', time, RcFmp4) /\ rcSeen' = {} /\ \A t \in RcTracks : rcNext'[t] = <<>>
           /\ clean => Sits(Now("none")', RcFmp4)
<1> DEFINE ended == IF st.seg = NoSeg THEN st
                    ELSE IF rcFormat = "fmp4" THEN Fmp4SegmentClose(st) ELSE TsSegmentClose(st)
           pend == UNION {ToSet(ended.next[t]) : t \in RcTracks}
           nx == [t \in RcTracks |-> <<>>]
           Left(gone) == [seg |-> <<>>, next |-> nx, ver |-> ended.ver, hasVideo |-> FALSE,
                          buf |-> <<>>, files |-> ended.files, taken |-> ended.taken,
                          gone |-> gone, fault |-> "none", err |-> FALSE]
           n == Left(ended.gone \cup pend)
           m == Left(ended.gone)
<1>1. st \in RcStates
  BY DEF StateGood
<1>2. /\ StateGood(ended, RcFmp4, clean) /\ SameTracks(st, ended) /\ Shrinks(st, ended)
      /\ clean => IF st.seg = <<>> THEN ended.files = st.files /\ st.buf = <<>>
                  ELSE Lands(st.files, ended.files, st.seg[1].start, MemOf(st, RcFmp4))
  <2>1. CASE st.seg = <<>>
    <3>1. ended = st
      BY <2>1 DEF NoSeg
    <3> HIDE DEF ended
    <3>2. clean => st.buf = <<>>
      BY <2>1 DEF Ready
    <3>3. Shrinks(st, st)
      BY <1>1, ShrinksIf
    <3> QED BY <2>1, <3>1, <3>2, <3>3 DEF SameTracks
  <2>2. CASE st.seg # <<>> /\ rcFormat = "fmp4"
    <3>1. ended = Fmp4SegmentClose(st) /\ RcFmp4
      BY <2>2 DEF NoSeg, RcFmp4
    <3> HIDE DEF ended
    <3>2. /\ StateGood(ended, RcFmp4, clean) /\ SameTracks(st, ended)
          /\ ended.err => ~clean \/ st.seg[1].fi = "closed"
      BY <2>2, <3>1, SegmentCloseGood
    <3>3. clean => st.seg[1].fi # "closed"
      BY <2>2 DEF Ready
    <3>4. /\ Shrinks(st, ended)
          /\ ~ended.err => Lands(st.files, ended.files, st.seg[1].start, st.seg[1].part)
      BY <2>2, <3>1, SegmentCloseLands
    <3>5. MemOf(st, RcFmp4) = st.seg[1].part
      BY <2>2, <3>1 DEF MemOf
    <3> QED BY <2>2, <3>2, <3>3, <3>4, <3>5
  <2>3. CASE st.seg # <<>> /\ rcFormat # "fmp4"
    <3>1. ended = TsSegmentClose(st) /\ ~RcFmp4
      BY <2>3 DEF NoSeg, RcFmp4
    <3> HIDE DEF ended
    <3>2. /\ StateGood(ended, RcFmp4, clean) /\ SameTracks(st, ended)
          /\ ended.err => ~clean \/ st.seg[1].fi = "closed"
      BY <2>3, <3>1, TsSegmentCloseGood
    <3>3. clean => st.seg[1].fi # "closed"
      BY <2>3 DEF Ready
    <3>4. /\ Shrinks(st, ended)
          /\ ~ended.err => Lands(st.files, ended.files, st.seg[1].start, st.buf)
      BY <2>3, <3>1, TsSegmentCloseLands
    <3>5. MemOf(st, RcFmp4) = st.buf
      BY <3>1 DEF MemOf
    <3> QED BY <2>3, <3>2, <3>3, <3>4, <3>5
  <2> QED BY <2>1, <2>2, <2>3
<1>3. Now("none")' = n /\ rcSeen' = {} /\ rcNext' = nx
  BY Zenon DEF InstanceEnd, Now, NoSeg
<1> HIDE DEF ended
<1>4. /\ ended.ver \in [RcTracks -> Nat] /\ ended.files \in [RcTimes -> RcFileSet]
      /\ ended.taken \in SUBSET RcSamples /\ ended.gone \in SUBSET RcSamples
      /\ ended.next \in [RcTracks -> Seq(RcSamples)] /\ ended \in RcStates
  BY <1>2, StateFields DEF StateGood
<1>5. pend \in SUBSET RcSamples
  <2> SUFFICES ASSUME NEW t \in RcTracks PROVE ToSet(ended.next[t]) \subseteq RcSamples
    OBVIOUS
  <2>1. ended.next[t] \in Seq(RcSamples)
    BY <1>4
  <2> QED BY <2>1 DEF ToSet
<1>6. pend = Waiting(st.next)
  BY <1>2 DEF Waiting, SameTracks
<1> HIDE DEF pend
<1>7. \A gone \in SUBSET RcSamples :
        /\ Left(gone) \in RcStates /\ Left(gone).seg = <<>> /\ Left(gone).buf = <<>>
        /\ Left(gone).files = ended.files /\ Left(gone).taken = ended.taken /\ Left(gone).gone = gone
        /\ \A t \in RcTracks : Left(gone).next[t] = <<>>
  <2>1. nx \in [RcTracks -> Seq(RcSamples)] /\ <<>> \in Seq(RcSegments) /\ <<>> \in Seq(RcSamples)
        /\ "none" \in FaultKinds /\ \A t \in RcTracks : nx[t] = <<>>
    BY DEF FaultKinds
  <2> HIDE DEF nx
  <2> QED BY <1>4, <2>1 DEF RcStates
<1> HIDE DEF Left
<1>8. ended.gone \cup pend \in SUBSET RcSamples
  BY <1>4, <1>5
<1>9. /\ n \in RcStates /\ n.seg = <<>> /\ n.buf = <<>> /\ n.files = ended.files /\ n.taken = st.taken
      /\ n.gone = st.gone \cup Waiting(st.next) /\ \A t \in RcTracks : n.next[t] = <<>>
  BY <1>2, <1>6, <1>7, <1>8 DEF SameTracks
<1>10. /\ m \in RcStates /\ m.seg = <<>> /\ m.buf = <<>> /\ m.files = ended.files /\ m.gone = st.gone
  BY <1>2, <1>4, <1>7 DEF SameTracks
<1> HIDE DEF n, m
<1>11. Steady(n, time, RcFmp4)
  <2>1. Shrinks(ended, n)
    <3>1. \A d \in RcTimes : Live(n.seg, d) => Live(ended.seg, d)
      BY <1>9 DEF Live
    <3> QED BY <1>4, <1>9, <3>1, ShrinksIf
  <2>2. Shrinks(st, n)
    BY <1>1, <1>2, <1>4, <1>9, <2>1, ShrinksTwice
  <2>3. st.taken \subseteq n.taken
    BY <1>9
  <2>4. Counted(n, RcFmp4)
    BY <1>1, <1>9, <2>2, <2>3, CountedShrinks
  <2>5. Clocked(n.taken, time)
    BY <1>9
  <2> QED BY <1>9, <2>4, <2>5, SteadyIdle
<1>12. ASSUME clean PROVE Sits(n, RcFmp4)
  <2>1. Sound(st, RcFmp4) /\ Sits(st, RcFmp4)
    BY <1>12 DEF Sits
  <2>2. MemOf(m, RcFmp4) = <<>> /\ MemOf(n, RcFmp4) = <<>>
    BY <1>9, <1>10 DEF MemOf
  <2>3. Tidy(st, m, RcFmp4, {})
    <3>1. CASE st.seg = <<>>
      <4>1. m.files = st.files /\ MemOf(st, RcFmp4) = <<>>
        BY <1>2, <1>10, <1>12, <3>1 DEF MemOf
      <4>2. MemOf(m, RcFmp4) = MemOf(st, RcFmp4) /\ m.seg = <<>> /\ m.gone = st.gone
        BY <1>10, <2>2, <4>1
      <4>3. Sound(m, RcFmp4) /\ KeptOrGone(m, RcFmp4) = KeptOrGone(st, RcFmp4)
        BY <2>1, <4>1, <4>2, SoundSame
      <4> QED BY <4>3 DEF Tidy
    <3>2. CASE st.seg # <<>>
      <4>1. Lands(st.files, m.files, st.seg[1].start, MemOf(st, RcFmp4))
        BY <1>2, <1>10, <1>12, <3>2
      <4> QED BY <1>1, <1>10, <2>1, <2>2, <3>2, <4>1, SoundLands
    <3> QED BY <3>1, <3>2
  <2>4. Waiting(st.next) \subseteq st.taken /\ n.files = m.files
    BY <1>9, <1>10, <1>12
  <2> QED BY <1>1, <1>9, <1>10, <2>1, <2>2, <2>3, <2>4, SoundEnds
<1>13. \A t \in RcTracks : rcNext'[t] = <<>>
  BY <1>3
<1> QED BY <1>3, <1>11, <1>12, <1>13

\* Only what the writes do not look at differs.
LEMMA SameWhere ==
    ASSUME NEW st, NEW n, NEW time, NEW fmp4,
           n.seg = st.seg, n.next = st.next, n.ver = st.ver, n.files = st.files,
           n.buf = st.buf, n.taken = st.taken, n.gone = st.gone
    PROVE  /\ Steady(st, time, fmp4) => Steady(n, time, fmp4)
           /\ Sits(st, fmp4) => Sits(n, fmp4)
<1>1. ASSUME Steady(st, time, fmp4) PROVE Steady(n, time, fmp4)
  <2>1. \A d : Ends(n, d) = Ends(st, d)
    BY DEF Ends
  <2>2. Counted(n, fmp4) /\ Clocked(n.taken, time)
    BY <1>1, <2>1 DEF Counted, Steady, Timely
  <2>3. \A t \in RcTracks : LastTaken(n, time, t)
    BY <1>1 DEF Steady, Timely, LastTaken
  <2>4. \A t \in RcTracks : Poised(n, t)
    BY <1>1, <2>1 DEF Steady, Poised
  <2> QED BY <2>2, <2>3, <2>4 DEF Steady, Timely
<1>2. ASSUME Sits(st, fmp4) PROVE Sits(n, fmp4)
  <2>1. MemOf(n, fmp4) = MemOf(st, fmp4)
    BY DEF MemOf
  <2>2. KeptOrGone(n, fmp4) = KeptOrGone(st, fmp4)
    BY <2>1 DEF KeptOrGone
  <2>3. Sound(n, fmp4)
    BY <1>2, <2>1 DEF Sits, Sound, Floored
  <2> QED BY <1>2, <2>2, <2>3 DEF Sits
<1> QED BY <1>1, <1>2

\* A callback returns.
LEMMA SettleOnce ==
    ASSUME NEW st, NEW clean \in BOOLEAN, NEW time, Outcome(st, RcFmp4, clean), Settle(st),
           Clocked(st.taken, time), Counted(st, RcFmp4),
           ~st.err => Steady(st, time, RcFmp4),
           (~st.err /\ clean) => Sits(st, RcFmp4)
    PROVE  /\ Steady(Now("none")', time, RcFmp4)
           /\ st.err => rcSeen' = {} /\ \A t \in RcTracks : rcNext'[t] = <<>>
           /\ ~st.err => rcNext' = st.next
           /\ clean => Sits(Now("none")', RcFmp4)
<1>1. CASE st.err
  <2> DEFINE c == [st EXCEPT !.err = FALSE, !.buf = <<>>]
  <2>1. InstanceEnd(c, "paused")
    BY <1>1 DEF Settle
  <2>2. StateGood(st, RcFmp4, clean) /\ FALSE \in BOOLEAN /\ ~clean /\ st \in RcStates
    BY <1>1 DEF Outcome, StateGood
  <2>3. /\ StateGood(c, RcFmp4, clean) /\ ~c.err
        /\ c.taken = st.taken /\ c.files = st.files /\ c.seg = st.seg
    BY <2>2, GivenUp
  <2> HIDE DEF c
  <2>5. Counted(c, RcFmp4) /\ Clocked(c.taken, time)
    BY <2>3 DEF Counted, Ends
  <2>6. /\ clean => Ready(c, RcFmp4, clean) /\ Sits(c, RcFmp4)
        /\ clean => Waiting(c.next) \subseteq c.taken
    BY <2>2
  <2> DEFINE inst == "paused"
  <2>7. InstanceEnd(c, inst)
    BY <2>1
  <2> HIDE DEF inst
  <2>8. /\ Steady(Now("none")', time, RcFmp4) /\ rcSeen' = {} /\ \A t \in RcTracks : rcNext'[t] = <<>>
    BY ONLY <2>3, <2>5, <2>6, <2>7, clean \in BOOLEAN, InstanceEndOnce
  <2> QED BY <1>1, <2>2, <2>8
<1>2. CASE ~st.err
  <2> DEFINE n == [seg |-> st.seg, next |-> st.next, ver |-> st.ver, hasVideo |-> st.hasVideo,
                   buf |-> st.buf, files |-> st.files, taken |-> st.taken, gone |-> st.gone,
                   fault |-> "none", err |-> FALSE]
  <2>1. /\ rcSeg' = st.seg /\ rcNext' = st.next /\ rcVer' = st.ver
        /\ rcHasVideo' = st.hasVideo /\ rcBuf' = st.buf /\ rcFiles' = st.files
        /\ rcTaken' = st.taken /\ rcGone' = st.gone
    BY <1>2 DEF Settle
  <2>2. Now("none")' = n
    BY Zenon, <2>1 DEF Now
  <2>3. /\ n.seg = st.seg /\ n.next = st.next /\ n.ver = st.ver /\ n.files = st.files
        /\ n.buf = st.buf /\ n.taken = st.taken /\ n.gone = st.gone
    OBVIOUS
  <2> HIDE DEF n
  <2>4. Steady(n, time, RcFmp4) /\ (clean => Sits(n, RcFmp4))
    BY <1>2, <2>3, SameWhere
  <2> QED BY <1>2, <2>1, <2>2, <2>4
<1> QED BY <1>1, <1>2

\* The beginning of a callback: the parameters of its track may be renewed.
RenewedTo(start, t, codec) ==
    \E v \in Nat : /\ LaterVer(start.ver, t, v) /\ v # start.ver[t]
                   /\ codec = UpdateCodecs(PutVer(start, t, v))

LEMMA CallbackOnce ==
    ASSUME NEW start, NEW codec, NEW clean \in BOOLEAN, NEW t \in RcTracks, NEW time \in [RcTracks -> Nat],
           Ready(start, TRUE, clean), Steady(start, time, TRUE), clean => Sits(start, TRUE),
           codec = start \/ RenewedTo(start, t, codec)
    PROVE  /\ Ready(codec, TRUE, clean) /\ codec.next = start.next
           /\ Timely(codec, time, TRUE) /\ Early(codec, t) /\ (clean => Sits(codec, TRUE))
<1>1. CASE codec = start
  BY <1>1, SteadyIsEarly
<1>2. CASE RenewedTo(start, t, codec)
  <2>1. PICK v \in Nat : /\ LaterVer(start.ver, t, v) /\ v # start.ver[t]
                         /\ codec = UpdateCodecs(PutVer(start, t, v))
    BY <1>2 DEF RenewedTo
  <2> QED BY <2>1, RenewalOnce
<1> QED BY <1>1, <1>2

\* Its end, in fMP4: one or two samples are written.
Elapsed(time, t, twice) == IF twice THEN Ticked(Ticked(time, t), t) ELSE Ticked(time, t)
WriteUnit(st, one, two, twice) ==
    LET w == TrackWrite(st, one)
    IN  IF ~twice \/ w.err THEN w ELSE TrackWrite(w, two)

LEMMA UnitOnce ==
    ASSUME NEW st, NEW clean \in BOOLEAN, NEW t \in RcTracks, NEW time \in [RcTracks -> Nat], NEW one, NEW two,
           NEW twice \in BOOLEAN, Ready(st, TRUE, clean), Due(st, time, one), one.track = t,
           twice => two \in RcSamples /\ two.track = t /\ two.dts = time[t] + 2 /\ two.ver = st.ver[t]
    PROVE  Wrote(st, WriteUnit(st, one, two, twice), t, Elapsed(time, t, twice), clean)
<1> DEFINE w == TrackWrite(st, one)
           r == WriteUnit(st, one, two, twice)
           time1 == Ticked(time, t)
<1>1. Wrote(st, w, t, time1, clean)
  BY TrackWriteOnce
<1>2. r = IF ~twice \/ w.err THEN w ELSE TrackWrite(w, two)
  BY DEF WriteUnit
<1> HIDE DEF w, r
<1>3. w \in RcStates
  BY <1>1 DEF Wrote, Outcome, StateGood
<1>4. /\ time1 \in [RcTracks -> Nat] /\ time1[t] = time[t] + 2
      /\ Clocked(w.taken, Ticked(time1, t))
  <2>1. time1 \in [RcTracks -> Nat] /\ time1[t] = time[t] + 2
    BY DEF Ticked
  <2>2. w.taken \in SUBSET RcSamples
    BY <1>3, StateFields
  <2> HIDE DEF time1
  <2> QED BY <1>1, <2>1, <2>2, ClockTicks DEF Wrote
<1>5. Elapsed(time, t, twice) = IF twice THEN Ticked(time1, t) ELSE time1
  BY DEF Elapsed
<1> HIDE DEF time1
<1>6. CASE ~twice
  <2>1. r = w /\ Elapsed(time, t, twice) = time1
    BY <1>2, <1>5, <1>6
  <2> QED BY <1>1, <2>1 DEF r
<1>7. CASE twice /\ w.err
  <2>1. r = w /\ Elapsed(time, t, twice) = Ticked(time1, t)
    BY <1>2, <1>5, <1>7
  <2> QED BY <1>1, <1>4, <1>7, <2>1 DEF Wrote, r
<1>8. CASE twice /\ ~w.err
  <2> DEFINE z == TrackWrite(w, two)
  <2>1. r = z /\ Elapsed(time, t, twice) = Ticked(time1, t)
    BY <1>2, <1>5, <1>8
  <2>2. two \in RcSamples /\ two.track = t /\ two.dts = time1[two.track] /\ two.ver = w.ver[two.track]
    BY <1>1, <1>4, <1>8 DEF Wrote
  <2>3. Ready(w, TRUE, clean) /\ Timely(w, time1, TRUE) /\ Early(w, two.track)
    BY <1>1, <1>8, <2>2, SteadyIsEarly DEF Wrote, Outcome
  <2>4. Due(w, time1, two)
    BY <2>2, <2>3 DEF Due
  <2>5. Wrote(w, z, two.track, Ticked(time1, two.track), clean)
    BY <1>4, <2>3, <2>4, TrackWriteOnce
  <2> HIDE DEF z
  <2>6. Wrote(w, r, t, Ticked(time1, t), clean)
    BY <2>1, <2>2, <2>5
  <2> QED BY <1>1, <1>8, <2>1, <2>6 DEF Wrote, r
<1> QED BY <1>6, <1>7, <1>8

\* A callback works on a copy of the state.
LEMMA CallbackState ==
    ASSUME RcInv, NEW fault \in FaultKinds, NEW clean \in BOOLEAN, clean => RcClean /\ fault = "none"
    PROVE  LET start == Now(fault)
           IN  /\ Ready(start, RcFmp4, clean) /\ start.seg = rcSeg /\ start.next = rcNext
               /\ start.ver = rcVer /\ start.files = rcFiles /\ start.buf = rcBuf
               /\ start.taken = rcTaken /\ start.gone = rcGone
<1> DEFINE now == Now("none")
           start == Now(fault)
<1>1. /\ start.seg = rcSeg /\ start.next = rcNext /\ start.ver = rcVer
      /\ start.files = rcFiles /\ start.fault = fault /\ start.err = FALSE
      /\ start.buf = rcBuf /\ start.taken = rcTaken /\ start.gone = rcGone
  BY DEF Now
<1>2. Ready(now, RcFmp4, RcClean) /\ now \in RcStates
  BY DEF RcInv, Ready, StateGood
<1>3. /\ now.seg = rcSeg /\ now.next = rcNext /\ now.ver = rcVer /\ now.hasVideo = rcHasVideo
      /\ now.buf = rcBuf /\ now.files = rcFiles /\ now.taken = rcTaken /\ now.gone = rcGone
      /\ now.err = FALSE
  BY NowFields
<1> HIDE DEF now
<1>4. start \in RcStates
  BY <1>2, <1>3, StateFields DEF RcStates, Now
<1> HIDE DEF start
<1>5. Ready(start, RcFmp4, clean)
  BY <1>1, <1>2, <1>3, <1>4, CallbackBegins
<1> QED BY <1>1, <1>5 DEF start

\* What a callback leaves behind.
CallbackLeft(r, time, fmp4, clean) ==
    /\ Outcome(r, fmp4, clean) /\ Clocked(r.taken, time) /\ Counted(r, fmp4)
    /\ ~r.err => Steady(r, time, fmp4)
    /\ (~r.err /\ clean) => Sits(r, fmp4)

\* The inductive invariant: between two units every sample is in its place, and
\* a track that was not seen, or writes MPEG-TS, has none pending.
Idle == \A t \in RcTracks : (t \notin rcSeen \/ ~RcFmp4) => rcNext[t] = <<>>
RcSoundInv ==
    /\ RcInv /\ Steady(Now("none"), rcTime, RcFmp4) /\ Idle
    /\ RcClean => Sits(Now("none"), RcFmp4)

LEMMA RecordUnitOnce ==
    ASSUME RcSoundInv, NEW t \in RcTracks, RecordUnit(t)
    PROVE  RcSoundInv'
<1>1. PICK fault \in FaultKinds, key \in BOOLEAN, ver \in 0..2, spills \in BOOLEAN :
        LET cb == Callback(rcFormat, rcCodecs[t])
            codec == RenewedBy(t, ver, fault)
            wrote == UnitWrite(codec, t, key, spills)
        IN  /\ rcTime[t] + 2 * cb.samples <= MaxDts + 2
            /\ rcFaults' = IF fault = "none" THEN rcFaults ELSE rcFaults + 1
            /\ ver \in {rcVer[t], rcVer[t] + 1} /\ (ver # rcVer[t] => key)
            /\ rcTime' = [rcTime EXCEPT ![t] = @ + 2 * cb.samples]
            /\ IF cb.waits /\ t \notin rcSeen /\ ~key
               THEN Settle(codec) /\ UNCHANGED rcSeen
               ELSE /\ Settle(wrote)
                    /\ ~wrote.err => rcSeen' = rcSeen \cup {t}
            /\ UNCHANGED <<rcFormat, rcCodecs>>
  BY DEF RecordUnit
<1> DEFINE cb == Callback(rcFormat, rcCodecs[t])
           start == Now(fault)
           renewed == cb.renews # "none" /\ ver # rcVer[t]
           codec == RenewedBy(t, ver, fault)
           one == Sample(t, rcTime[t], key, codec.ver[t])
           two == Sample(t, rcTime[t] + 2, key, codec.ver[t])
           w == TrackWrite(codec, one)
           wrote == UnitWrite(codec, t, key, spills)
           clean == rcFaults' = 0
           twice == cb.samples # 1
           waits == cb.waits /\ t \notin rcSeen /\ ~key
<1>2. /\ rcTime[t] + 2 * cb.samples <= MaxDts + 2
      /\ rcFaults' = IF fault = "none" THEN rcFaults ELSE rcFaults + 1
      /\ ver \in {rcVer[t], rcVer[t] + 1} /\ (ver # rcVer[t] => key)
      /\ rcTime' = [rcTime EXCEPT ![t] = @ + 2 * cb.samples]
      /\ rcFormat' = rcFormat
      /\ waits => Settle(codec) /\ rcSeen' = rcSeen
      /\ ~waits => Settle(wrote) /\ (~wrote.err => rcSeen' = rcSeen \cup {t})
  <2>1. rcFormat' = rcFormat
    BY <1>1
  <2> QED BY Zenon, <1>1, <2>1
<1>3. /\ codec = IF renewed THEN UpdateCodecs([start EXCEPT !.ver[t] = ver]) ELSE start
      /\ wrote = IF rcFormat = "mpegts" THEN TsWrite(codec, one, spills)
                   ELSE IF cb.samples = 1 \/ w.err THEN w ELSE TrackWrite(w, two)
  <2>1. codec = IF renewed THEN UpdateCodecs([start EXCEPT !.ver[t] = ver]) ELSE start
    BY Zenon DEF RenewedBy
  <2> HIDE DEF codec
  <2>2. wrote = IF rcFormat = "mpegts" THEN TsWrite(codec, one, spills)
                  ELSE IF cb.samples = 1 \/ w.err THEN w ELSE TrackWrite(w, two)
    BY Zenon DEF UnitWrite
  <2> QED BY <2>1, <2>2
<1> HIDE DEF codec, wrote
<1>4. cb.samples \in {1, 2}
  BY CallbackSamples
<1>5. (renewed => rcFormat # "mpegts") /\ (rcFormat = "mpegts" => cb.samples = 1)
  <2> DEFINE c == rcCodecs[t]
  <2>1. rcFormat = "mpegts" => Callback(rcFormat, c).renews = "none" /\ Callback(rcFormat, c).samples = 1
    <3> HIDE DEF c
    <3>1. Callback("mpegts", c).samples = 1
      BY DEF Callback, Cb, TsH26x, TsOldVideo, TsAudio
    <3> QED BY <3>1, TsRenewsNothing
  <2> QED BY <2>1
<1> HIDE DEF cb
<1>6. RcInv /\ RcInv'
  BY RecordUnitGood DEF RcSoundInv
<1>7. /\ rcFaults \in Nat /\ rcTime \in [RcTracks -> 0..(MaxDts + 2)] /\ MaxDts \in Nat
      /\ rcFormat \in {"fmp4", "mpegts"} /\ rcTime \in [RcTracks -> Nat]
  BY <1>6, RcBounds DEF RcInv, RcTypes
<1>8. rcTime[t] \in RcTimes /\ (twice => rcTime[t] + 2 \in RcTimes) /\ rcTime[t] \in Nat
  <2>1. rcTime[t] \in 0..(MaxDts + 2)
    BY <1>7
  <2> QED BY <1>2, <1>4, <1>7, <2>1 DEF RcTimes
<1>9. clean \in BOOLEAN /\ (clean => RcClean /\ fault = "none") /\ twice \in BOOLEAN
  BY <1>2, <1>7 DEF RcClean
<1>10. rcTime' = Elapsed(rcTime, t, twice)
  <2>1. CASE cb.samples = 1
    BY <1>2, <1>7, <2>1 DEF Elapsed, Ticked
  <2>2. CASE cb.samples = 2
    <3>1. rcTime' = [rcTime EXCEPT ![t] = rcTime[t] + 4]
      BY <1>2, <1>7, <1>8, <2>2
    <3>2. Ticked(Ticked(rcTime, t), t) = [rcTime EXCEPT ![t] = rcTime[t] + 4]
      <4> DEFINE a == Ticked(rcTime, t)
                 b == Ticked(a, t)
      <4>1. a \in [RcTracks -> Nat] /\ a[t] = rcTime[t] + 2 /\ \A u \in RcTracks : u # t => a[u] = rcTime[u]
        BY <1>7 DEF Ticked
      <4> HIDE DEF a
      <4>2. b \in [RcTracks -> Nat] /\ b[t] = a[t] + 2 /\ \A u \in RcTracks : u # t => b[u] = a[u]
        BY <4>1 DEF Ticked
      <4> HIDE DEF b
      <4>3. b = [rcTime EXCEPT ![t] = rcTime[t] + 4]
        BY <1>7, <1>8, <4>1, <4>2
      <4> QED BY <4>3 DEF a, b
    <3>3. Elapsed(rcTime, t, twice) = Ticked(Ticked(rcTime, t), t)
      BY <2>2 DEF Elapsed
    <3> QED BY <3>1, <3>2, <3>3
  <2> QED BY <1>4, <2>1, <2>2
<1> HIDE DEF clean, twice
<1>11. /\ Ready(start, RcFmp4, clean) /\ start.seg = rcSeg /\ start.next = rcNext
       /\ start.ver = rcVer /\ start.files = rcFiles /\ start.buf = rcBuf
       /\ start.taken = rcTaken /\ start.gone = rcGone
  BY <1>6, <1>9, CallbackState
<1> HIDE DEF start
<1>12. Steady(start, rcTime, RcFmp4) /\ (clean => Sits(start, RcFmp4))
  <2> DEFINE now == Now("none")
  <2>1. Steady(now, rcTime, RcFmp4) /\ (RcClean => Sits(now, RcFmp4))
    BY DEF RcSoundInv
  <2>2. /\ now.seg = rcSeg /\ now.next = rcNext /\ now.ver = rcVer /\ now.files = rcFiles
        /\ now.buf = rcBuf /\ now.taken = rcTaken /\ now.gone = rcGone
    BY NowFields
  <2> HIDE DEF now
  <2> QED BY <1>9, <1>11, <2>1, <2>2, SameWhere
<1>13. rcVer[t] \in Nat /\ start.ver \in [RcTracks -> Nat]
  BY <1>11, ReadyState, StateFields
<1>14. codec = start \/ (RenewedTo(start, t, codec) /\ RcFmp4)
  <2>1. CASE renewed
    <3>1. [start EXCEPT !.ver[t] = ver] = PutVer(start, t, ver)
      BY Zenon DEF PutVer
    <3>2. codec = UpdateCodecs([start EXCEPT !.ver[t] = ver])
      BY <1>3, <2>1
    <3>3. codec = UpdateCodecs(PutVer(start, t, ver))
      BY Zenon, <3>1, <3>2
    <3>4. LaterVer(start.ver, t, ver) /\ ver # start.ver[t] /\ ver \in Nat
      BY <1>2, <1>11, <1>13, <2>1 DEF LaterVer
    <3>5. RcFmp4
      BY <1>5, <1>7, <2>1 DEF RcFmp4
    <3>6. RenewedTo(start, t, codec)
      BY ONLY <3>3, <3>4 DEF RenewedTo
    <3> QED BY <3>5, <3>6
  <2>2. CASE ~renewed
    BY <1>3, <2>2
  <2> QED BY <2>1, <2>2
<1>15. codec.ver \in [RcTracks -> Nat] /\ Ready(codec, RcFmp4, clean)
  <2>1. CASE codec = start
    BY <1>11, <1>13, <2>1
  <2>2. CASE RenewedTo(start, t, codec) /\ RcFmp4
    <3>1. PICK v \in Nat : /\ LaterVer(start.ver, t, v) /\ codec = UpdateCodecs(PutVer(start, t, v))
      BY <2>2 DEF RenewedTo
    <3>2. Ready(codec, RcFmp4, clean)
      BY <1>9, <1>11, <2>2, <3>1, UpdateCodecsGood DEF AfterRenewal
    <3> QED BY <3>2, ReadyState, StateFields
  <2> QED BY <1>14, <2>1, <2>2
<1>16. /\ one \in RcSamples /\ one.track = t /\ one.dts = rcTime[t] /\ one.ver = codec.ver[t]
       /\ twice => two \in RcSamples /\ two.track = t /\ two.dts = rcTime[t] + 2 /\ two.ver = codec.ver[t]
  <2>1. codec.ver[t] \in Nat
    BY <1>15
  <2> QED BY <1>8, <2>1 DEF Sample, RcSamples
<1> HIDE DEF one, two
<1>17. /\ ~waits => CallbackLeft(wrote, rcTime', RcFmp4, clean)
       /\ ~waits /\ ~wrote.err => \A u \in RcTracks : (u # t \/ ~RcFmp4) => wrote.next[u] = rcNext[u]
  <2>1. CASE RcFmp4
    <3>1. RcFmp4 = TRUE /\ rcFormat # "mpegts"
      BY <2>1 DEF RcFmp4
    <3>2. Ready(start, TRUE, clean) /\ Steady(start, rcTime, TRUE) /\ (clean => Sits(start, TRUE))
      BY Zenon, <1>11, <1>12, <3>1
    <3>3. codec = start \/ RenewedTo(start, t, codec)
      BY <1>14
    <3>4. /\ Ready(codec, TRUE, clean) /\ codec.next = start.next
          /\ Timely(codec, rcTime, TRUE) /\ Early(codec, t) /\ (clean => Sits(codec, TRUE))
      BY <1>7, <1>9, <3>2, <3>3, CallbackOnce
    <3>5. wrote = WriteUnit(codec, one, two, twice)
      BY <1>3, <3>1 DEF WriteUnit, twice
    <3> HIDE DEF w
    <3>6. Due(codec, rcTime, one)
      BY <1>16, <3>4 DEF Due
    <3>7. Wrote(codec, wrote, t, Elapsed(rcTime, t, twice), clean)
      BY <1>7, <1>9, <1>16, <3>4, <3>5, <3>6, UnitOnce
    <3>8. Wrote(codec, wrote, t, rcTime', clean)
      BY Zenon, <1>10, <3>7
    <3>9. CallbackLeft(wrote, rcTime', TRUE, clean)
      BY <3>4, <3>8 DEF Wrote, CallbackLeft
    <3>10. CallbackLeft(wrote, rcTime', RcFmp4, clean)
      BY Zenon, <3>1, <3>9
    <3> QED BY <1>11, <2>1, <3>4, <3>8, <3>10 DEF Wrote
  <2>2. CASE ~RcFmp4
    <3>1. RcFmp4 = FALSE /\ rcFormat = "mpegts" /\ ~twice
      BY <1>5, <1>7, <2>2 DEF RcFmp4, twice
    <3>2. codec = start
      BY <1>14, <2>2
    <3>3. Ready(start, FALSE, clean) /\ Steady(start, rcTime, FALSE) /\ (clean => Sits(start, FALSE))
      BY Zenon, <1>11, <1>12, <3>1
    <3>4. \A u \in RcTracks : start.next[u] = <<>>
      BY <1>11, <2>2 DEF RcSoundInv, Idle
    <3>5. wrote = TsWrite(start, one, spills)
      BY <1>3, <3>1, <3>2
    <3>6. Timely(start, rcTime, FALSE)
      BY <3>3 DEF Steady
    <3> HIDE DEF w
    <3>7. /\ Outcome(wrote, FALSE, clean) /\ wrote.next = start.next
          /\ Steady(wrote, Ticked(rcTime, one.track), FALSE)
          /\ ~wrote.err /\ Sits(start, FALSE) => Sits(wrote, FALSE)
      BY <1>7, <1>9, <1>16, <3>3, <3>4, <3>5, <3>6, TsWriteOnce
    <3>8. rcTime' = Ticked(rcTime, one.track)
      BY <1>10, <1>16, <3>1 DEF Elapsed
    <3>9. Steady(wrote, rcTime', FALSE)
      BY <3>7, <3>8
    <3>10. Clocked(wrote.taken, rcTime') /\ Counted(wrote, FALSE)
      BY <3>9 DEF Steady, Timely
    <3>11. CallbackLeft(wrote, rcTime', FALSE, clean)
      BY <3>3, <3>7, <3>9, <3>10 DEF CallbackLeft
    <3>12. CallbackLeft(wrote, rcTime', RcFmp4, clean)
      BY Zenon, <3>1, <3>11
    <3> QED BY <1>11, <3>7, <3>12
  <2> QED BY <2>1, <2>2
<1>18. /\ Steady(Now("none")', rcTime', RcFmp4) /\ (clean => Sits(Now("none")', RcFmp4))
       /\ \A u \in RcTracks : (u \notin rcSeen' \/ ~RcFmp4) => rcNext'[u] = <<>>
  <2>1. CASE waits
    <3>1. codec = start /\ rcNext[t] = <<>>
      <4>1. ~renewed
        BY <1>2, <2>1
      <4>2. codec = start
        BY <1>3, <4>1
      <4> QED BY <2>1, <4>2 DEF RcSoundInv, Idle
    <3>2. start \in RcStates /\ start.taken \in SUBSET RcSamples /\ ~start.err /\ Outcome(start, RcFmp4, clean)
      BY <1>11, ReadyState, StateFields DEF Ready, Outcome
    <3>3. Clocked(start.taken, rcTime') /\ Counted(start, RcFmp4)
      <4>1. Clocked(start.taken, rcTime) /\ Counted(start, RcFmp4)
        BY <1>12 DEF Steady, Timely
      <4>2. Clocked(start.taken, Ticked(rcTime, t)) /\ Ticked(rcTime, t) \in [RcTracks -> Nat]
        BY <1>7, <3>2, <4>1, ClockTicks
      <4>3. Clocked(start.taken, Ticked(Ticked(rcTime, t), t))
        BY <3>2, <4>2, ClockTicks
      <4> QED BY <1>10, <4>1, <4>2, <4>3 DEF Elapsed
    <3>4. Steady(start, rcTime', RcFmp4)
      <4>1. \A u \in RcTracks : u # t => rcTime'[u] = rcTime[u]
        BY <1>2, <1>7
      <4>2. \A u \in RcTracks : LastTaken(start, rcTime', u)
        <5> SUFFICES ASSUME NEW u \in RcTracks, start.next[u] # <<>>
                     PROVE  /\ start.next[u][1].track = u /\ start.next[u][1] \in start.taken
                            /\ start.next[u][1].dts + 2 = rcTime'[u]
          BY DEF LastTaken
        <5>1. u # t
          BY <1>11, <3>1
        <5>2. rcTime'[u] = rcTime[u]
          BY <4>1, <5>1
        <5>3. LastTaken(start, rcTime, u)
          BY <1>12 DEF Steady, Timely
        <5> QED BY <5>2, <5>3 DEF LastTaken
      <4> QED BY <1>12, <3>3, <4>2 DEF Steady, Timely
    <3>5. Settle(start) /\ rcSeen' = rcSeen
      BY <1>2, <2>1, <3>1
    <3>6. /\ Steady(Now("none")', rcTime', RcFmp4) /\ rcNext' = start.next
          /\ clean => Sits(Now("none")', RcFmp4)
      BY <1>9, <1>12, <3>2, <3>3, <3>4, <3>5, SettleOnce
    <3>7. \A u \in RcTracks : (u \notin rcSeen' \/ ~RcFmp4) => rcNext'[u] = <<>>
      BY <1>11, <3>5, <3>6 DEF RcSoundInv, Idle
    <3> QED BY <3>6, <3>7
  <2>2. CASE ~waits
    <3>1. /\ Outcome(wrote, RcFmp4, clean) /\ Clocked(wrote.taken, rcTime') /\ Counted(wrote, RcFmp4)
          /\ ~wrote.err => Steady(wrote, rcTime', RcFmp4)
          /\ (~wrote.err /\ clean) => Sits(wrote, RcFmp4)
      BY <1>17, <2>2 DEF CallbackLeft
    <3>2. Settle(wrote) /\ (~wrote.err => rcSeen' = rcSeen \cup {t})
      BY <1>2, <2>2
    <3>3. /\ Steady(Now("none")', rcTime', RcFmp4)
          /\ wrote.err => rcSeen' = {} /\ \A u \in RcTracks : rcNext'[u] = <<>>
          /\ ~wrote.err => rcNext' = wrote.next
          /\ clean => Sits(Now("none")', RcFmp4)
      BY <1>9, <3>1, <3>2, SettleOnce
    <3>4. \A u \in RcTracks : (u \notin rcSeen' \/ ~RcFmp4) => rcNext'[u] = <<>>
      <4>1. CASE wrote.err
        BY <3>3, <4>1
      <4>2. CASE ~wrote.err
        <5> SUFFICES ASSUME NEW u \in RcTracks, u \notin rcSeen' \/ ~RcFmp4 PROVE rcNext'[u] = <<>>
          OBVIOUS
        <5>1. u \notin rcSeen' => u # t /\ u \notin rcSeen
          BY <3>2, <4>2
        <5>2. rcNext'[u] = rcNext[u]
          BY <1>17, <2>2, <3>3, <4>2, <5>1
        <5>3. rcNext[u] = <<>>
          BY <5>1 DEF RcSoundInv, Idle
        <5> QED BY <5>2, <5>3
      <4> QED BY <4>1, <4>2
    <3> QED BY <3>3, <3>4
  <2> QED BY <2>1, <2>2
<1>19. RcFmp4' = RcFmp4 /\ RcClean' = clean
  BY <1>2 DEF RcFmp4, RcClean, clean
<1>20. Steady(Now("none"), rcTime, RcFmp4)' /\ (RcClean => Sits(Now("none"), RcFmp4))'
  BY Zenon, <1>18, <1>19
<1>21. Idle'
  BY <1>18, <1>19 DEF Idle
<1> QED BY <1>6, <1>20, <1>21 DEF RcSoundInv

LEMMA RecorderBeginsSound ==
    ASSUME RcInit PROVE RcSoundInv
<1> DEFINE n == Now("none")
<1>1. /\ rcSeg = <<>> /\ rcNext = [t \in RcTracks |-> <<>>] /\ rcBuf = <<>>
      /\ rcFiles = [d \in 0..MaxDts |-> NoFile] /\ rcTime = [video |-> 0, audio |-> 1]
      /\ rcTaken = {} /\ rcGone = {}
  BY Zenon DEF RcInit, NoSeg
<1>2. /\ n.seg = <<>> /\ n.next = rcNext /\ n.buf = <<>> /\ n.files = rcFiles
      /\ n.taken = {} /\ n.gone = {}
  BY <1>1, NowFields
<1>3. RcInv
  BY RecorderBegins
<1>4. \A d \in RcTimes : rcFiles[d] = NoFile
  BY <1>1 DEF RcTimes
<1>5. NoFile.complete = 0 /\ NoFile.samples = <<>>
  BY DEF NoFile
<1>6. \A t \in RcTracks : rcNext[t] = <<>>
  BY <1>1
<1> HIDE DEF n
<1>7. Clocked(n.taken, rcTime)
  <2>1. rcTime["video"] = 0 /\ rcTime["audio"] = 1
    BY <1>1
  <2> QED BY <1>2, <2>1 DEF Clocked, Parity, RcTracks
<1>8. Counted(n, RcFmp4)
  <2>1. \A d \in RcTimes : ~Live(n.seg, d)
    BY <1>2 DEF Live
  <2>2. \A d \in RcTimes : Ends(n, d) = 0
    BY <1>2, <1>4, <1>5, <2>1 DEF Ends
  <2> QED BY <2>2 DEF Counted
<1>9. Steady(n, rcTime, RcFmp4)
  BY <1>2, <1>6, <1>7, <1>8, SteadyIdle
<1>10. Sits(n, RcFmp4)
  <2>1. MemOf(n, RcFmp4) = <<>> /\ ToSet(<<>>) = {} /\ Rises(<<>>)
    BY <1>2, NoSamples, RisesNone DEF MemOf
  <2>2. \A d \in RcTimes : n.files[d].samples = <<>>
    BY <1>2, <1>4, <1>5
  <2>3. Disk(n.files) = {}
    BY <2>1, <2>2 DEF Disk
  <2>4. KeptOrGone(n, RcFmp4) = {}
    BY <1>2, <2>1, <2>3 DEF KeptOrGone
  <2>5. Core(n.files, <<>>, {})
    BY <2>1, <2>2 DEF Core, Precede
  <2>6. Floored(n)
    BY <1>2, <2>1, <2>2 DEF Floored
  <2> QED BY <1>2, <2>1, <2>4, <2>5, <2>6 DEF Sits, Sound, Precede
<1>11. Idle
  BY <1>6 DEF Idle
<1> QED BY <1>3, <1>9, <1>10, <1>11 DEF RcSoundInv, n

LEMMA RecorderStaysSound ==
    ASSUME RcSoundInv, [RcNext]_rcVars PROVE RcSoundInv'
<1>1. RcInv /\ RcInv'
  BY RecorderSteps DEF RcSoundInv
<1>2. ASSUME NEW inst, InstanceEnd(Now("none"), inst),
             UNCHANGED <<rcFormat, rcCodecs, rcTime, rcFaults>>
      PROVE  RcSoundInv'
  <2> DEFINE now == Now("none")
  <2>1. /\ StateGood(now, RcFmp4, RcClean) /\ ~now.err /\ Ready(now, RcFmp4, RcClean)
    BY <1>1 DEF RcInv, Ready
  <2>2. RcClean \in BOOLEAN
    BY DEF RcClean
  <2>3. Steady(now, rcTime, RcFmp4) /\ (RcClean => Sits(now, RcFmp4)) /\ InstanceEnd(now, inst)
    BY <1>2 DEF RcSoundInv
  <2>4. Clocked(now.taken, rcTime) /\ Counted(now, RcFmp4)
    BY <2>3 DEF Steady, Timely
  <2>5. Waiting(now.next) \subseteq now.taken
    <3>1. now.next = rcNext
      BY NowFields
    <3> HIDE DEF now
    <3> SUFFICES ASSUME NEW t \in RcTracks, NEW x \in ToSet(now.next[t]) PROVE x \in now.taken
      BY DEF Waiting
    <3>2. now.next[t] # <<>>
      BY NoSamples
    <3>3. RcFmp4
      BY <3>1, <3>2 DEF RcSoundInv, Idle
    <3>4. NextFits(now.next, now.ver) /\ now.next \in [RcTracks -> Seq(RcSamples)]
      BY <2>1, <3>3, ReadyState, StateFields DEF Ready
    <3>5. ToSet(now.next[t]) = {now.next[t][1]}
      <4>1. RcFmp4 = TRUE
        BY <3>3 DEF RcFmp4
      <4>2. Ready(now, TRUE, RcClean)
        BY Zenon, <2>1, <4>1
      <4> QED BY <3>2, <4>2, OnePending
    <3>6. now.next[t][1] \in now.taken
      BY <2>3, <3>2 DEF Steady, Timely, LastTaken
    <3> QED BY <3>5, <3>6
  <2> HIDE DEF now
  <2>6. /\ Steady(Now("none")', rcTime, RcFmp4) /\ rcSeen' = {} /\ \A t \in RcTracks : rcNext'[t] = <<>>
        /\ RcClean => Sits(Now("none")', RcFmp4)
    BY <2>1, <2>2, <2>3, <2>4, <2>5, InstanceEndOnce
  <2>7. RcFmp4' = RcFmp4 /\ RcClean' = RcClean /\ rcTime' = rcTime
    BY <1>2 DEF RcFmp4, RcClean
  <2>8. Steady(Now("none"), rcTime, RcFmp4)' /\ (RcClean => Sits(Now("none"), RcFmp4))'
    BY Zenon, <2>6, <2>7
  <2>9. Idle'
    BY <2>6 DEF Idle
  <2> QED BY <1>1, <2>8, <2>9 DEF RcSoundInv
<1>3. ASSUME NEW t \in RcTracks, RecordUnit(t) PROVE RcSoundInv'
  BY <1>3, RecordUnitOnce
<1>4. ASSUME NEW t \in RcTracks, RefuseUnit(t) PROVE RcSoundInv'
  BY <1>2, <1>4 DEF RefuseUnit
<1>5. CASE RecorderClose
  BY <1>2, <1>5 DEF RecorderClose
<1>6. ASSUME UNCHANGED <<rcFormat, rcCodecs, rcSeg, rcNext, rcVer, rcSeen, rcHasVideo, rcBuf, rcFiles,
                         rcTime, rcTaken, rcGone, rcFaults>>
      PROVE  RcSoundInv'
  <2>1. Now("none")' = Now("none") /\ RcFmp4' = RcFmp4 /\ RcClean' = RcClean /\ rcTime' = rcTime
    BY <1>6 DEF Now, RcFmp4, RcClean
  <2>2. Steady(Now("none"), rcTime, RcFmp4) /\ (RcClean => Sits(Now("none"), RcFmp4)) /\ Idle
    BY DEF RcSoundInv
  <2>3. Steady(Now("none"), rcTime, RcFmp4)' /\ (RcClean => Sits(Now("none"), RcFmp4))'
    BY Zenon, <2>1, <2>2
  <2>4. Idle'
    BY <1>6, <2>1, <2>2 DEF Idle
  <2> QED BY <1>1, <2>3, <2>4 DEF RcSoundInv
<1>7. CASE Restart
  BY <1>6, <1>7 DEF Restart
<1>8. CASE UNCHANGED rcVars
  BY <1>6, <1>8 DEF rcVars
<1> QED BY <1>3, <1>4, <1>5, <1>7, <1>8 DEF RcNext

\* What is in memory.
LEMMA MemoryOfRecorder ==
    ASSUME RcInv
    PROVE  InMemory \subseteq ToSet(MemOf(Now("none"), RcFmp4)) \cup Waiting(rcNext)
<1> DEFINE n == Now("none")
           next == UNION {ToSet(rcNext[t]) : t \in RcTracks}
           open == IF rcSeg = NoSeg THEN {} ELSE ToSet(rcSeg[1].part)
           buf == ToSet(rcBuf)
           mem == ToSet(MemOf(n, RcFmp4))
<1>1. n.seg = rcSeg /\ n.buf = rcBuf
  BY NowFields
<1>2. Ready(n, RcFmp4, RcClean)
  BY DEF RcInv
<1>3. InMemory = (buf \cup next) \cup open /\ Waiting(rcNext) = next
  BY Zenon DEF InMemory, Waiting
<1> HIDE DEF n
<1>4. buf \subseteq mem /\ open \subseteq mem
  <2>1. ToSet(<<>>) = {}
    BY NoSamples
  <2>2. CASE RcFmp4
    <3>1. rcBuf = <<>>
      BY <1>1, <1>2, <2>2 DEF Ready
    <3>2. rcSeg # <<>> => MemOf(n, RcFmp4) = rcSeg[1].part
      BY <1>1, <2>2 DEF MemOf
    <3> QED BY <2>1, <3>1, <3>2 DEF NoSeg
  <2>3. CASE ~RcFmp4
    <3>1. rcSeg # <<>> => rcSeg[1].part = <<>>
      BY <1>1, <1>2, <2>3 DEF Ready
    <3>2. MemOf(n, RcFmp4) = rcBuf
      BY <1>1, <2>3 DEF MemOf
    <3> QED BY <2>1, <3>1, <3>2 DEF NoSeg
  <2> QED BY <2>2, <2>3
<1> HIDE DEF next, open, buf, mem
<1>5. InMemory \subseteq mem \cup next
  BY <1>3, <1>4
<1> QED BY <1>3, <1>5 DEF mem, n

\* What a file has, as long as no write failed.
LEMMA FileInPlace ==
    ASSUME RcSoundInv, rcFaults = 0, NEW d \in RcTimes
    PROVE  LET s == rcFiles[d].samples
           IN  /\ \A e \in RcTimes : d # e => ToSet(s) \cap ToSet(rcFiles[e].samples) = {}
               /\ ToSet(s) \cap (InMemory \cup rcGone) = {}
               /\ Rises(s) /\ s \in Seq(RcSamples)
               /\ RcFmp4 => \A k \in 1..Len(s) : s[k].dts >= d
<1> DEFINE n == Now("none")
           s == rcFiles[d].samples
           mem == MemOf(n, RcFmp4)
<1>1. RcInv /\ Sits(n, RcFmp4)
  BY DEF RcSoundInv, RcClean
<1>2. n.files = rcFiles /\ n.gone = rcGone /\ n.next = rcNext /\ n.taken = rcTaken
  BY NowFields
<1>3. n \in RcStates
  BY <1>1 DEF RcInv, Ready, StateGood
<1>4. InMemory \subseteq ToSet(mem) \cup Waiting(rcNext)
  BY <1>1, MemoryOfRecorder
<1> HIDE DEF n
<1>5. /\ Core(rcFiles, mem, rcGone) /\ (RcFmp4 => Floored(n))
      /\ Precede(KeptOrGone(n, RcFmp4), Waiting(rcNext)) /\ KeptOrGone(n, RcFmp4) \subseteq rcTaken
  BY <1>1, <1>2 DEF Sits, Sound
<1>6. s \in Seq(RcSamples) /\ ToSet(s) \subseteq RcSamples /\ \A k \in 1..Len(s) : s[k] \in ToSet(s)
  <2>1. s \in Seq(RcSamples)
    BY <1>2, <1>3, EndsNat
  <2> HIDE DEF s
  <2> QED BY <2>1, InSamples
<1>7. ToSet(s) \subseteq KeptOrGone(n, RcFmp4)
  BY <1>2 DEF KeptOrGone, Disk
<1>8. \A e \in RcTimes : d # e => ToSet(s) \cap ToSet(rcFiles[e].samples) = {}
  BY <1>5 DEF Core
<1>9. ToSet(s) \cap (InMemory \cup rcGone) = {}
  <2> SUFFICES ASSUME NEW x \in ToSet(s), x \in InMemory \/ x \in rcGone PROVE FALSE
    OBVIOUS
  <2>1. x \notin rcGone
    BY <1>5 DEF Core
  <2>2. x \in ToSet(mem) => Before(x, x)
    BY <1>5 DEF Core, Precede
  <2>3. x \in Waiting(rcNext) => Before(x, x)
    BY <1>5, <1>7 DEF Precede
  <2> QED BY <1>4, <1>6, <2>1, <2>2, <2>3, NotBeforeItself
<1>10. Rises(s)
  BY <1>5 DEF Core
<1>11. RcFmp4 => \A k \in 1..Len(s) : s[k].dts >= d
  BY <1>2, <1>5, <1>6 DEF Floored
<1> HIDE DEF s
<1> QED BY <1>6, <1>8, <1>9, <1>10, <1>11 DEF s

\* How often a file was made and completed.
LEMMA FileEnds ==
    ASSUME RcSoundInv, NEW d \in RcTimes
    PROVE  /\ rcFiles[d].complete > 1 => rcFiles[d].complete = 2 /\ RenewedAfter(d)
           /\ (rcFaults = 0 /\ rcFiles[d].made > 1) =>
                rcFiles[d].made = 2 /\ rcFormat = "fmp4" /\ RenewedAfter(d)
<1> DEFINE n == Now("none")
           c == rcFiles[d].complete
           m == rcFiles[d].made
           e == Ends(n, d)
<1>1. RcInv /\ Counted(n, RcFmp4)
  BY DEF RcSoundInv, Steady, Timely
<1>2. n.files = rcFiles /\ n.seg = rcSeg /\ n.taken = rcTaken
  BY NowFields
<1>3. n \in RcStates
  BY <1>1 DEF RcInv, Ready, StateGood
<1> HIDE DEF n
<1>4. RenewedIn(n.taken, d) => RenewedAfter(d)
  BY <1>2 DEF RenewedIn, RenewedAfter
<1>5. c \in Nat /\ e \in Nat /\ c <= e
  BY <1>2, <1>3, EndsNat
<1>6. e <= 1 \/ (e = 2 /\ RcFmp4 /\ RenewedAfter(d))
  BY <1>1, <1>4 DEF Counted
<1>7. rcFaults = 0 => m = c + (IF OpenAt(rcSeg, d) THEN 1 ELSE 0)
  BY <1>1, DiskOfRecorder DEF FileGood, RcClean
<1>8. OpenAt(rcSeg, d) => e = c + 1
  BY <1>2 DEF OpenAt, Ends, Live
<1> HIDE DEF c, m, e
<1>9. rcFaults = 0 => m <= e /\ m \in Nat
  BY <1>5, <1>7, <1>8
<1>10. c > 1 => c = 2 /\ RenewedAfter(d)
  BY <1>5, <1>6
<1>11. (rcFaults = 0 /\ m > 1) => m = 2 /\ RcFmp4 /\ RenewedAfter(d)
  BY <1>5, <1>6, <1>9
<1> QED BY <1>10, <1>11 DEF c, m, RcFmp4

\* The recording is sound, whatever the units and the faults: as long as no
\* write fails every sample that a track accepted is in exactly one place, in
\* order, and not before the start of its file; the hooks are paired; a file is
\* made or completed twice only if the unit after its first sample renewed the
\* parameters; and no sample needs later parameters than its file's header has
\* (formatFMP4Track.write, formatMPEGTS.write, updateCodecs and the closing of
\* parts, segments and instances).
THEOREM RecordingStaysSound == RcSpec => []RecordingSound
<1>1. ASSUME RcSoundInv, HeadersKeepUp, HooksPaired, NothingLost PROVE RecordingSound
  <2>1. DOMAIN rcFiles = RcTimes
    BY <1>1, DiskOfRecorder DEF RcSoundInv
  <2>2. ASSUME rcFaults = 0, NEW d \in RcTimes
        PROVE  /\ \A e \in RcTimes : d # e => ToSet(OnDisk(d)) \cap ToSet(OnDisk(e)) = {}
               /\ ToSet(OnDisk(d)) \cap (InMemory \cup rcGone) = {}
               /\ IsInjective(OnDisk(d))
               /\ \A j, k \in DOMAIN OnDisk(d) :
                    /\ rcFormat = "fmp4" => OnDisk(d)[k].dts >= d
                    /\ (j < k /\ OnDisk(d)[j].track = OnDisk(d)[k].track) =>
                          OnDisk(d)[j].dts < OnDisk(d)[k].dts
    <3> DEFINE s == OnDisk(d)
    <3>1. /\ \A e \in RcTimes : d # e => ToSet(s) \cap ToSet(OnDisk(e)) = {}
          /\ ToSet(s) \cap (InMemory \cup rcGone) = {}
          /\ Rises(s) /\ s \in Seq(RcSamples)
          /\ RcFmp4 => \A k \in 1..Len(s) : s[k].dts >= d
      BY <1>1, <2>2, FileInPlace DEF OnDisk
    <3> HIDE DEF s
    <3>2. DOMAIN s = 1..Len(s) /\ Len(s) \in Nat /\ \A k \in 1..Len(s) : s[k] \in RcSamples
      BY <3>1
    <3>3. ASSUME NEW j \in 1..Len(s), NEW k \in 1..Len(s), j < k
          PROVE  s[j] # s[k] /\ (s[j].track = s[k].track => s[j].dts < s[k].dts)
      <4>1. Before(s[j], s[k])
        BY <3>1, <3>3 DEF Rises
      <4>2. ~Before(s[j], s[j])
        BY <3>2, NotBeforeItself
      <4> QED BY <4>1, <4>2 DEF Before
    <3>4. IsInjective(s)
      <4> SUFFICES ASSUME NEW j \in 1..Len(s), NEW k \in 1..Len(s), s[j] = s[k] PROVE j = k
        BY <3>2 DEF IsInjective
      <4>1. ~(j < k) /\ ~(k < j)
        BY <3>3
      <4> QED BY <3>2, <4>1
    <3>5. \A j, k \in DOMAIN s :
            /\ rcFormat = "fmp4" => s[k].dts >= d
            /\ (j < k /\ s[j].track = s[k].track) => s[j].dts < s[k].dts
      BY <3>1, <3>2, <3>3 DEF RcFmp4
    <3> QED BY <3>1, <3>4, <3>5 DEF s
  <2>3. \A d \in RcTimes :
          /\ rcFiles[d].complete > 1 => rcFiles[d].complete = 2 /\ RenewedAfter(d)
          /\ (rcFaults = 0 /\ rcFiles[d].made > 1) =>
               rcFiles[d].made = 2 /\ rcFormat = "fmp4" /\ RenewedAfter(d)
    BY <1>1, FileEnds
  <2>4. rcFaults = 0 => \A d \in Rewritten : rcFiles[d].made = 2 /\ rcFormat = "fmp4" /\ RenewedAfter(d)
    BY <2>1, <2>3 DEF Rewritten
  <2>5. RecordedOnce
    BY Zenon, <1>1, <2>1, <2>2, <2>3, <2>4 DEF RecordedOnce
  <2> QED BY <1>1, <2>5 DEF RecordingSound
<1>2. RcSpec => []RcSoundInv
  BY RecorderBeginsSound, RecorderStaysSound, PTL DEF RcSpec
<1> QED BY <1>1, <1>2, RecordedHeadersKeepUp, RecorderHooksPaired, RecorderLosesNothing, PTL
=============================================================================
