----------------------------- MODULE PathProofs -----------------------------
(***************************************************************************)
(* Proofs about Path, for any sets of publishers and readers, any limit on  *)
(* readers and every configuration of the path.                             *)
(*                                                                          *)
(* The functions the handlers share are operators from a path to a path.    *)
(* For each of them one lemma says which fields it changes and how, one     *)
(* that it makes a good path out of a good path (Good), and one, where      *)
(* readers can see it, which step of the switch it is (Moves).  The lemma   *)
(* of an action then only says which of them the handler combines.          *)
(***************************************************************************)
EXTENDS Path, FiniteSetTheorems, TLAPS

USE PathConstants

\* The requests of a queue.
QueueOf(q) == {q[i] : i \in DOMAIN q}

\* The invariants of a path as predicates of the struct, of what the
\* publishers know and of the configuration, for the paths that handlers make
\* out of each other.
Typed(s) ==
    /\ s \in Paths
    /\ s.readers \cap s.told = {}
    /\ OnHold(s) \cap (s.readers \cup s.told) = {}
    /\ \A i, j \in DOMAIN s.adding : s.adding[i] = s.adding[j] => i = j

Demanding(s) ==
    /\ s.readyTimer <=> s.od = "waiting"
    /\ s.closeTimer <=> s.od = "closing"
    /\ OnDemand => (s.supplier <=> s.od # "initial")
    /\ ~OnDemand => s.od = "initial"
    /\ s.od = "waiting" => ~s.stream
    /\ HasOnDemandStaticSource =>
         /\ s.stream <=> s.od \in {"ready", "closing"}
         /\ s.od = "ready" => s.readers # {}

Owned(s, ps, rec) ==
    /\ s.stream => s.source # None
    /\ s.source \in Publishers => ps[s.source] # "out"
    /\ s.stream /\ s.source \in Publishers => ps[s.source] = "started"
    /\ s.recorder <=> s.stream /\ rec

Attached(s) ==
    /\ s.readers # {} => s.stream
    /\ OnHold(s) # {} => ~s.stream /\ OnDemand

Sourced(s) ==
    /\ SourceKind = "publisher" => s.source # Static
    /\ SourceKind = "static" => s.source = Static /\ (s.stream => s.supplier)

PubTyped(ps) == ps \in [Publishers -> {"out", "added", "started"}]

Good(s, ps, rec) ==
    /\ Typed(s) /\ Demanding(s) /\ Owned(s, ps, rec) /\ Attached(s) /\ Sourced(s)
    /\ PubTyped(ps)

-----------------------------------------------------------------------------
(* The functions the handlers share.                                        *)

\* The on-demand functions change the state, the timers and the supplier.
LEMMA OnDemandFunctions ==
    ASSUME NEW s \in Paths
    PROVE  /\ OnDemandStart(s) \in Paths
           /\ ScheduleClose(s) \in Paths
           /\ OnDemandStop(s) \in Paths
           /\ Demand(s) \in Paths
<1>1. OnDemandStart(s) \in Paths
  BY DEF OnDemandStart, Paths, OnDemandStates
<1>2. ScheduleClose(s) \in Paths
  BY DEF ScheduleClose, Paths, OnDemandStates
<1>3. OnDemandStop(s) \in Paths
  BY DEF OnDemandStop, Paths, OnDemandStates
<1>4. Demand(s) \in Paths
  BY <1>1 DEF Demand, Paths
<1> QED
  BY <1>1, <1>2, <1>3, <1>4

\* addReaderPost admits a part of the requests, leaves everything else but
\* the closing of the source alone, and calls that off only with a reader
\* admitted.
LEMMA AddReaderPostFacts ==
    ASSUME NEW s \in Paths, NEW q \in Seq(Readers)
    PROVE  LET t == AddReaderPost(s, q) IN
           /\ t \in Paths
           /\ t.source = s.source /\ t.stream = s.stream /\ t.recorder = s.recorder
           /\ t.told = s.told /\ t.describing = s.describing /\ t.adding = s.adding
           /\ t.readyTimer = s.readyTimer /\ t.supplier = s.supplier
           /\ s.readers \subseteq t.readers
           /\ t.readers \subseteq s.readers \cup QueueOf(q)
           /\ \/ t.od = s.od /\ t.closeTimer = s.closeTimer
              \/ /\ OnDemand /\ s.od = "closing" /\ t.od = "ready"
                 /\ ~t.closeTimer /\ t.readers # {}
<1> DEFINE room == IF MaxReaders = 0 \/ Cardinality(s.readers) + Len(q) <= MaxReaders
                   THEN Len(q) ELSE MaxReaders - Cardinality(s.readers)
           new == {q[i] : i \in 1..room}
           kept == room > 0 /\ OnDemand /\ s.od = "closing"
<1>1. s.readers \subseteq Readers
  BY DEF Paths
<1>2. Cardinality(s.readers) \in Nat
  BY <1>1, FS_Subset, FS_CardinalityType
<1>3. Len(q) \in Nat /\ DOMAIN q = 1..Len(q) /\ \A i \in 1..Len(q) : q[i] \in Readers
  OBVIOUS
<1>4. room \in Int /\ room <= Len(q)
  BY <1>2, <1>3
<1>5. new \subseteq QueueOf(q) /\ new \subseteq Readers
  BY <1>3, <1>4 DEF QueueOf
<1>6. room > 0 => q[1] \in new
  BY <1>4
<1>7. AddReaderPost(s, q) =
        [s EXCEPT !.readers = @ \cup new, !.od = IF kept THEN "ready" ELSE @,
                  !.closeTimer = @ /\ ~kept]
  BY DEF AddReaderPost
<1>8. kept \in BOOLEAN /\ (kept => room > 0 /\ OnDemand /\ s.od = "closing")
  BY PathConstants
<1> DEFINE t == AddReaderPost(s, q)
<1> HIDE DEF new, room, kept
<1>9. (s.readers \cup new) \in SUBSET Readers
  BY <1>1, <1>5
<1>10. s.closeTimer \in BOOLEAN /\ (s.closeTimer /\ ~kept) \in BOOLEAN
  BY DEF Paths
<1>11. (IF kept THEN "ready" ELSE s.od) \in OnDemandStates
  BY <1>8 DEF Paths, OnDemandStates
<1>12. t \in Paths
  BY <1>7, <1>9, <1>10, <1>11 DEF Paths
<1>13. /\ t.source = s.source /\ t.stream = s.stream /\ t.recorder = s.recorder
       /\ t.told = s.told /\ t.describing = s.describing /\ t.adding = s.adding
       /\ t.readyTimer = s.readyTimer /\ t.supplier = s.supplier
       /\ t.readers = s.readers \cup new
       /\ t.od = IF kept THEN "ready" ELSE s.od
       /\ t.closeTimer = (s.closeTimer /\ ~kept)
  BY <1>7 DEF Paths
<1> HIDE DEF t
<1>14. CASE kept
  BY <1>5, <1>6, <1>8, <1>12, <1>13, <1>14 DEF t
<1>15. CASE ~kept
  BY <1>5, <1>10, <1>12, <1>13, <1>15 DEF t
<1> QED
  BY <1>14, <1>15

\* setNotReady takes the stream off the air and detaches every reader.
LEMMA SetNotReadyFacts ==
    ASSUME NEW s \in Paths
    PROVE  LET t == SetNotReady(s) IN
           /\ t \in Paths
           /\ t.source = s.source /\ ~t.stream /\ ~t.recorder
           /\ t.readers = {} /\ t.told = s.told \cup s.readers
           /\ t.describing = s.describing /\ t.adding = s.adding
           /\ t.od = s.od /\ t.readyTimer = s.readyTimer
           /\ t.closeTimer = s.closeTimer /\ t.supplier = s.supplier
BY DEF SetNotReady, Paths

\* executeRemovePublisher does so if there is a stream, and forgets the source.
LEMMA RemovePublisherFacts ==
    ASSUME NEW s \in Paths
    PROVE  LET t == ExecuteRemovePublisher(s)
               u == IF s.stream THEN SetNotReady(s) ELSE s IN
           /\ t \in Paths
           /\ t.source = None
           /\ t.stream = u.stream /\ t.recorder = u.recorder
           /\ t.readers = u.readers /\ t.told = u.told
           /\ t.describing = s.describing /\ t.adding = s.adding
           /\ t.od = s.od /\ t.readyTimer = s.readyTimer
           /\ t.closeTimer = s.closeTimer /\ t.supplier = s.supplier
<1> DEFINE u == IF s.stream THEN SetNotReady(s) ELSE s
<1>1. u \in Paths /\ u.describing = s.describing /\ u.adding = s.adding
      /\ u.od = s.od /\ u.readyTimer = s.readyTimer
      /\ u.closeTimer = s.closeTimer /\ u.supplier = s.supplier
  BY SetNotReadyFacts
<1>2. ExecuteRemovePublisher(s) = [u EXCEPT !.source = None]
  BY DEF ExecuteRemovePublisher
<1> HIDE DEF u
<1>3. LET t == ExecuteRemovePublisher(s) IN
      /\ t \in Paths
      /\ t.source = None
      /\ t.stream = u.stream /\ t.recorder = u.recorder
      /\ t.readers = u.readers /\ t.told = u.told
      /\ t.describing = u.describing /\ t.adding = u.adding
      /\ t.od = u.od /\ t.readyTimer = u.readyTimer
      /\ t.closeTimer = u.closeTimer /\ t.supplier = u.supplier
  BY <1>1, <1>2 DEF Paths
<1> QED
  BY <1>1, <1>3 DEF u

\* A path goes on the air: the requests on hold are answered, and an
\* on-demand source that was asked for is about to be closed or has readers.
LEMMA GoReadyFacts ==
    ASSUME NEW s \in Paths, record \in BOOLEAN
    PROVE  LET t  == GoReady(s)
               on == OnDemand /\ (SourceKind = "static" \/ s.od # "initial") IN
           /\ t \in Paths
           /\ t.source = s.source /\ t.stream /\ t.recorder = record
           /\ t.told = s.told /\ t.describing = {} /\ t.adding = <<>>
           /\ t.supplier = s.supplier
           /\ s.readers \subseteq t.readers
           /\ t.readers \subseteq s.readers \cup QueueOf(s.adding)
           /\ ~on => /\ t.od = s.od /\ t.readyTimer = s.readyTimer
                     /\ t.closeTimer = s.closeTimer
           /\ on => /\ ~t.readyTimer
                    /\ \/ t.od = "closing" /\ t.closeTimer
                       \/ t.od = "ready" /\ ~t.closeTimer /\ t.readers # {}
<1> DEFINE on == OnDemand /\ (SourceKind = "static" \/ s.od # "initial")
           ready == [s EXCEPT !.stream = TRUE, !.recorder = record]
           u == IF on THEN ScheduleClose([ready EXCEPT !.readyTimer = FALSE]) ELSE ready
           v == [u EXCEPT !.describing = {}, !.adding = <<>>]
<1>1. /\ u \in Paths
      /\ u.source = s.source /\ u.stream /\ u.recorder = record
      /\ u.readers = s.readers /\ u.told = s.told /\ u.adding = s.adding
      /\ u.supplier = s.supplier
      /\ ~on => u.od = s.od /\ u.readyTimer = s.readyTimer /\ u.closeTimer = s.closeTimer
      /\ on => u.od = "closing" /\ ~u.readyTimer /\ u.closeTimer
  BY DEF ScheduleClose, Paths, OnDemandStates
<1>2. GoReady(s) = AddReaderPost(v, u.adding)
  BY DEF GoReady, ConsumeOnHold
<1> HIDE DEF u
<1>3. <<>> \in Seq(Readers)
  OBVIOUS
<1>4. /\ v \in Paths
      /\ v.source = u.source /\ v.stream = u.stream /\ v.recorder = u.recorder
      /\ v.readers = u.readers /\ v.told = u.told
      /\ v.describing = {} /\ v.adding = <<>> /\ v.supplier = u.supplier
      /\ v.od = u.od /\ v.readyTimer = u.readyTimer /\ v.closeTimer = u.closeTimer
  BY <1>1, <1>3 DEF Paths
<1>5. u.adding \in Seq(Readers)
  BY <1>1 DEF Paths
<1> HIDE DEF v
<1> DEFINE t == AddReaderPost(v, u.adding)
<1>6. /\ t \in Paths
      /\ t.source = v.source /\ t.stream = v.stream /\ t.recorder = v.recorder
      /\ t.told = v.told /\ t.describing = v.describing /\ t.adding = v.adding
      /\ t.readyTimer = v.readyTimer /\ t.supplier = v.supplier
      /\ v.readers \subseteq t.readers
      /\ t.readers \subseteq v.readers \cup QueueOf(u.adding)
      /\ \/ t.od = v.od /\ t.closeTimer = v.closeTimer
         \/ /\ OnDemand /\ v.od = "closing" /\ t.od = "ready"
            /\ ~t.closeTimer /\ t.readers # {}
  BY <1>4, <1>5, AddReaderPostFacts
<1> HIDE DEF t
<1>7. GoReady(s) = t
  BY <1>2 DEF t
<1>8. v.od = "closing" /\ OnDemand => on
  BY <1>1, <1>4, PathConstants
<1> HIDE DEF on
<1>9. /\ t \in Paths
      /\ t.source = s.source /\ t.stream /\ t.recorder = record
      /\ t.told = s.told /\ t.describing = {} /\ t.adding = <<>>
      /\ t.supplier = s.supplier
      /\ s.readers \subseteq t.readers
      /\ t.readers \subseteq s.readers \cup QueueOf(s.adding)
  BY <1>1, <1>4, <1>6
<1>10. ~on => /\ t.od = s.od /\ t.readyTimer = s.readyTimer
              /\ t.closeTimer = s.closeTimer
  BY <1>1, <1>4, <1>6, <1>8
<1>11. on => /\ ~t.readyTimer
             /\ \/ t.od = "closing" /\ t.closeTimer
                \/ t.od = "ready" /\ ~t.closeTimer /\ t.readers # {}
  BY <1>1, <1>4, <1>6
<1> QED
  BY <1>7, <1>9, <1>10, <1>11 DEF on

-----------------------------------------------------------------------------
(* What the handlers make out of a good path is a good path.                *)

\* setNotReady, unless it leaves a static source behind that was demanded.
LEMMA NotReadyGood ==
    ASSUME NEW s, NEW ps, NEW rec \in BOOLEAN, Good(s, ps, rec),
           ~HasOnDemandStaticSource
    PROVE  Good(SetNotReady(s), ps, rec)
<1> DEFINE t == SetNotReady(s)
<1>1. s \in Paths
  BY DEF Good, Typed
<1>2. /\ t \in Paths
      /\ t.source = s.source /\ ~t.stream /\ ~t.recorder
      /\ t.readers = {} /\ t.told = s.told \cup s.readers
      /\ t.describing = s.describing /\ t.adding = s.adding
      /\ t.od = s.od /\ t.readyTimer = s.readyTimer
      /\ t.closeTimer = s.closeTimer /\ t.supplier = s.supplier
  BY <1>1, SetNotReadyFacts
<1> HIDE DEF t
<1>3. OnHold(t) = OnHold(s)
  BY <1>2 DEF OnHold
<1>4. Typed(t)
  BY <1>2, <1>3 DEF Good, Typed
<1>5. Demanding(t)
  BY <1>2 DEF Good, Demanding
<1>6. Owned(t, ps, rec)
  BY <1>2 DEF Good, Owned
<1>7. Attached(t)
  BY <1>2, <1>3 DEF Good, Attached
<1>8. Sourced(t)
  BY <1>2 DEF Good, Sourced
<1> QED
  BY <1>4, <1>5, <1>6, <1>7, <1>8 DEF Good, t

\* setNotReady followed by onDemandStaticSourceStop.
LEMMA StaticStopGood ==
    ASSUME NEW s, NEW ps, NEW rec \in BOOLEAN, Good(s, ps, rec),
           HasOnDemandStaticSource, s.stream
    PROVE  Good(OnDemandStop(SetNotReady(s)), ps, rec)
<1> DEFINE u == SetNotReady(s)
           t == OnDemandStop(u)
<1>1. s \in Paths
  BY DEF Good, Typed
<1>2. /\ u \in Paths
      /\ u.source = s.source /\ ~u.stream /\ ~u.recorder
      /\ u.readers = {} /\ u.told = s.told \cup s.readers
      /\ u.describing = s.describing /\ u.adding = s.adding
      /\ u.od = s.od /\ u.readyTimer = s.readyTimer
      /\ u.closeTimer = s.closeTimer /\ u.supplier = s.supplier
  BY <1>1, SetNotReadyFacts
<1> HIDE DEF u
<1>3. /\ t \in Paths
      /\ t.source = u.source /\ t.stream = u.stream /\ t.recorder = u.recorder
      /\ t.readers = u.readers /\ t.told = u.told
      /\ t.describing = u.describing /\ t.adding = u.adding
      /\ t.od = "initial" /\ ~t.supplier /\ t.readyTimer = u.readyTimer
      /\ t.closeTimer <=> u.closeTimer /\ u.od # "closing"
  BY <1>2 DEF OnDemandStop, Paths, OnDemandStates
<1> HIDE DEF t
<1>4. OnHold(t) = OnHold(s)
  BY <1>2, <1>3 DEF OnHold
<1>5. Typed(t)
  BY <1>2, <1>3, <1>4 DEF Good, Typed
<1>6. Demanding(t)
  BY <1>2, <1>3 DEF Good, Demanding
<1>7. Owned(t, ps, rec)
  BY <1>2, <1>3 DEF Good, Owned
<1>8. Attached(t)
  BY <1>2, <1>3, <1>4 DEF Good, Attached
<1>9. Sourced(t)
  BY <1>2, <1>3 DEF Good, Sourced
<1> QED
  BY <1>5, <1>6, <1>7, <1>8, <1>9 DEF Good, t, u

\* The source, a publisher, is removed; so may be what it knows of the path.
LEMMA RemoveGood ==
    ASSUME NEW s, NEW ps, NEW qs, NEW rec \in BOOLEAN, Good(s, ps, rec),
           SourceKind = "publisher", PubTyped(qs)
    PROVE  /\ Good(ExecuteRemovePublisher(s), qs, rec)
           /\ ExecuteRemovePublisher(s).source = None
           /\ ~ExecuteRemovePublisher(s).stream
<1> DEFINE t == ExecuteRemovePublisher(s)
<1>1. s \in Paths
  BY DEF Good, Typed
<1>2. /\ t \in Paths
      /\ t.source = None
      /\ ~t.stream /\ ~t.recorder
      /\ t.readers = {} /\ t.told \subseteq s.told \cup s.readers
      /\ t.describing = s.describing /\ t.adding = s.adding
      /\ t.od = s.od /\ t.readyTimer = s.readyTimer
      /\ t.closeTimer = s.closeTimer /\ t.supplier = s.supplier
  <2>1. CASE s.stream
    BY <1>1, <2>1, RemovePublisherFacts, SetNotReadyFacts
  <2>2. CASE ~s.stream
    BY <1>1, <2>2, RemovePublisherFacts DEF Good, Attached, Owned, Paths
  <2> QED
    BY <2>1, <2>2
<1> HIDE DEF t
<1>3. OnHold(t) = OnHold(s)
  BY <1>2 DEF OnHold
<1>4. Typed(t)
  BY <1>2, <1>3 DEF Good, Typed
<1>5. Demanding(t)
  BY <1>2 DEF Good, Demanding, HasOnDemandStaticSource
<1>6. Owned(t, qs, rec)
  BY <1>2 DEF Owned
<1>7. Attached(t)
  BY <1>2, <1>3 DEF Good, Attached
<1>8. Sourced(t)
  BY <1>2 DEF Good, Sourced
<1> QED
  BY <1>2, <1>4, <1>5, <1>6, <1>7, <1>8 DEF Good, t

\* A source goes on the air: a static one that runs, or a publisher.
LEMMA ReadyGood ==
    ASSUME NEW s, NEW ps, NEW qs, record \in BOOLEAN, Good(s, ps, record),
           ~s.stream, s.source # None, PubTyped(qs),
           s.source \in Publishers => qs[s.source] = "started",
           SourceKind = "static" => s.supplier
    PROVE  Good(GoReady(s), qs, record)
<1> DEFINE t == GoReady(s)
           on == OnDemand /\ (SourceKind = "static" \/ s.od # "initial")
<1>1. s \in Paths
  BY DEF Good, Typed
<1>2. /\ t \in Paths
      /\ t.source = s.source /\ t.stream /\ t.recorder = record
      /\ t.told = s.told /\ t.describing = {} /\ t.adding = <<>>
      /\ t.supplier = s.supplier
      /\ s.readers \subseteq t.readers
      /\ t.readers \subseteq s.readers \cup QueueOf(s.adding)
      /\ ~on => t.od = s.od /\ t.readyTimer = s.readyTimer /\ t.closeTimer = s.closeTimer
      /\ on => /\ ~t.readyTimer
               /\ \/ t.od = "closing" /\ t.closeTimer
                  \/ t.od = "ready" /\ ~t.closeTimer /\ t.readers # {}
  BY <1>1, GoReadyFacts
<1> HIDE DEF t
<1>3. OnHold(t) = {}
  BY <1>2 DEF OnHold
<1>4. QueueOf(s.adding) \subseteq OnHold(s)
  BY DEF OnHold, QueueOf
<1>5. Typed(t)
  BY <1>2, <1>3, <1>4 DEF Good, Typed
<1>6. Demanding(t)
  <2>1. CASE on
    BY <1>2, <2>1 DEF Good, Demanding, HasOnDemandStaticSource
  <2>2. CASE ~on
    BY <1>2, <2>2 DEF Good, Demanding, HasOnDemandStaticSource
  <2> QED
    BY <2>1, <2>2
<1>7. Owned(t, qs, record)
  BY <1>2 DEF Owned
<1>8. Attached(t)
  BY <1>2, <1>3 DEF Attached
<1>9. Sourced(t)
  BY <1>2 DEF Good, Sourced
<1> QED
  BY <1>5, <1>6, <1>7, <1>8, <1>9 DEF Good, t

\* A path off the air demands its source.
LEMMA DemandFacts ==
    ASSUME NEW s \in Paths
    PROVE  LET t == Demand(s) IN
           /\ t \in Paths
           /\ t.source = s.source /\ t.stream = s.stream /\ t.recorder = s.recorder
           /\ t.readers = s.readers /\ t.told = s.told
           /\ t.describing = s.describing /\ t.adding = s.adding
           /\ t.closeTimer = s.closeTimer
           /\ s.od # "initial" =>
                t.od = s.od /\ t.readyTimer = s.readyTimer /\ t.supplier = s.supplier
           /\ s.od = "initial" => t.od = "waiting" /\ t.readyTimer /\ t.supplier
BY DEF Demand, OnDemandStart, Paths, OnDemandStates

\* What a request on hold adds to a path whose source it demanded, whether it
\* is a describe or an add.
LEMMA HoldGood ==
    ASSUME NEW s, NEW ps, NEW rec \in BOOLEAN, Good(s, ps, rec),
           NEW r \in Readers, r \notin OnHold(s) \cup s.readers \cup s.told,
           ~s.stream, OnDemand,
           NEW t \in Paths,
           LET d == Demand(s) IN
             /\ t.source = d.source /\ t.stream = d.stream /\ t.recorder = d.recorder
             /\ t.readers = d.readers /\ t.told = d.told
             /\ t.od = d.od /\ t.readyTimer = d.readyTimer
             /\ t.closeTimer = d.closeTimer /\ t.supplier = d.supplier,
           OnHold(t) = OnHold(s) \cup {r},
           \A i, j \in DOMAIN t.adding : t.adding[i] = t.adding[j] => i = j
    PROVE  Good(t, ps, rec)
<1>1. s \in Paths
  BY DEF Good, Typed
<1>2. /\ t.source = s.source /\ ~t.stream /\ t.recorder = s.recorder
      /\ t.readers = s.readers /\ t.told = s.told
      /\ t.closeTimer = s.closeTimer
      /\ s.od # "initial" =>
           t.od = s.od /\ t.readyTimer = s.readyTimer /\ t.supplier = s.supplier
      /\ s.od = "initial" => t.od = "waiting" /\ t.readyTimer /\ t.supplier
  BY <1>1, DemandFacts
<1>3. Typed(t)
  BY <1>2 DEF Good, Typed
<1>4. Demanding(t)
  BY <1>2 DEF Good, Demanding
<1>5. Owned(t, ps, rec)
  BY <1>2 DEF Good, Owned
<1>6. Attached(t)
  BY <1>2 DEF Good, Attached
<1>7. Sourced(t)
  BY <1>2 DEF Good, Sourced
<1> QED
  BY <1>3, <1>4, <1>5, <1>6, <1>7 DEF Good

\* A describe request is put on hold.
LEMMA HoldDescribeGood ==
    ASSUME NEW s, NEW ps, NEW rec \in BOOLEAN, Good(s, ps, rec),
           NEW r \in Readers, r \notin OnHold(s) \cup s.readers \cup s.told,
           ~s.stream, OnDemand
    PROVE  LET t == [Demand(s) EXCEPT !.describing = @ \cup {r}] IN
           Good(t, ps, rec) /\ OnHold(t) = OnHold(s) \cup {r}
           /\ ~t.stream /\ t.readers = s.readers
<1> DEFINE d == Demand(s)
           t == [d EXCEPT !.describing = @ \cup {r}]
<1>1. s \in Paths
  BY DEF Good, Typed
<1>2. d \in Paths /\ d.describing = s.describing /\ d.adding = s.adding
      /\ d.stream = s.stream /\ d.readers = s.readers
  BY <1>1, DemandFacts
<1> HIDE DEF d
<1>3. /\ t \in Paths
      /\ t.source = d.source /\ t.stream = d.stream /\ t.recorder = d.recorder
      /\ t.readers = d.readers /\ t.told = d.told
      /\ t.describing = d.describing \cup {r} /\ t.adding = d.adding
      /\ t.od = d.od /\ t.readyTimer = d.readyTimer
      /\ t.closeTimer = d.closeTimer /\ t.supplier = d.supplier
  BY <1>2 DEF Paths
<1> HIDE DEF t
<1>4. OnHold(t) = OnHold(s) \cup {r}
  BY <1>2, <1>3 DEF OnHold
<1>5. \A i, j \in DOMAIN t.adding : t.adding[i] = t.adding[j] => i = j
  BY <1>2, <1>3 DEF Good, Typed
<1>6. Good(t, ps, rec)
  <2>1. t \in Paths
    BY <1>3
  <2>2. LET e == Demand(s) IN
          /\ t.source = e.source /\ t.stream = e.stream /\ t.recorder = e.recorder
          /\ t.readers = e.readers /\ t.told = e.told
          /\ t.od = e.od /\ t.readyTimer = e.readyTimer
          /\ t.closeTimer = e.closeTimer /\ t.supplier = e.supplier
    BY <1>3 DEF d
  <2> QED
    BY <2>1, <2>2, <1>4, <1>5, HoldGood
<1> QED
  BY <1>2, <1>3, <1>4, <1>6 DEF t, d

\* A request to read is put on hold, at the end of the queue.
LEMMA HoldAddGood ==
    ASSUME NEW s, NEW ps, NEW rec \in BOOLEAN, Good(s, ps, rec),
           NEW r \in Readers, r \notin OnHold(s) \cup s.readers \cup s.told,
           ~s.stream, OnDemand
    PROVE  LET t == [Demand(s) EXCEPT !.adding = Append(@, r)] IN
           Good(t, ps, rec) /\ OnHold(t) = OnHold(s) \cup {r}
           /\ ~t.stream /\ t.readers = s.readers
<1> DEFINE d == Demand(s)
           t == [d EXCEPT !.adding = Append(@, r)]
<1>1. s \in Paths
  BY DEF Good, Typed
<1>2. d \in Paths /\ d.describing = s.describing /\ d.adding = s.adding
      /\ d.stream = s.stream /\ d.readers = s.readers
  BY <1>1, DemandFacts
<1> HIDE DEF d
<1>3. /\ d.adding \in Seq(Readers)
      /\ Append(d.adding, r) \in Seq(Readers)
      /\ DOMAIN Append(d.adding, r) = DOMAIN d.adding \cup {Len(d.adding) + 1}
      /\ \A i \in DOMAIN d.adding : Append(d.adding, r)[i] = d.adding[i]
      /\ Append(d.adding, r)[Len(d.adding) + 1] = r
  <2>1. d.adding \in Seq(Readers)
    BY <1>2 DEF Paths
  <2> QED
    BY <2>1
<1>4. /\ t \in Paths
      /\ t.source = d.source /\ t.stream = d.stream /\ t.recorder = d.recorder
      /\ t.readers = d.readers /\ t.told = d.told
      /\ t.describing = d.describing /\ t.adding = Append(d.adding, r)
      /\ t.od = d.od /\ t.readyTimer = d.readyTimer
      /\ t.closeTimer = d.closeTimer /\ t.supplier = d.supplier
  BY <1>2, <1>3 DEF Paths
<1> HIDE DEF t
<1>5. OnHold(t) = OnHold(s) \cup {r}
  BY <1>2, <1>3, <1>4 DEF OnHold
<1>6. \A i \in DOMAIN d.adding : d.adding[i] # r
  BY <1>2 DEF OnHold
<1>7. \A i, j \in DOMAIN t.adding : t.adding[i] = t.adding[j] => i = j
  BY <1>2, <1>3, <1>4, <1>6 DEF Good, Typed
<1>8. Good(t, ps, rec)
  <2>1. t \in Paths
    BY <1>4
  <2>2. LET e == Demand(s) IN
          /\ t.source = e.source /\ t.stream = e.stream /\ t.recorder = e.recorder
          /\ t.readers = e.readers /\ t.told = e.told
          /\ t.od = e.od /\ t.readyTimer = e.readyTimer
          /\ t.closeTimer = e.closeTimer /\ t.supplier = e.supplier
    BY <1>4 DEF d
  <2> QED
    BY <2>1, <2>2, <1>5, <1>7, HoldGood
<1> QED
  BY <1>2, <1>4, <1>5, <1>8 DEF t, d

\* A reader is attached to the stream on the air, or refused.
LEMMA AttachGood ==
    ASSUME NEW s, NEW ps, NEW rec \in BOOLEAN, Good(s, ps, rec),
           NEW r \in Readers, r \notin OnHold(s) \cup s.readers \cup s.told,
           s.stream
    PROVE  LET t == AddReaderPost(s, <<r>>) IN
           /\ Good(t, ps, rec)
           /\ t.source = s.source /\ t.stream /\ OnHold(t) = {}
           /\ t.readers \in {s.readers, s.readers \cup {r}}
<1> DEFINE t == AddReaderPost(s, <<r>>)
<1>1. s \in Paths
  BY DEF Good, Typed
<1>2. <<r>> \in Seq(Readers) /\ QueueOf(<<r>>) = {r}
  BY DEF QueueOf
<1>3. /\ t \in Paths
      /\ t.source = s.source /\ t.stream = s.stream /\ t.recorder = s.recorder
      /\ t.told = s.told /\ t.describing = s.describing /\ t.adding = s.adding
      /\ t.readyTimer = s.readyTimer /\ t.supplier = s.supplier
      /\ s.readers \subseteq t.readers
      /\ t.readers \subseteq s.readers \cup {r}
      /\ \/ t.od = s.od /\ t.closeTimer = s.closeTimer
         \/ /\ OnDemand /\ s.od = "closing" /\ t.od = "ready"
            /\ ~t.closeTimer /\ t.readers # {}
  <2> DEFINE q == <<r>>
  <2>1. q \in Seq(Readers) /\ QueueOf(q) = {r}
    BY <1>2
  <2>2. t = AddReaderPost(s, q)
    OBVIOUS
  <2> HIDE DEF q, t
  <2>3. LET w == AddReaderPost(s, q) IN
        /\ w \in Paths
        /\ w.source = s.source /\ w.stream = s.stream /\ w.recorder = s.recorder
        /\ w.told = s.told /\ w.describing = s.describing /\ w.adding = s.adding
        /\ w.readyTimer = s.readyTimer /\ w.supplier = s.supplier
        /\ s.readers \subseteq w.readers
        /\ w.readers \subseteq s.readers \cup QueueOf(q)
        /\ \/ w.od = s.od /\ w.closeTimer = s.closeTimer
           \/ /\ OnDemand /\ s.od = "closing" /\ w.od = "ready"
              /\ ~w.closeTimer /\ w.readers # {}
    BY <1>1, <2>1, AddReaderPostFacts, Zenon
  <2> QED
    BY <2>1, <2>2, <2>3, Zenon
<1> HIDE DEF t
<1>4. OnHold(t) = OnHold(s)
  BY <1>3 DEF OnHold
<1>5. Typed(t)
  BY <1>3, <1>4 DEF Good, Typed
<1>6. Demanding(t)
  BY <1>3 DEF Good, Demanding
<1>7. Owned(t, ps, rec)
  BY <1>3 DEF Good, Owned
<1>8. Attached(t)
  BY <1>3, <1>4 DEF Good, Attached
<1>9. Sourced(t)
  BY <1>3 DEF Good, Sourced
<1>10. OnHold(t) = {}
  BY <1>4 DEF Good, Attached
<1> QED
  BY <1>3, <1>5, <1>6, <1>7, <1>8, <1>9, <1>10 DEF Good, t

\* What doRemoveReader makes of a path.
Left(s, r) ==
    LET t == [s EXCEPT !.readers = @ \ {r}, !.told = @ \ {r}]
    IN  IF t.readers = {} /\ t.od = "ready" THEN ScheduleClose(t) ELSE t

\* A reader leaves, and the last one schedules the closing of the source.
LEMMA LeftGood ==
    ASSUME NEW s, NEW ps, NEW rec \in BOOLEAN, Good(s, ps, rec), NEW r
    PROVE  /\ Good(Left(s, r), ps, rec)
           /\ Left(s, r).source = s.source /\ Left(s, r).stream = s.stream
           /\ Left(s, r).readers = s.readers \ {r}
           /\ OnHold(Left(s, r)) = OnHold(s)
<1> DEFINE u == [s EXCEPT !.readers = @ \ {r}, !.told = @ \ {r}]
           t == Left(s, r)
<1>1. s \in Paths
  BY DEF Good, Typed
<1>2. /\ u \in Paths
      /\ u.source = s.source /\ u.stream = s.stream /\ u.recorder = s.recorder
      /\ u.readers = s.readers \ {r} /\ u.told = s.told \ {r}
      /\ u.describing = s.describing /\ u.adding = s.adding
      /\ u.od = s.od /\ u.readyTimer = s.readyTimer
      /\ u.closeTimer = s.closeTimer /\ u.supplier = s.supplier
  BY <1>1 DEF Paths
<1>3. t = IF u.readers = {} /\ u.od = "ready" THEN ScheduleClose(u) ELSE u
  BY DEF Left
<1> HIDE DEF u, t
<1>4. /\ t \in Paths
      /\ t.source = u.source /\ t.stream = u.stream /\ t.recorder = u.recorder
      /\ t.readers = u.readers /\ t.told = u.told
      /\ t.describing = u.describing /\ t.adding = u.adding
      /\ t.readyTimer = u.readyTimer /\ t.supplier = u.supplier
      /\ u.readers = {} /\ u.od = "ready" => t.od = "closing" /\ t.closeTimer
      /\ ~(u.readers = {} /\ u.od = "ready") => t.od = u.od /\ t.closeTimer = u.closeTimer
  BY <1>2, <1>3 DEF ScheduleClose, Paths, OnDemandStates
<1>5. OnHold(t) = OnHold(s)
  BY <1>2, <1>4 DEF OnHold
<1>6. Typed(t)
  BY <1>2, <1>4, <1>5 DEF Good, Typed
<1>7. Demanding(t)
  BY <1>2, <1>4 DEF Good, Demanding
<1>8. Owned(t, ps, rec)
  BY <1>2, <1>4 DEF Good, Owned
<1>9. Attached(t)
  BY <1>2, <1>4, <1>5 DEF Good, Attached
<1>10. Sourced(t)
  BY <1>2, <1>4 DEF Good, Sourced
<1> QED
  BY <1>2, <1>4, <1>5, <1>6, <1>7, <1>8, <1>9, <1>10 DEF Good, t

\* The ready timer: everybody on hold is answered and the source is stopped.
LEMMA TimeOutGood ==
    ASSUME NEW s, NEW ps, NEW rec \in BOOLEAN, Good(s, ps, rec), s.readyTimer
    PROVE  /\ Good(TimeOut(s), ps, rec)
           /\ TimeOut(s).source = s.source /\ ~TimeOut(s).stream
           /\ TimeOut(s).readers = s.readers /\ OnHold(TimeOut(s)) = {}
<1> DEFINE u == [s EXCEPT !.describing = {}, !.adding = <<>>, !.readyTimer = FALSE]
           t == OnDemandStop(u)
<1>1. s \in Paths
  BY DEF Good, Typed
<1>2. <<>> \in Seq(Readers)
  OBVIOUS
<1>3. /\ u \in Paths
      /\ u.source = s.source /\ u.stream = s.stream /\ u.recorder = s.recorder
      /\ u.readers = s.readers /\ u.told = s.told
      /\ u.describing = {} /\ u.adding = <<>>
      /\ u.od = s.od /\ ~u.readyTimer
      /\ u.closeTimer = s.closeTimer /\ u.supplier = s.supplier
  BY <1>1, <1>2 DEF Paths
<1>4. TimeOut(s) = t
  BY DEF TimeOut
<1> HIDE DEF u
<1>5. /\ t \in Paths
      /\ t.source = u.source /\ t.stream = u.stream /\ t.recorder = u.recorder
      /\ t.readers = u.readers /\ t.told = u.told
      /\ t.describing = {} /\ t.adding = <<>>
      /\ t.od = "initial" /\ ~t.supplier /\ ~t.readyTimer
      /\ t.closeTimer <=> u.closeTimer /\ u.od # "closing"
  BY <1>3 DEF OnDemandStop, Paths, OnDemandStates
<1> HIDE DEF t
<1>6. OnHold(t) = {}
  BY <1>5 DEF OnHold
<1>7. s.od = "waiting" /\ ~s.stream
  BY DEF Good, Demanding
<1>8. Typed(t)
  BY <1>3, <1>5, <1>6 DEF Good, Typed
<1>9. Demanding(t)
  BY <1>3, <1>5, <1>7 DEF Good, Demanding
<1>10. Owned(t, ps, rec)
  BY <1>3, <1>5 DEF Good, Owned
<1>11. Attached(t)
  BY <1>3, <1>5, <1>6 DEF Good, Attached
<1>12. Sourced(t)
  BY <1>3, <1>5, <1>7 DEF Good, Sourced
<1> QED
  BY <1>3, <1>4, <1>5, <1>6, <1>7, <1>8, <1>9, <1>10, <1>11, <1>12 DEF Good

\* The close timer of a runOnDemand command leaves the stream alone.
LEMMA CommandStopGood ==
    ASSUME NEW s, NEW ps, NEW rec \in BOOLEAN, Good(s, ps, rec), s.closeTimer,
           SourceKind = "publisher"
    PROVE  /\ Good(OnDemandStop(s), ps, rec)
           /\ OnDemandStop(s).source = s.source /\ OnDemandStop(s).stream = s.stream
           /\ OnDemandStop(s).readers = s.readers
           /\ OnHold(OnDemandStop(s)) = OnHold(s)
<1> DEFINE t == OnDemandStop(s)
<1>1. s \in Paths
  BY DEF Good, Typed
<1>2. /\ t \in Paths
      /\ t.source = s.source /\ t.stream = s.stream /\ t.recorder = s.recorder
      /\ t.readers = s.readers /\ t.told = s.told
      /\ t.describing = s.describing /\ t.adding = s.adding
      /\ t.od = "initial" /\ ~t.supplier /\ t.readyTimer = s.readyTimer
      /\ t.closeTimer <=> s.closeTimer /\ s.od # "closing"
  BY <1>1 DEF OnDemandStop, Paths, OnDemandStates
<1> HIDE DEF t
<1>3. OnHold(t) = OnHold(s)
  BY <1>2 DEF OnHold
<1>4. Typed(t)
  BY <1>2, <1>3 DEF Good, Typed
<1>5. Demanding(t)
  BY <1>2 DEF Good, Demanding, HasOnDemandStaticSource
<1>6. Owned(t, ps, rec)
  BY <1>2 DEF Good, Owned
<1>7. Attached(t)
  BY <1>2, <1>3 DEF Good, Attached
<1>8. Sourced(t)
  BY <1>2 DEF Good, Sourced
<1> QED
  BY <1>2, <1>3, <1>4, <1>5, <1>6, <1>7, <1>8 DEF Good, t

\* What doAddPublisher makes of a path without a publisher.
Assigned(s, p) == [s EXCEPT !.source = p]

\* A publisher is assigned to a path without one.
LEMMA AssignGood ==
    ASSUME NEW s, NEW ps, NEW qs, NEW rec \in BOOLEAN, Good(s, ps, rec),
           s.source = None, NEW p \in Publishers, SourceKind = "publisher",
           PubTyped(qs), qs[p] # "out"
    PROVE  /\ Good(Assigned(s, p), qs, rec)
           /\ Assigned(s, p).source = p /\ ~Assigned(s, p).stream
           /\ Assigned(s, p).readers = {} /\ OnHold(Assigned(s, p)) = OnHold(s)
<1> DEFINE t == Assigned(s, p)
<1>1. s \in Paths /\ ~s.stream /\ s.readers = {}
  BY DEF Good, Typed, Owned, Attached
<1>2. /\ t \in Paths
      /\ t.source = p /\ ~t.stream /\ t.recorder = s.recorder
      /\ t.readers = {} /\ t.told = s.told
      /\ t.describing = s.describing /\ t.adding = s.adding
      /\ t.od = s.od /\ t.readyTimer = s.readyTimer
      /\ t.closeTimer = s.closeTimer /\ t.supplier = s.supplier
  BY <1>1 DEF Paths, Assigned
<1> HIDE DEF t
<1>3. OnHold(t) = OnHold(s)
  BY <1>2 DEF OnHold
<1>4. Typed(t)
  BY <1>1, <1>2, <1>3 DEF Good, Typed
<1>5. Demanding(t)
  BY <1>1, <1>2 DEF Good, Demanding
<1>6. Owned(t, qs, rec)
  BY <1>1, <1>2 DEF Good, Owned
<1>7. Attached(t)
  BY <1>1, <1>2, <1>3 DEF Good, Attached
<1>8. Sourced(t)
  BY <1>2 DEF Good, Sourced
<1> QED
  BY <1>2, <1>3, <1>4, <1>5, <1>6, <1>7, <1>8 DEF Good, t

-----------------------------------------------------------------------------
(* The invariant.                                                           *)

Inv == TypeOK /\ PathInv

\* The invariants of a path that has not ended, as a predicate of the struct.
LEMMA InvGood ==
    ASSUME Inv, life # "done"
    PROVE  Good(pa, pub, record)
<1>1. Typed(pa)
  BY DEF Inv, TypeOK, Typed
<1>2. Demanding(pa)
  BY DEF Inv, PathInv, OnDemandConsistent, LifeConsistent, Demanding
<1>3. Owned(pa, pub, record)
  BY DEF Inv, PathInv, StreamOwned, Owned
<1>4. Attached(pa)
  BY DEF Inv, PathInv, ReadersNeedStream, Attached
<1>5. Sourced(pa)
  BY DEF Inv, PathInv, LifeConsistent, Sourced
<1>6. PubTyped(pub)
  BY DEF Inv, TypeOK, PubTyped
<1> QED
  BY <1>1, <1>2, <1>3, <1>4, <1>5, <1>6 DEF Good

\* A new path is good.
LEMMA NewPathGood ==
    ASSUME NEW ps, NEW rec \in BOOLEAN, PubTyped(ps)
    PROVE  /\ Good(NewPath, ps, rec)
           /\ NewPath.told = {} /\ NewPath.od = "initial" /\ OnHold(NewPath) = {}
           /\ ~NewPath.stream /\ NewPath.readers = {}
           /\ NewPath.source = IF SourceKind = "static" THEN Static ELSE None
<1> DEFINE t == NewPath
<1>1. <<>> \in Seq(Readers)
  OBVIOUS
<1>2. t \in Paths
  BY <1>1 DEF NewPath, Paths, OnDemandStates
<1>3. /\ t.source = IF SourceKind = "static" THEN Static ELSE None
      /\ ~t.stream /\ ~t.recorder /\ t.readers = {} /\ t.told = {}
      /\ t.describing = {} /\ t.adding = <<>> /\ t.od = "initial"
      /\ ~t.readyTimer /\ ~t.closeTimer
      /\ t.supplier <=> SourceKind = "static" /\ ~OnDemand
  BY DEF NewPath
<1> HIDE DEF t
<1>4. OnHold(t) = {}
  BY <1>3 DEF OnHold
<1>5. Typed(t)
  BY <1>2, <1>3, <1>4 DEF Typed
<1>6. Demanding(t)
  BY <1>3 DEF Demanding
<1>7. Owned(t, ps, rec)
  BY <1>3 DEF Owned
<1>8. Attached(t) /\ Sourced(t)
  BY <1>3, <1>4 DEF Attached, Sourced
<1> QED
  BY <1>3, <1>4, <1>5, <1>6, <1>7, <1>8 DEF Good, t

\* A path that is torn down satisfies the invariant.
LEMMA TeardownInv ==
    ASSUME Teardown, record' \in BOOLEAN, slash' \in BOOLEAN, override' \in BOOLEAN,
           instance' \in BOOLEAN, transcode' \in BOOLEAN
    PROVE  Inv'
<1> DEFINE t == [NewPath EXCEPT !.source = None, !.supplier = FALSE]
<1>1. <<>> \in Seq(Readers)
  OBVIOUS
<1>2. t \in Paths
  BY <1>1 DEF NewPath, Paths, OnDemandStates
<1>3. /\ t.source = None
      /\ ~t.stream /\ ~t.recorder /\ t.readers = {} /\ t.told = {}
      /\ t.describing = {} /\ t.adding = <<>> /\ t.od = "initial"
      /\ ~t.readyTimer /\ ~t.closeTimer /\ ~t.supplier
  BY DEF NewPath
<1>4. pa' = t /\ life' = "done" /\ pub' = [p \in Publishers |-> "out"]
  BY DEF Teardown
<1> HIDE DEF t
<1>5. OnHold(pa') = {}
  BY <1>3, <1>4 DEF OnHold
<1>6. TypeOK'
  BY <1>2, <1>3, <1>4, <1>5 DEF TypeOK, OnHold
<1>7. PathInv'
  <2>1. OnDemandConsistent'
    BY <1>3, <1>4 DEF OnDemandConsistent
  <2>2. StreamOwned'
    BY <1>3, <1>4 DEF StreamOwned
  <2>3. NoIdlePath'
    BY <1>4 DEF NoIdlePath
  <2>4. ReadersNeedStream'
    BY <1>3, <1>4, <1>5 DEF ReadersNeedStream, OnHold
  <2>5. LifeConsistent'
    BY <1>3, <1>4, <1>5 DEF LifeConsistent, OnHold
  <2> QED
    BY <2>1, <2>2, <2>3, <2>4, <2>5 DEF PathInv
<1> QED
  BY <1>6, <1>7 DEF Inv

\* A step that leaves a good path keeps the invariant, if the path is in use
\* or nobody has used it yet.
LEMMA MadeInv ==
    ASSUME NEW s, NEW ps, pa' = s, pub' = ps, Good(s, ps, record'),
           life' \in {"created", "running", "panicStart", "panicRemove"},
           life' = "running" => ~ShouldClose(s),
           life' = "created" /\ SourceKind = "publisher" =>
             /\ s.source = None /\ s.told = {} /\ s.od = "initial"
             /\ OnHold(s) = {},
           life' = "created" => \A p \in Publishers : ps[p] = "out",
           record' \in BOOLEAN, slash' \in BOOLEAN, override' \in BOOLEAN,
           instance' \in BOOLEAN, transcode' \in BOOLEAN
    PROVE  Inv'
<1> USE DEF Good
<1>1. TypeOK'
  BY DEF Typed, PubTyped, TypeOK, OnHold
<1>2. OnDemandConsistent'
  BY DEF Demanding, OnDemandConsistent, HasOnDemandStaticSource
<1>3. StreamOwned'
  BY DEF Owned, StreamOwned
<1>4. NoIdlePath'
  BY DEF NoIdlePath, ShouldClose, OnHold
<1>5. ReadersNeedStream'
  BY DEF Attached, ReadersNeedStream, OnHold
<1>6. LifeConsistent'
  BY DEF Sourced, Demanding, LifeConsistent, OnHold
<1> QED
  BY <1>1, <1>2, <1>3, <1>4, <1>5, <1>6 DEF Inv, PathInv

\* A handler that leaves a good path which is in use keeps the invariant.
LEMMA StayInv ==
    ASSUME NEW s, NEW ps, Stay(s, ps), Good(s, ps, record'), ~ShouldClose(s),
           record' \in BOOLEAN, slash' \in BOOLEAN, override' \in BOOLEAN,
           instance' \in BOOLEAN, transcode' \in BOOLEAN
    PROVE  Inv'
<1>1. pa' = s /\ pub' = ps /\ life' = "running"
  BY DEF Stay
<1> QED
  BY <1>1, MadeInv

\* The same where runInner asks shouldClose, and any good path will do.
LEMMA SettleInv ==
    ASSUME NEW s, NEW ps, Settle(s, ps), Good(s, ps, record'),
           record' \in BOOLEAN, slash' \in BOOLEAN, override' \in BOOLEAN,
           instance' \in BOOLEAN, transcode' \in BOOLEAN
    PROVE  Inv'
<1>1. CASE ShouldClose(s)
  BY <1>1, TeardownInv DEF Settle
<1>2. CASE ~ShouldClose(s)
  BY <1>2, StayInv DEF Settle
<1> QED
  BY <1>1, <1>2

-----------------------------------------------------------------------------
(* The limit on readers.                                                    *)

Fits(rs) == MaxReaders = 0 \/ Cardinality(rs) <= MaxReaders

\* The requests in the first n places of a queue are at most n.
LEMMA PrefixCardinality ==
    ASSUME NEW q \in Seq(Readers), NEW n \in Nat, n <= Len(q)
    PROVE  LET rs == {q[i] : i \in 1..n} IN
           IsFiniteSet(rs) /\ Cardinality(rs) <= n
<1> DEFINE rs == {q[i] : i \in 1..n}
           f == [i \in 1..n |-> q[i]]
<1>1. f \in Surjection(1..n, rs)
  BY DEF Surjection
<1>2. IsFiniteSet(1..n) /\ Cardinality(1..n) = n
  <2>1. IsFiniteSet(1..n) /\ Cardinality(1..n) = IF 1 > n THEN 0 ELSE n - 1 + 1
    BY FS_Interval
  <2> QED
    BY <2>1
<1> HIDE DEF f, rs
<1>3. IsFiniteSet(rs) /\ Cardinality(rs) <= Cardinality(1..n)
  BY <1>1, <1>2, FS_Surjection
<1> QED
  BY <1>2, <1>3 DEF rs

\* addReaderPost respects the limit, however many requests it is given.
LEMMA AddReaderPostFits ==
    ASSUME NEW s \in Paths, NEW q \in Seq(Readers), Fits(s.readers)
    PROVE  Fits(AddReaderPost(s, q).readers)
<1> DEFINE room == IF MaxReaders = 0 \/ Cardinality(s.readers) + Len(q) <= MaxReaders
                   THEN Len(q) ELSE MaxReaders - Cardinality(s.readers)
           new == {q[i] : i \in 1..room}
<1> SUFFICES ASSUME MaxReaders # 0
             PROVE  Cardinality(AddReaderPost(s, q).readers) <= MaxReaders
  BY DEF Fits
<1>1. IsFiniteSet(s.readers) /\ Cardinality(s.readers) \in Nat
  BY FS_Subset, FS_CardinalityType DEF Paths
<1>2. Cardinality(s.readers) <= MaxReaders
  BY DEF Fits
<1>3. Len(q) \in Nat
  OBVIOUS
<1>4. /\ room \in Nat /\ room <= Len(q)
      /\ Cardinality(s.readers) + room <= MaxReaders
  BY <1>1, <1>2, <1>3
<1>5. AddReaderPost(s, q).readers = s.readers \cup new
  BY DEF AddReaderPost, Paths
<1> HIDE DEF room
<1>6. IsFiniteSet(new) /\ Cardinality(new) <= room
  BY <1>4, PrefixCardinality
<1> HIDE DEF new
<1>7. Cardinality(new) \in Nat /\ Cardinality(s.readers \cap new) \in Nat
  BY <1>1, <1>6, FS_CardinalityType, FS_Intersection
<1>8. Cardinality(s.readers \cup new) =
        Cardinality(s.readers) + Cardinality(new) - Cardinality(s.readers \cap new)
  BY <1>1, <1>6, FS_Union
<1> QED
  BY <1>1, <1>4, <1>5, <1>6, <1>7, <1>8

\* So does the source that goes on the air and admits all those on hold.
LEMMA GoReadyFits ==
    ASSUME NEW s \in Paths, record \in BOOLEAN, Fits(s.readers)
    PROVE  Fits(GoReady(s).readers)
<1> DEFINE on == OnDemand /\ (SourceKind = "static" \/ s.od # "initial")
           ready == [s EXCEPT !.stream = TRUE, !.recorder = record]
           u == IF on THEN ScheduleClose([ready EXCEPT !.readyTimer = FALSE]) ELSE ready
           v == [u EXCEPT !.describing = {}, !.adding = <<>>]
<1>1. u \in Paths /\ u.readers = s.readers
  BY DEF ScheduleClose, Paths, OnDemandStates
<1>2. GoReady(s) = AddReaderPost(v, u.adding)
  BY DEF GoReady, ConsumeOnHold
<1> HIDE DEF u
<1>3. <<>> \in Seq(Readers)
  OBVIOUS
<1>4. v \in Paths /\ v.readers = s.readers /\ u.adding \in Seq(Readers)
  BY <1>1, <1>3 DEF Paths
<1> HIDE DEF v
<1> QED
  BY <1>2, <1>4, AddReaderPostFits

-----------------------------------------------------------------------------
(* The steps of the switch, as a relation between paths.                    *)

OnAir(s) == IF s.stream THEN s.source ELSE None

\* What readers see of the path stays the same.
Same(s, t) ==
    OnAir(t) = OnAir(s) /\ t.readers = s.readers /\ OnHold(t) = OnHold(s)

Moves(s, t) ==
    \/ Same(s, t)
    \/ /\ OnAir(s) = None /\ OnAir(t) \in Publishers \cup {Static}
       /\ t.readers \subseteq OnHold(s) /\ Fits(t.readers) /\ OnHold(t) = {}
    \/ /\ OnAir(s) # None /\ OnAir(t) = None
       /\ t.readers = {} /\ OnHold(t) = OnHold(s)
    \/ /\ OnAir(s) = None /\ OnAir(t) = None
       /\ t.readers = s.readers /\ OnHold(t) = {}
    \/ \E r \in Readers :
         \/ /\ OnAir(s) = None /\ OnAir(t) = None
            /\ t.readers = s.readers /\ OnHold(t) = OnHold(s) \cup {r}
         \/ /\ OnAir(s) # None /\ OnAir(t) = OnAir(s)
            /\ t.readers = s.readers \cup {r} /\ Fits(t.readers)
            /\ OnHold(t) = OnHold(s)
         \/ /\ OnAir(t) = OnAir(s)
            /\ t.readers = s.readers \ {r} /\ OnHold(t) = OnHold(s)

\* These are the steps of the abstract specification.
LEMMA MovesAreSwitchSteps ==
    ASSUME Moves(pa, pa'), pa' \in Paths
    PROVE  [Switch!SwitchNext]_(Switch!switchVars)
<1> USE DEF OnAir
<1>1. CASE Same(pa, pa')
  BY <1>1 DEF Same, Switch!switchVars, OnHold
<1>2. CASE /\ OnAir(pa) = None /\ OnAir(pa') \in Publishers \cup {Static}
           /\ pa'.readers \subseteq OnHold(pa) /\ Fits(pa'.readers) /\ OnHold(pa') = {}
  BY <1>2 DEF Switch!SwitchNext, Switch!GoOnline, Switch!Fits, Fits, OnHold, Cardinality, Switch!Cardinality
<1>3. CASE /\ OnAir(pa) # None /\ OnAir(pa') = None
           /\ pa'.readers = {} /\ OnHold(pa') = OnHold(pa)
  BY <1>3 DEF Switch!SwitchNext, Switch!GoOffline, OnHold
<1>4. CASE /\ OnAir(pa) = None /\ OnAir(pa') = None
           /\ pa'.readers = pa.readers /\ OnHold(pa') = {}
  BY <1>4 DEF Switch!SwitchNext, Switch!GiveUp, OnHold
<1>5. ASSUME NEW r \in Readers,
             /\ OnAir(pa) = None /\ OnAir(pa') = None
             /\ pa'.readers = pa.readers /\ OnHold(pa') = OnHold(pa) \cup {r}
      PROVE  Switch!SwitchNext
  <2>1. Switch!Hold(r)
    BY <1>5 DEF Switch!Hold, OnHold
  <2> QED
    BY <2>1 DEF Switch!SwitchNext
<1>6. ASSUME NEW r \in Readers,
             /\ OnAir(pa) # None /\ OnAir(pa') = OnAir(pa)
             /\ pa'.readers = pa.readers \cup {r} /\ Fits(pa'.readers)
             /\ OnHold(pa') = OnHold(pa)
      PROVE  Switch!SwitchNext
  <2>1. Switch!Attach(r)
    BY <1>6 DEF Switch!Attach, Switch!Fits, Fits, OnHold, Cardinality, Switch!Cardinality
  <2> QED
    BY <2>1 DEF Switch!SwitchNext
<1>7. ASSUME NEW r \in Readers,
             /\ OnAir(pa') = OnAir(pa)
             /\ pa'.readers = pa.readers \ {r} /\ OnHold(pa') = OnHold(pa)
      PROVE  Switch!SwitchNext
  <2>1. Switch!Detach(r)
    BY <1>7 DEF Switch!Detach, OnHold
  <2> QED
    BY <2>1 DEF Switch!SwitchNext
<1> QED
  BY <1>1, <1>2, <1>3, <1>4, <1>5, <1>6, <1>7 DEF Moves

\* None of them exceeds the limit.
LEMMA MovesFit ==
    ASSUME NEW s, NEW t, Typed(s), Fits(s.readers), Moves(s, t)
    PROVE  Fits(t.readers)
<1>1. IsFiniteSet(s.readers) /\ Cardinality(s.readers) \in Nat
  BY FS_Subset, FS_CardinalityType DEF Typed, Paths
<1>2. Fits({})
  BY FS_EmptySet DEF Fits
<1>3. ASSUME NEW r \in Readers PROVE Fits(s.readers \ {r})
  <2>1. IsFiniteSet(s.readers \ {r}) /\ Cardinality(s.readers \ {r}) <= Cardinality(s.readers)
    BY <1>1, FS_Subset
  <2>2. Cardinality(s.readers \ {r}) \in Nat
    BY <2>1, FS_CardinalityType
  <2> QED
    BY <1>1, <2>1, <2>2 DEF Fits
<1> QED
  BY <1>2, <1>3 DEF Moves, Same

\* A path that is torn down because it is unused looks as it did.
LEMMA SettleMoves ==
    ASSUME NEW s, NEW ps, NEW rec, Settle(s, ps), Good(s, ps, rec), Moves(pa, s)
    PROVE  Moves(pa, pa')
<1>1. CASE ~ShouldClose(s)
  BY <1>1 DEF Settle, Stay
<1>2. CASE ShouldClose(s)
  <2> DEFINE t == [NewPath EXCEPT !.source = None, !.supplier = FALSE]
  <2>1. pa' = t
    BY <1>2 DEF Settle, Teardown
  <2>2. ~t.stream /\ t.readers = {} /\ t.describing = {} /\ t.adding = <<>>
    BY DEF NewPath
  <2> HIDE DEF t
  <2>3. OnHold(t) = {} /\ OnAir(t) = None
    BY <2>2 DEF OnHold, OnAir
  <2>4. OnHold(s) = {} /\ OnAir(s) = None /\ s.readers = {}
    BY <1>2 DEF ShouldClose, OnAir
  <2> QED
    BY <2>1, <2>2, <2>3, <2>4 DEF Moves, Same
<1> QED
  BY <1>1, <1>2

-----------------------------------------------------------------------------
(* The actions.                                                             *)

IInv == Inv /\ ReaderLimit

\* What each action is shown to do.
Kept == Inv' /\ Moves(pa, pa')

\* The facts about the state before a step that the actions share.
LEMMA Before ==
    ASSUME IInv, Serving
    PROVE  /\ Good(pa, pub, record) /\ Fits(pa.readers)
           /\ pa \in Paths /\ PubTyped(pub)
           /\ life \in {"created", "running"}
           /\ record \in BOOLEAN /\ slash \in BOOLEAN /\ override \in BOOLEAN
           /\ instance \in BOOLEAN /\ transcode \in BOOLEAN
           /\ life = "running" => ~ShouldClose(pa)
           /\ life = "created" => \A p \in Publishers : pub[p] = "out"
           /\ life = "created" /\ SourceKind = "publisher" =>
                /\ pa.source = None /\ pa.told = {} /\ pa.od = "initial"
                /\ OnHold(pa) = {} /\ pa.readers = {}
<1>1. Inv /\ life # "done" /\ life \in {"created", "running"}
  BY DEF IInv, Serving
<1>2. Good(pa, pub, record)
  BY <1>1, InvGood
<1>3. Fits(pa.readers)
  BY DEF IInv, ReaderLimit, Fits
<1> QED
  BY <1>1, <1>2, <1>3 DEF Inv, TypeOK, PathInv, NoIdlePath, LifeConsistent, Good,
                          PubTyped, Sourced, Attached, Owned

\* doDescribe answers at once or puts the request on hold.
LEMMA DescribeStep ==
    ASSUME IInv, NEW r \in Readers, DoDescribe(r)
    PROVE  Kept
<1> DEFINE s == IF pa.stream \/ ~OnDemand THEN pa
                ELSE [Demand(pa) EXCEPT !.describing = @ \cup {r}]
<1>1. Serving /\ Idle(r) /\ Settle(s, pub) /\ UNCHANGED <<record, slash, override, instance, transcode>>
  BY DEF DoDescribe, confVars, liveVars
<1>2. Good(pa, pub, record) /\ TypeOK
  BY <1>1, Before DEF IInv, Inv
<1>3. record \in BOOLEAN /\ slash \in BOOLEAN /\ override \in BOOLEAN /\ instance \in BOOLEAN /\ transcode \in BOOLEAN
  BY <1>2 DEF TypeOK
<1>4. Good(s, pub, record) /\ Moves(pa, s)
  <2>1. CASE pa.stream \/ ~OnDemand
    BY <1>2, <2>1 DEF Moves, Same
  <2>2. CASE ~(pa.stream \/ ~OnDemand)
    <3> DEFINE t == [Demand(pa) EXCEPT !.describing = @ \cup {r}]
    <3>1. Good(t, pub, record) /\ OnHold(t) = OnHold(pa) \cup {r}
          /\ ~t.stream /\ t.readers = pa.readers
      <4>1. r \notin OnHold(pa) \cup pa.readers \cup pa.told
        BY <1>1 DEF Idle
      <4> QED
        BY <4>1, <1>2, <1>3, <2>2, HoldDescribeGood
    <3>2. s = t
      BY <2>2
    <3> HIDE DEF t, s
    <3> QED
      BY <2>2, <3>1, <3>2 DEF Moves, OnAir
  <2> QED
    BY <2>1, <2>2
<1> HIDE DEF s
<1> QED
  BY <1>1, <1>3, <1>4, SettleInv, SettleMoves DEF Kept

\* doAddReader attaches the reader, refuses it or puts the request on hold.
LEMMA AddReaderStep ==
    ASSUME IInv, NEW r \in Readers, DoAddReader(r)
    PROVE  Kept
<1> DEFINE s == IF pa.stream THEN AddReaderPost(pa, <<r>>)
                ELSE IF ~OnDemand THEN pa
                ELSE [Demand(pa) EXCEPT !.adding = Append(@, r)]
<1>1. Serving /\ Idle(r) /\ Settle(s, pub) /\ UNCHANGED <<record, slash, override, instance, transcode>>
  BY DEF DoAddReader, confVars, liveVars
<1>2. Good(pa, pub, record) /\ Fits(pa.readers) /\ TypeOK /\ pa \in Paths
  BY <1>1, Before DEF IInv, Inv
<1>3. record \in BOOLEAN /\ slash \in BOOLEAN /\ override \in BOOLEAN /\ instance \in BOOLEAN /\ transcode \in BOOLEAN
  BY <1>2 DEF TypeOK
<1>4. Good(s, pub, record) /\ Moves(pa, s)
  <2>1. CASE pa.stream
    <3> DEFINE t == AddReaderPost(pa, <<r>>)
    <3>1. /\ Good(t, pub, record)
          /\ t.source = pa.source /\ t.stream /\ OnHold(t) = {}
          /\ t.readers \in {pa.readers, pa.readers \cup {r}}
      BY <1>1, <1>2, <1>3, <2>1, AttachGood DEF Idle
    <3>2. <<r>> \in Seq(Readers)
      OBVIOUS
    <3>3. Fits(t.readers)
      BY <1>2, <3>2, AddReaderPostFits
    <3>4. s = t
      BY <2>1
    <3>5. OnHold(pa) = {} /\ pa.source # None
      BY <1>2, <2>1 DEF Good, Attached, Owned
    <3> HIDE DEF t, s
    <3> QED
      BY <2>1, <3>1, <3>3, <3>4, <3>5 DEF Moves, Same, OnAir
  <2>2. CASE ~pa.stream /\ ~OnDemand
    BY <1>2, <2>2 DEF Moves, Same
  <2>3. CASE ~pa.stream /\ OnDemand
    <3> DEFINE t == [Demand(pa) EXCEPT !.adding = Append(@, r)]
    <3>1. Good(t, pub, record) /\ OnHold(t) = OnHold(pa) \cup {r}
          /\ ~t.stream /\ t.readers = pa.readers
      <4>1. r \notin OnHold(pa) \cup pa.readers \cup pa.told
        BY <1>1 DEF Idle
      <4> QED
        BY <4>1, <1>2, <1>3, <2>3, HoldAddGood
    <3>2. s = t
      BY <2>3
    <3> HIDE DEF t, s
    <3> QED
      BY <2>3, <3>1, <3>2 DEF Moves, OnAir
  <2> QED
    BY <2>1, <2>2, <2>3
<1> HIDE DEF s
<1> QED
  BY <1>1, <1>3, <1>4, SettleInv, SettleMoves DEF Kept

\* doRemoveReader: a path whose last reader has left still has its source.
LEMMA RemoveReaderStep ==
    ASSUME IInv, NEW r \in Readers, DoRemoveReader(r)
    PROVE  Kept
<1>1. /\ Serving /\ r \in pa.readers \cup pa.told /\ Stay(Left(pa, r), pub)
      /\ UNCHANGED <<record, slash, override, instance, transcode>>
  BY DEF DoRemoveReader, Left, confVars, liveVars
<1>2. /\ Good(pa, pub, record)
      /\ record \in BOOLEAN /\ slash \in BOOLEAN /\ override \in BOOLEAN
      /\ instance \in BOOLEAN /\ transcode \in BOOLEAN
  BY <1>1, Before
<1> DEFINE s == Left(pa, r)
<1>3. /\ Good(s, pub, record) /\ s.source = pa.source /\ s.stream = pa.stream
      /\ s.readers = pa.readers \ {r} /\ OnHold(s) = OnHold(pa)
  BY <1>2, LeftGood
<1> HIDE DEF s
<1>4. ~ShouldClose(s)
  <2>1. CASE SourceKind = "static"
    BY <1>2, <1>3, <2>1 DEF Good, Sourced, ShouldClose
  <2>2. CASE SourceKind = "publisher" /\ pa.source # None
    BY <1>3, <2>2 DEF ShouldClose
  <2>3. CASE SourceKind = "publisher" /\ pa.source = None
    <3>1. pa.readers = {} /\ life = "running"
      BY <1>1, <1>2, <2>3, Before DEF Good, Owned, Attached
    <3> QED
      BY <1>1, <1>3, <3>1, Before DEF ShouldClose
  <2> QED
    BY <2>1, <2>2, <2>3
<1>5. Moves(pa, s)
  BY <1>3 DEF Moves, OnAir
<1>6. pa' = s
  BY <1>1 DEF Stay, s
<1> QED
  BY <1>1, <1>2, <1>3, <1>4, <1>5, <1>6, StayInv DEF Kept, s

\* An order to the backend, obeyed or not.
LEMMA ToldTyped ==
    ASSUME IInv, NEW o, NEW order \in BOOLEAN, Told(o, order)
    PROVE  transcode' \in BOOLEAN
BY DEF Told, IInv, Inv, TypeOK

\* doAddPublisher, alone or in the place of the publisher before.
LEMMA AddPublisherStep ==
    ASSUME IInv, NEW p \in Publishers, DoAddPublisher(p)
    PROVE  Kept
<1> DEFINE u == IF pa.source = None THEN pa ELSE ExecuteRemovePublisher(pa)
           qs == [pub EXCEPT ![p] = "added"]
           s == Assigned(u, p)
<1>1. /\ Serving /\ SourceKind = "publisher" /\ Stay(s, qs)
      /\ UNCHANGED <<record, slash, override, instance, transcode>>
  BY DEF DoAddPublisher, Assigned, confVars, liveVars
<1>2. /\ Good(pa, pub, record) /\ PubTyped(pub) /\ pa \in Paths
      /\ record \in BOOLEAN /\ slash \in BOOLEAN /\ override \in BOOLEAN
      /\ instance \in BOOLEAN /\ transcode \in BOOLEAN
  BY <1>1, Before
<1>3. PubTyped(qs) /\ qs[p] # "out"
  BY <1>2 DEF PubTyped
<1>4. /\ Good(u, pub, record) /\ u.source = None
      /\ OnAir(u) = None /\ OnHold(u) = OnHold(pa)
  <2>1. CASE pa.source = None
    BY <1>2, <2>1 DEF OnAir
  <2>2. CASE pa.source # None
    <3>1. /\ Good(ExecuteRemovePublisher(pa), pub, record)
          /\ ExecuteRemovePublisher(pa).source = None
          /\ ~ExecuteRemovePublisher(pa).stream
      BY <1>1, <1>2, RemoveGood
    <3>2. OnHold(ExecuteRemovePublisher(pa)) = OnHold(pa)
      BY <1>2, RemovePublisherFacts DEF OnHold
    <3> QED
      BY <2>2, <3>1, <3>2 DEF OnAir
  <2> QED
    BY <2>1, <2>2
<1> HIDE DEF u, qs
<1>5. /\ Good(s, qs, record)
      /\ s.source = p /\ ~s.stream /\ s.readers = {} /\ OnHold(s) = OnHold(u)
  BY <1>1, <1>2, <1>3, <1>4, AssignGood
<1> HIDE DEF s
<1>6. ~ShouldClose(s)
  BY <1>5 DEF ShouldClose
<1>7. Moves(pa, s)
  <2>1. CASE pa.stream
    BY <1>2, <1>4, <1>5, <2>1 DEF Moves, OnAir, Good, Owned
  <2>2. CASE ~pa.stream
    <3>1. pa.readers = {}
      BY <1>2, <2>2 DEF Good, Attached
    <3> QED
      BY <1>4, <1>5, <2>2, <3>1 DEF Moves, Same, OnAir
  <2> QED
    BY <2>1, <2>2
<1>8. pa' = s
  BY <1>1 DEF Stay
<1> QED
  BY <1>1, <1>2, <1>5, <1>6, <1>7, <1>8, StayInv DEF Kept

\* A publisher is refused, or its start fails: the path stays as it is.
LEMMA RefusedStep ==
    ASSUME IInv, Serving, Stay(pa, pub), record' = record, slash' = slash, override' = override,
           instance' \in BOOLEAN, transcode' \in BOOLEAN,
           NEW p \in Publishers,
           SourceKind # "publisher" \/ pa.source # None \/ pub[p] # "out"
    PROVE  Kept
<1>1. /\ Good(pa, pub, record)
      /\ record \in BOOLEAN /\ slash \in BOOLEAN /\ override \in BOOLEAN
  BY Before
<1>2. ~ShouldClose(pa)
  <2>1. CASE SourceKind # "publisher"
    BY <1>1, <2>1 DEF Good, Sourced, ShouldClose
  <2>2. CASE pa.source # None
    BY <2>2 DEF ShouldClose
  <2>3. CASE pub[p] # "out"
    BY <2>3, Before
  <2> QED
    BY <2>1, <2>2, <2>3
<1>3. pa' = pa
  BY DEF Stay
<1>4. Moves(pa, pa')
  BY <1>3 DEF Moves, Same
<1> QED
  BY <1>1, <1>2, <1>4, StayInv DEF Kept

\* A source goes on the air.
LEMMA ReadyMoves ==
    ASSUME IInv, Serving, ~pa.stream, pa.source # None
    PROVE  Moves(pa, GoReady(pa))
<1> DEFINE t == GoReady(pa)
<1>1. Good(pa, pub, record) /\ pa \in Paths /\ Fits(pa.readers) /\ record \in BOOLEAN
  BY Before
<1>2. pa.readers = {}
  BY <1>1 DEF Good, Attached
<1>3. /\ t.source = pa.source /\ t.stream /\ t.describing = {} /\ t.adding = <<>>
      /\ t.readers \subseteq QueueOf(pa.adding)
  BY <1>1, <1>2, GoReadyFacts
<1>4. Fits(t.readers)
  BY <1>1, GoReadyFits
<1>5. pa.source \in Publishers \cup {Static}
  BY <1>1 DEF Paths
<1> HIDE DEF t
<1>6. OnHold(t) = {} /\ t.readers \subseteq OnHold(pa)
  BY <1>3 DEF OnHold, QueueOf
<1>7. OnAir(pa) = None /\ OnAir(t) \in Publishers \cup {Static}
  BY <1>3, <1>5 DEF OnAir
<1> QED
  BY <1>4, <1>6, <1>7 DEF Moves, t

\* doStartPublisher with the consent of the backend.
LEMMA StartPublisherStep ==
    ASSUME IInv, NEW p \in Publishers, DoStartPublisher(p)
    PROVE  Kept
<1> DEFINE qs == [pub EXCEPT ![p] = "started"]
<1>1. /\ Serving /\ pub[p] = "added" /\ pa.source = p /\ Stay(GoReady(pa), qs)
      /\ UNCHANGED <<record, slash, override>> /\ instance' = TRUE /\ transcode' \in BOOLEAN
  BY ToldTyped DEF DoStartPublisher, confVars
<1>2. /\ Good(pa, pub, record) /\ PubTyped(pub) /\ pa \in Paths
      /\ record \in BOOLEAN /\ slash \in BOOLEAN /\ override \in BOOLEAN
  BY <1>1, Before
<1>3. PubTyped(qs) /\ qs[p] = "started"
  BY <1>2 DEF PubTyped
<1>4. pa.source # None /\ ~pa.stream /\ SourceKind = "publisher"
  BY <1>1, <1>2 DEF Good, Owned, Sourced
<1> HIDE DEF qs
<1>5. Good(GoReady(pa), qs, record)
  BY <1>1, <1>2, <1>3, <1>4, ReadyGood
<1>6. ~ShouldClose(GoReady(pa))
  BY <1>2, <1>4, GoReadyFacts DEF ShouldClose
<1>7. Moves(pa, GoReady(pa)) /\ pa' = GoReady(pa)
  BY <1>1, <1>4, ReadyMoves DEF Stay
<1> QED
  BY <1>1, <1>2, <1>5, <1>6, <1>7, StayInv DEF Kept

\* setNotReady, as readers see it.
LEMMA NotReadyMoves ==
    ASSUME NEW ps, NEW rec, Good(pa, ps, rec), pa.stream
    PROVE  Moves(pa, SetNotReady(pa))
<1> DEFINE t == SetNotReady(pa)
<1>1. ~t.stream /\ t.readers = {} /\ t.describing = pa.describing /\ t.adding = pa.adding
  BY SetNotReadyFacts DEF Good, Typed
<1> HIDE DEF t
<1>2. OnHold(t) = OnHold(pa)
  BY <1>1 DEF OnHold
<1> QED
  BY <1>1, <1>2 DEF Moves, OnAir, Good, Owned, t

\* doStopPublisher.
LEMMA StopPublisherStep ==
    ASSUME IInv, NEW p \in Publishers, DoStopPublisher(p)
    PROVE  Kept
<1> DEFINE s == IF pa.source = p /\ pa.stream THEN SetNotReady(pa) ELSE pa
           qs == [pub EXCEPT ![p] = "added"]
<1>1. /\ Serving /\ Settle(s, qs)
      /\ UNCHANGED <<record, slash, override, instance, transcode>>
  BY DEF DoStopPublisher, confVars, liveVars
<1>2. /\ Good(pa, pub, record) /\ PubTyped(pub) /\ pa \in Paths
      /\ record \in BOOLEAN /\ slash \in BOOLEAN /\ override \in BOOLEAN
      /\ instance \in BOOLEAN /\ transcode \in BOOLEAN
  BY <1>1, Before
<1>3. PubTyped(qs) /\ \A q \in Publishers : qs[q] = IF q = p THEN "added" ELSE pub[q]
  BY <1>2 DEF PubTyped
<1> HIDE DEF qs
<1>4. Good(s, qs, record) /\ Moves(pa, s)
  <2>1. CASE pa.source = p /\ pa.stream
    <3>1. SourceKind = "publisher"
      BY <1>2, <2>1 DEF Good, Sourced
    <3>2. Good(SetNotReady(pa), pub, record)
      BY <1>2, <3>1, NotReadyGood DEF HasOnDemandStaticSource
    <3>3. Owned(SetNotReady(pa), qs, record)
      BY <1>2, <1>3, <2>1, <3>2, SetNotReadyFacts DEF Good, Owned
    <3>4. Good(SetNotReady(pa), qs, record)
      BY <1>3, <3>2, <3>3 DEF Good
    <3> QED
      BY <1>2, <2>1, <3>4, NotReadyMoves
  <2>2. CASE ~(pa.source = p /\ pa.stream)
    <3>1. Owned(pa, qs, record)
      BY <1>2, <1>3, <2>2 DEF Good, Owned
    <3> QED
      BY <1>2, <1>3, <2>2, <3>1 DEF Good, Moves, Same
  <2> QED
    BY <2>1, <2>2
<1> HIDE DEF s
<1> QED
  BY <1>1, <1>2, <1>4, SettleInv, SettleMoves DEF Kept

\* doRemovePublisher.
LEMMA RemovePublisherStep ==
    ASSUME IInv, NEW p \in Publishers, DoRemovePublisher(p)
    PROVE  Kept
<1> DEFINE s == IF pa.source = p THEN ExecuteRemovePublisher(pa) ELSE pa
           qs == [pub EXCEPT ![p] = "out"]
<1>1. /\ Serving /\ Settle(s, qs)
      /\ UNCHANGED <<record, slash, override, instance>> /\ transcode' \in BOOLEAN
  BY ToldTyped DEF DoRemovePublisher, confVars
<1>2. /\ Good(pa, pub, record) /\ PubTyped(pub) /\ pa \in Paths
      /\ record \in BOOLEAN /\ slash \in BOOLEAN /\ override \in BOOLEAN /\ instance \in BOOLEAN
  BY <1>1, Before
<1>3. PubTyped(qs) /\ \A q \in Publishers : qs[q] = IF q = p THEN "out" ELSE pub[q]
  BY <1>2 DEF PubTyped
<1> HIDE DEF qs
<1>4. Good(s, qs, record) /\ Moves(pa, s)
  <2>1. CASE pa.source = p
    <3> DEFINE t == ExecuteRemovePublisher(pa)
    <3>1. SourceKind = "publisher"
      BY <1>2, <2>1 DEF Good, Sourced
    <3>2. Good(t, qs, record) /\ t.source = None /\ ~t.stream
      BY <1>2, <1>3, <3>1, RemoveGood
    <3>3. t.describing = pa.describing /\ t.adding = pa.adding
      BY <1>2, RemovePublisherFacts
    <3>4. s = t
      BY <2>1
    <3> HIDE DEF t, s
    <3>5. OnHold(t) = OnHold(pa) /\ t.readers = {} /\ OnAir(t) = None
      BY <3>2, <3>3 DEF OnHold, Good, Attached, OnAir
    <3>6. pa.source # None /\ (~pa.stream => pa.readers = {})
      BY <1>2, <2>1 DEF Good, Attached
    <3> QED
      BY <3>2, <3>4, <3>5, <3>6 DEF Moves, Same, OnAir
  <2>2. CASE pa.source # p
    <3>1. Owned(pa, qs, record)
      BY <1>2, <1>3, <2>2 DEF Good, Owned
    <3> QED
      BY <1>2, <1>3, <2>2, <3>1 DEF Good, Moves, Same
  <2> QED
    BY <2>1, <2>2
<1> HIDE DEF s
<1> QED
  BY <1>1, <1>2, <1>4, SettleInv, SettleMoves DEF Kept

\* A panic ends the server in the middle of a request.
LEMMA PanicStep ==
    ASSUME IInv, Serving, NEW where \in {"panicStart", "panicRemove"}, Panic(where)
    PROVE  Kept
<1>1. /\ pa' = pa /\ pub' = pub /\ life' = where
      /\ UNCHANGED <<record, slash, override, instance, transcode>>
  BY DEF Panic, confVars, liveVars
<1>2. Inv'
  BY <1>1, Before, MadeInv
<1> QED
  BY <1>1, <1>2 DEF Kept, Moves, Same

\* The static source reports that it is ready.
LEMMA StaticReadyStep ==
    ASSUME IInv, StaticSetReady
    PROVE  Kept
<1>1. /\ Serving /\ SourceKind = "static" /\ pa.supplier /\ ~pa.stream
      /\ pa' = GoReady(pa) /\ UNCHANGED <<life, pub, record, slash, override>>
      /\ instance' = TRUE /\ transcode' \in BOOLEAN
  BY ToldTyped DEF StaticSetReady, confVars
<1>2. /\ Good(pa, pub, record) /\ PubTyped(pub) /\ pa \in Paths
      /\ record \in BOOLEAN /\ slash \in BOOLEAN /\ override \in BOOLEAN /\ life \in {"created", "running"}
      /\ life = "created" => \A p \in Publishers : pub[p] = "out"
  BY <1>1, Before
<1>3. pa.source = Static /\ pa.source # None /\ pa.source \notin Publishers
  BY <1>1, <1>2 DEF Good, Sourced
<1>4. Good(GoReady(pa), pub, record)
  BY <1>1, <1>2, <1>3, ReadyGood
<1>5. ~ShouldClose(GoReady(pa))
  BY <1>2, <1>3, GoReadyFacts DEF ShouldClose
<1>6. Moves(pa, GoReady(pa))
  BY <1>1, <1>3, ReadyMoves
<1>7. Inv'
  BY <1>1, <1>2, <1>4, <1>5, MadeInv
<1> QED
  BY <1>1, <1>6, <1>7 DEF Kept

\* The backend refuses the stream of the static source.
LEMMA StaticReadyFailsStep ==
    ASSUME IInv, StaticSetReadyFails
    PROVE  Kept
<1>1. /\ Serving /\ UNCHANGED <<pa, life, pub, record, slash, override>>
      /\ instance' = TRUE /\ transcode' \in BOOLEAN
  BY ToldTyped DEF StaticSetReadyFails, confVars
<1>2. Inv'
  BY <1>1, Before, MadeInv
<1> QED
  BY <1>1, <1>2 DEF Kept, Moves, Same

\* The stream of an on-demand static source ends and the source is stopped,
\* as readers see it.
LEMMA StaticStopMoves ==
    ASSUME NEW ps, NEW rec, Good(pa, ps, rec), pa.stream
    PROVE  Moves(pa, OnDemandStop(SetNotReady(pa)))
<1> DEFINE u == SetNotReady(pa)
           t == OnDemandStop(u)
<1>1. u \in Paths /\ ~u.stream /\ u.readers = {}
      /\ u.describing = pa.describing /\ u.adding = pa.adding
  BY SetNotReadyFacts DEF Good, Typed
<1> HIDE DEF u
<1>2. ~t.stream /\ t.readers = {} /\ t.describing = pa.describing /\ t.adding = pa.adding
  BY <1>1 DEF OnDemandStop, Paths
<1> HIDE DEF t
<1>3. OnHold(t) = OnHold(pa)
  BY <1>2 DEF OnHold
<1> QED
  BY <1>2, <1>3 DEF Moves, OnAir, Good, Owned, t, u

\* The static source reports that its run has ended.
LEMMA StaticNotReadyStep ==
    ASSUME IInv, StaticSetNotReady
    PROVE  Kept
<1> DEFINE s == IF OnDemand /\ pa.od # "initial" THEN OnDemandStop(SetNotReady(pa))
                ELSE SetNotReady(pa)
<1>1. /\ Serving /\ SourceKind = "static" /\ pa.stream /\ Settle(s, pub)
      /\ UNCHANGED <<record, slash, override, instance, transcode>>
  BY DEF StaticSetNotReady, confVars, liveVars
<1>2. /\ Good(pa, pub, record)
      /\ record \in BOOLEAN /\ slash \in BOOLEAN /\ override \in BOOLEAN
      /\ instance \in BOOLEAN /\ transcode \in BOOLEAN
  BY <1>1, Before
<1>3. Good(s, pub, record) /\ Moves(pa, s)
  <2>1. CASE OnDemand
    <3>1. HasOnDemandStaticSource
      BY <1>1, <2>1 DEF HasOnDemandStaticSource
    <3>2. pa.od # "initial"
      BY <1>1, <1>2, <3>1 DEF Good, Demanding
    <3> QED
      BY <1>1, <1>2, <2>1, <3>1, <3>2, StaticStopGood, StaticStopMoves
  <2>2. CASE ~OnDemand
    BY <1>1, <1>2, <2>2, NotReadyGood, NotReadyMoves DEF HasOnDemandStaticSource
  <2> QED
    BY <2>1, <2>2
<1> HIDE DEF s
<1> QED
  BY <1>1, <1>2, <1>3, SettleInv, SettleMoves DEF Kept

\* The ready timer fires.
LEMMA ReadyTimerStep ==
    ASSUME IInv, ReadyTimerFires
    PROVE  Kept
<1> DEFINE s == TimeOut(pa)
<1>1. /\ Serving /\ pa.readyTimer /\ Settle(s, pub)
      /\ UNCHANGED <<record, slash, override, instance, transcode>>
  BY DEF ReadyTimerFires, confVars, liveVars
<1>2. /\ Good(pa, pub, record)
      /\ record \in BOOLEAN /\ slash \in BOOLEAN /\ override \in BOOLEAN
      /\ instance \in BOOLEAN /\ transcode \in BOOLEAN
  BY <1>1, Before
<1>3. /\ Good(s, pub, record) /\ ~s.stream
      /\ s.readers = pa.readers /\ OnHold(s) = {}
  BY <1>1, <1>2, TimeOutGood
<1>4. ~pa.stream
  BY <1>1, <1>2 DEF Good, Demanding
<1> HIDE DEF s
<1>5. Moves(pa, s)
  BY <1>3, <1>4 DEF Moves, OnAir
<1> QED
  BY <1>1, <1>2, <1>3, <1>5, SettleInv, SettleMoves DEF Kept

\* The close timer of a static source fires.
LEMMA StaticCloseTimerStep ==
    ASSUME IInv, StaticCloseTimerFires
    PROVE  Kept
<1> DEFINE s == OnDemandStop(SetNotReady(pa))
<1>1. /\ Serving /\ HasOnDemandStaticSource /\ pa.closeTimer /\ Settle(s, pub)
      /\ UNCHANGED <<record, slash, override, instance, transcode>>
  BY DEF StaticCloseTimerFires, confVars, liveVars
<1>2. /\ Good(pa, pub, record)
      /\ record \in BOOLEAN /\ slash \in BOOLEAN /\ override \in BOOLEAN
      /\ instance \in BOOLEAN /\ transcode \in BOOLEAN
  BY <1>1, Before
<1>3. pa.stream
  BY <1>1, <1>2 DEF Good, Demanding
<1>4. Good(s, pub, record) /\ Moves(pa, s)
  BY <1>1, <1>2, <1>3, StaticStopGood, StaticStopMoves
<1> HIDE DEF s
<1> QED
  BY <1>1, <1>2, <1>4, SettleInv, SettleMoves DEF Kept

\* The close timer of a runOnDemand command fires.
LEMMA PublisherCloseTimerStep ==
    ASSUME IInv, PublisherCloseTimerFires
    PROVE  Kept
<1> DEFINE s == OnDemandStop(pa)
<1>1. /\ Serving /\ SourceKind = "publisher" /\ pa.closeTimer /\ Stay(s, pub)
      /\ UNCHANGED <<record, slash, override, instance, transcode>>
  BY DEF PublisherCloseTimerFires, HasOnDemandPublisher, confVars, liveVars
<1>2. /\ Good(pa, pub, record)
      /\ record \in BOOLEAN /\ slash \in BOOLEAN /\ override \in BOOLEAN
      /\ instance \in BOOLEAN /\ transcode \in BOOLEAN
  BY <1>1, Before
<1>3. /\ Good(s, pub, record) /\ s.source = pa.source /\ s.stream = pa.stream
      /\ s.readers = pa.readers /\ OnHold(s) = OnHold(pa)
  BY <1>1, <1>2, CommandStopGood
<1>4. pa.od = "closing"
  BY <1>1, <1>2 DEF Good, Demanding
<1>5. ~ShouldClose(pa)
  BY <1>1, <1>4, Before
<1> HIDE DEF s
<1>6. ~ShouldClose(s) /\ Moves(pa, s)
  BY <1>3, <1>5 DEF ShouldClose, Moves, Same, OnAir
<1>7. pa' = s
  BY <1>1 DEF Stay
<1> QED
  BY <1>1, <1>2, <1>3, <1>6, <1>7, StayInv DEF Kept

\* doReloadConf switches the recorder with the configuration.
LEMMA ReloadStep ==
    ASSUME IInv, DoReloadConf
    PROVE  Kept
<1> DEFINE s == [pa EXCEPT !.recorder = ~record /\ (@ \/ pa.stream)]
<1>1. /\ Serving /\ record' = ~record /\ pa' = s
      /\ UNCHANGED <<life, slash, override, pub, instance, transcode>>
  BY DEF DoReloadConf, liveVars
<1>2. /\ Good(pa, pub, record) /\ pa \in Paths /\ record \in BOOLEAN
      /\ record' \in BOOLEAN
  BY <1>1, Before
<1>3. /\ s \in Paths
      /\ s.source = pa.source /\ s.stream = pa.stream
      /\ s.recorder <=> pa.stream /\ ~record
      /\ s.readers = pa.readers /\ s.told = pa.told
      /\ s.describing = pa.describing /\ s.adding = pa.adding
      /\ s.od = pa.od /\ s.readyTimer = pa.readyTimer
      /\ s.closeTimer = pa.closeTimer /\ s.supplier = pa.supplier
  <2>1. pa.recorder <=> pa.stream /\ record
    BY <1>2 DEF Good, Owned
  <2> QED
    BY <1>2, <2>1 DEF Paths
<1> HIDE DEF s
<1>4. OnHold(s) = OnHold(pa)
  BY <1>3 DEF OnHold
<1>5. Good(s, pub, record')
  <2>1. Typed(s) /\ Attached(s)
    BY <1>2, <1>3, <1>4 DEF Good, Typed, Attached
  <2>2. Demanding(s) /\ Sourced(s)
    BY <1>2, <1>3 DEF Good, Demanding, Sourced
  <2>3. Owned(s, pub, record')
    BY <1>1, <1>2, <1>3 DEF Good, Owned
  <2> QED
    BY <1>2, <2>1, <2>2, <2>3 DEF Good
<1>6. ShouldClose(s) <=> ShouldClose(pa)
  BY <1>3, <1>4 DEF ShouldClose
<1>7. Inv'
  BY <1>1, <1>2, <1>3, <1>4, <1>5, <1>6, Before, MadeInv
<1> QED
  BY <1>1, <1>3, <1>4, <1>7 DEF Kept, Moves, Same, OnAir

\* pathManager closes the path, whatever it is doing.
LEMMA TerminateStep ==
    ASSUME IInv, Terminate
    PROVE  Kept
<1> DEFINE t == [NewPath EXCEPT !.source = None, !.supplier = FALSE]
<1>1. /\ Serving /\ Teardown /\ pa' = t
      /\ UNCHANGED <<record, slash, override, instance, transcode>>
  BY DEF Terminate, Teardown, confVars, liveVars
<1>2. /\ Good(pa, pub, record)
      /\ record \in BOOLEAN /\ slash \in BOOLEAN /\ override \in BOOLEAN
      /\ instance \in BOOLEAN /\ transcode \in BOOLEAN
  BY <1>1, Before
<1>3. ~t.stream /\ t.readers = {} /\ t.describing = {} /\ t.adding = <<>>
  BY DEF NewPath
<1> HIDE DEF t
<1>4. OnHold(t) = {} /\ OnAir(t) = None
  BY <1>3 DEF OnHold, OnAir
<1>5. Moves(pa, t)
  <2>1. CASE pa.stream
    BY <1>2, <1>3, <1>4, <2>1 DEF Moves, OnAir, Good, Owned, Attached
  <2>2. CASE ~pa.stream
    BY <1>2, <1>3, <1>4, <2>2 DEF Moves, OnAir, Good, Attached
  <2> QED
    BY <2>1, <2>2
<1> QED
  BY <1>1, <1>2, <1>5, TeardownInv DEF Kept

\* pathManager creates the path again.
LEMMA ReopenStep ==
    ASSUME IInv, Reopen
    PROVE  Kept
<1>1. /\ life = "done" /\ pa' = NewPath /\ life' = "created"
      /\ UNCHANGED <<pub, record, slash, override, instance, transcode>>
  BY DEF Reopen, confVars, liveVars
<1>2. /\ PubTyped(pub) /\ record \in BOOLEAN /\ slash \in BOOLEAN /\ override \in BOOLEAN
      /\ instance \in BOOLEAN /\ transcode \in BOOLEAN
      /\ \A p \in Publishers : pub[p] = "out"
      /\ ~pa.stream /\ pa.readers = {} /\ OnHold(pa) = {}
  BY <1>1 DEF IInv, Inv, TypeOK, PubTyped, PathInv, LifeConsistent, ReadersNeedStream
<1>3. /\ Good(NewPath, pub, record)
      /\ NewPath.told = {} /\ NewPath.od = "initial" /\ OnHold(NewPath) = {}
      /\ ~NewPath.stream /\ NewPath.readers = {}
      /\ NewPath.source = IF SourceKind = "static" THEN Static ELSE None
  BY <1>2, NewPathGood
<1>4. Inv'
  BY <1>1, <1>2, <1>3, MadeInv
<1> QED
  BY <1>1, <1>2, <1>3, <1>4 DEF Kept, Moves, Same, OnAir

\* Every step keeps the invariant and is a step of the switch.
LEMMA NextStep ==
    ASSUME IInv, Next
    PROVE  Kept
<1>1. ASSUME NEW r \in Readers, ReaderNext(r)
      PROVE  Kept
  BY <1>1, DescribeStep, AddReaderStep, RemoveReaderStep DEF ReaderNext
<1>2. ASSUME NEW p \in Publishers, PublisherNext(p)
      PROVE  Kept
  <2>1. CASE DoAddPublisher(p)
    BY <2>1, AddPublisherStep
  <2>2. CASE RefusePublisher(p)
    BY <2>2, RefusedStep DEF RefusePublisher, confVars, liveVars, IInv, Inv, TypeOK
  <2>3. CASE DoStartPublisher(p)
    BY <2>3, StartPublisherStep
  <2>4. CASE StartPublisherFails(p)
    <3>1. transcode' \in BOOLEAN
      BY <2>4, ToldTyped DEF StartPublisherFails
    <3> QED
      BY <2>4, <3>1, RefusedStep DEF StartPublisherFails, confVars
  <2>5. CASE StartPublisherPanics(p)
    BY <2>5, PanicStep DEF StartPublisherPanics
  <2>6. CASE StartPublisherRefused(p)
    BY <2>6, RefusedStep DEF StartPublisherRefused, confVars, liveVars, IInv, Inv, TypeOK
  <2>7. CASE DoStopPublisher(p)
    BY <2>7, StopPublisherStep
  <2>8. CASE DoRemovePublisher(p)
    BY <2>8, RemovePublisherStep
  <2>9. CASE RemovePublisherPanics(p)
    BY <2>9, PanicStep DEF RemovePublisherPanics
  <2> QED
    BY <1>2, <2>1, <2>2, <2>3, <2>4, <2>5, <2>6, <2>7, <2>8, <2>9 DEF PublisherNext
<1>3. CASE StaticNext
  <2>1. CASE StaticSetReadyPanics
    BY <2>1, PanicStep DEF StaticSetReadyPanics
  <2> QED
    BY <1>3, <2>1, StaticReadyStep, StaticReadyFailsStep, StaticNotReadyStep DEF StaticNext
<1>4. CASE TimerNext
  BY <1>4, ReadyTimerStep, StaticCloseTimerStep, PublisherCloseTimerStep DEF TimerNext
<1> QED
  BY <1>1, <1>2, <1>3, <1>4, ReloadStep, TerminateStep, ReopenStep DEF Next

\* The invariant holds initially.
LEMMA InitInv ==
    ASSUME Init
    PROVE  IInv
<1> DEFINE t == NewPath
<1>1. PubTyped(pub) /\ record \in BOOLEAN /\ slash \in BOOLEAN /\ override \in BOOLEAN
      /\ instance \in BOOLEAN /\ transcode \in BOOLEAN
      /\ pa = t /\ life = "created" /\ \A p \in Publishers : pub[p] = "out"
  BY DEF Init, PubTyped
<1>2. /\ Good(t, pub, record)
      /\ t.told = {} /\ t.od = "initial" /\ OnHold(t) = {}
      /\ ~t.stream /\ t.readers = {}
      /\ t.source = IF SourceKind = "static" THEN Static ELSE None
  BY <1>1, NewPathGood
<1> HIDE DEF t
<1>3. TypeOK
  BY <1>1, <1>2 DEF Good, Typed, PubTyped, TypeOK
<1>4. OnDemandConsistent
  BY <1>1, <1>2 DEF Good, Demanding, OnDemandConsistent
<1>5. StreamOwned
  BY <1>1, <1>2 DEF Good, Owned, StreamOwned
<1>6. NoIdlePath /\ ReadersNeedStream
  BY <1>1, <1>2 DEF NoIdlePath, ReadersNeedStream
<1>7. LifeConsistent
  BY <1>1, <1>2 DEF Good, Sourced, Demanding, LifeConsistent
<1>8. ReaderLimit
  BY <1>1, <1>2, FS_EmptySet DEF ReaderLimit
<1> QED
  BY <1>3, <1>4, <1>5, <1>6, <1>7, <1>8 DEF IInv, Inv, PathInv

\* The invariant is inductive.
LEMMA StepInv ==
    ASSUME IInv, [Next]_vars
    PROVE  IInv' /\ [Switch!SwitchNext]_(Switch!switchVars)
<1>1. CASE Next
  <2>1. Inv' /\ Moves(pa, pa')
    BY <1>1, NextStep DEF Kept
  <2>2. Typed(pa) /\ Fits(pa.readers)
    BY DEF IInv, Inv, TypeOK, Typed, ReaderLimit, Fits
  <2>3. ReaderLimit'
    BY <2>1, <2>2, MovesFit DEF ReaderLimit, Fits
  <2>4. pa' \in Paths
    BY <2>1 DEF Inv, TypeOK, Paths
  <2> QED
    BY <2>1, <2>3, <2>4, MovesAreSwitchSteps DEF IInv
<1>2. CASE UNCHANGED vars
  <2>1. UNCHANGED <<pa, life, record, slash, override, pub, instance, transcode>>
    BY <1>2 DEF vars
  <2>2. IInv'
    BY <2>1 DEF IInv, Inv, ReaderLimit, TypeOK, PathInv, OnDemandConsistent,
                StreamOwned, NoIdlePath, ReadersNeedStream, LifeConsistent,
                ShouldClose, OnHold
  <2>3. UNCHANGED Switch!switchVars
    BY <2>1 DEF Switch!switchVars, OnHold
  <2> QED
    BY <2>2, <2>3
<1> QED
  BY <1>1, <1>2

\* The inductive invariant of the path holds in every reachable state.
THEOREM PathInvariant == Spec => []IInv
<1>1. Init => IInv
  BY InitInv
<1>2. IInv /\ [Next]_vars => IInv'
  BY StepInv
<1> QED
  BY <1>1, <1>2, PTL DEF Spec

\* The path struct keeps its type, and no reader is known to the path twice:
\* not attached and on hold, not on hold in two places.
THEOREM PathTypeCorrect == Spec => []TypeOK
<1>1. IInv => TypeOK
  BY DEF IInv, Inv
<1> QED
  BY <1>1, PathInvariant, PTL

\* addReaderPost never admits more than MaxReaders, one at a time or when a
\* whole queue of requests on hold is served, for every limit and queue.
THEOREM ReadersLimited == Spec => []ReaderLimit
<1>1. IInv => ReaderLimit
  BY DEF IInv
<1> QED
  BY <1>1, PathInvariant, PTL

\* The on-demand state, its two timers and the source or command it controls
\* agree, whatever the order of requests, timers and departures.
THEOREM OnDemandStaysConsistent == Spec => []OnDemandConsistent
<1>1. IInv => OnDemandConsistent
  BY DEF IInv, Inv, PathInv
<1> QED
  BY <1>1, PathInvariant, PTL

\* A stream on the air has a source that is still there, and is recorded
\* exactly when the configuration in force says so.
THEOREM StreamsOwned == Spec => []StreamOwned
<1>1. IInv => StreamOwned
  BY DEF IInv, Inv, PathInv
<1> QED
  BY <1>1, PathInvariant, PTL

\* No handler of runInner leaves a path of a regular expression unused, also
\* not the ones after which shouldClose is not asked.
THEOREM NoPathIdles == Spec => []NoIdlePath
<1>1. IInv => NoIdlePath
  BY DEF IInv, Inv, PathInv
<1> QED
  BY <1>1, PathInvariant, PTL

\* The path implements the switch that is promised to readers: every step of
\* every handler is a step of StreamSwitch or is invisible to readers.
THEOREM PathImplementsSwitch == Spec => ImplementsSwitch
<1>1. Init => Switch!SwitchInit
  <2> SUFFICES ASSUME Init PROVE Switch!SwitchInit
    OBVIOUS
  <2>1. pa = NewPath
    BY DEF Init
  <2>2. ~pa.stream /\ pa.readers = {} /\ pa.describing = {} /\ pa.adding = <<>>
    BY <2>1 DEF NewPath
  <2>3. OnHold(pa) = {}
    BY <2>2 DEF OnHold
  <2> QED
    BY <2>2, <2>3 DEF Switch!SwitchInit
<1>2. IInv /\ [Next]_vars => [Switch!SwitchNext]_(Switch!switchVars)
  BY StepInv
<1> QED
  BY <1>1, <1>2, PathInvariant, PTL DEF Spec, ImplementsSwitch, Switch!SwitchSpec

-----------------------------------------------------------------------------
(* The orders to the backend, where no publisher may take the place of       *)
(* another and every order is obeyed.                                        *)

Obeyed == ~override /\ ~TranscoderMayFail

\* The inductive strengthening: the one publisher that is not out is the
\* source, so that the order to stop comes from the owner of the stream; and
\* a path without a source has nothing that is transcoded.
TranscodeOwned ==
    Obeyed =>
      /\ \A p \in Publishers : pub[p] # "out" => pa.source = p
      /\ StreamIsTranscoded
      /\ SourceKind = "publisher" /\ ~MayTerminate => (transcode => pa.source # None)

\* Steps that give no order and bring neither a stream nor a publisher.
LEMMA QuietOwned ==
    ASSUME TranscodeOwned, override' = override,
           pa'.source = pa.source, pa'.stream => pa.stream,
           transcode' = transcode, \A p \in Publishers : pub'[p] # "out" => pub[p] # "out"
    PROVE  TranscodeOwned'
BY DEF TranscodeOwned, Obeyed, StreamIsTranscoded

\* The end of a path that has no source, or that the manager closes.
LEMMA TeardownOwned ==
    ASSUME TranscodeOwned, override' = override, Teardown, transcode' = transcode,
           pa.source = None \/ MayTerminate \/ SourceKind # "publisher"
    PROVE  TranscodeOwned'
<1>1. ~pa'.stream
  BY DEF Teardown, NewPath
<1>2. \A p \in Publishers : pub'[p] = "out"
  BY DEF Teardown
<1> QED
  BY <1>1, <1>2 DEF TranscodeOwned, Obeyed, StreamIsTranscoded

\* A handler that makes the path s and is followed by shouldClose.
LEMMA SettleOwned ==
    ASSUME TranscodeOwned, override' = override, NEW s, NEW ps, Settle(s, ps),
           transcode' = transcode,
           s.source = pa.source, s.stream => pa.stream,
           \A p \in Publishers : ps[p] # "out" => pub[p] # "out"
    PROVE  TranscodeOwned'
<1>1. CASE ShouldClose(s)
  BY <1>1, TeardownOwned DEF Settle, ShouldClose
<1>2. CASE ~ShouldClose(s)
  BY <1>2, QuietOwned DEF Settle, Stay
<1> QED
  BY <1>1, <1>2

\* Under Obeyed the backend does what it is told.
LEMMA OrdersObeyed ==
    ASSUME Obeyed, NEW order, \E o \in Outcomes : Told(o, order)
    PROVE  transcode' = order
BY DEF Obeyed, Outcomes, Told

\* The requests of readers.
LEMMA ReaderOwned ==
    ASSUME IInv, TranscodeOwned, override' = override, NEW r \in Readers, ReaderNext(r)
    PROVE  TranscodeOwned'
<1>0. pa \in Paths
  BY DEF IInv, Inv, TypeOK
<1>1. CASE DoDescribe(r)
  <2> DEFINE s == IF pa.stream \/ ~OnDemand THEN pa
                  ELSE [Demand(pa) EXCEPT !.describing = @ \cup {r}]
  <2>1. s.source = pa.source /\ s.stream = pa.stream
    BY <1>0, DemandFacts DEF Paths
  <2>2. Settle(s, pub) /\ transcode' = transcode
    BY <1>1 DEF DoDescribe, liveVars
  <2> QED
    BY <2>1, <2>2, SettleOwned
<1>2. CASE DoAddReader(r)
  <2> DEFINE s == IF pa.stream THEN AddReaderPost(pa, <<r>>)
                  ELSE IF ~OnDemand THEN pa
                  ELSE [Demand(pa) EXCEPT !.adding = Append(@, r)]
  <2>1. <<r>> \in Seq(Readers)
    OBVIOUS
  <2>2. AddReaderPost(pa, <<r>>).source = pa.source
        /\ AddReaderPost(pa, <<r>>).stream = pa.stream
    BY <1>0, <2>1, AddReaderPostFacts
  <2>3. s.source = pa.source /\ s.stream = pa.stream
    BY <1>0, <2>2, DemandFacts DEF Paths
  <2>4. Settle(s, pub) /\ transcode' = transcode
    BY <1>2 DEF DoAddReader, liveVars
  <2> QED
    BY <2>3, <2>4, SettleOwned
<1>3. CASE DoRemoveReader(r)
  <2>1. pa'.source = pa.source /\ pa'.stream = pa.stream /\ pub' = pub
    BY <1>0, <1>3 DEF DoRemoveReader, Stay, ScheduleClose, Paths
  <2> QED
    BY <1>3, <2>1, QuietOwned DEF DoRemoveReader, liveVars
<1> QED
  BY <1>1, <1>2, <1>3 DEF ReaderNext

\* The requests of publishers.
LEMMA PublisherOwned ==
    ASSUME IInv, TranscodeOwned, override' = override, NEW p \in Publishers, PublisherNext(p)
    PROVE  TranscodeOwned'
<1>0. /\ pa \in Paths /\ record \in BOOLEAN
      /\ pub \in [Publishers -> {"out", "added", "started"}]
  BY DEF IInv, Inv, TypeOK
<1>1. CASE DoAddPublisher(p)
  <2>1. SUFFICES ASSUME Obeyed PROVE TranscodeOwned'
    BY DEF TranscodeOwned, Obeyed
  <2>2. /\ pa.source = None /\ pa'.source = p /\ pa'.stream = pa.stream
        /\ pub' = [pub EXCEPT ![p] = "added"] /\ transcode' = transcode
    BY <1>0, <1>1, <2>1 DEF DoAddPublisher, Stay, Paths, Obeyed, liveVars
  <2>3. p # None
    OBVIOUS
  <2>4. \A q \in Publishers : pub[q] = "out"
    BY <2>1, <2>2 DEF TranscodeOwned
  <2> QED
    BY <1>0, <2>1, <2>2, <2>3, <2>4 DEF TranscodeOwned, StreamIsTranscoded
<1>2. CASE RefusePublisher(p) \/ StartPublisherRefused(p)
  BY <1>2, QuietOwned DEF RefusePublisher, StartPublisherRefused, Stay, liveVars
<1>3. CASE DoStartPublisher(p)
  <2>1. SUFFICES ASSUME Obeyed PROVE TranscodeOwned'
    BY DEF TranscodeOwned, Obeyed
  <2>2. transcode' = TRUE
    BY <1>3, <2>1, OrdersObeyed DEF DoStartPublisher
  <2>3. /\ pa.source = p /\ pa'.source = p /\ pub[p] = "added"
        /\ pub' = [pub EXCEPT ![p] = "started"]
    BY <1>0, <1>3, GoReadyFacts DEF DoStartPublisher, Stay
  <2> QED
    BY <1>0, <2>1, <2>2, <2>3 DEF TranscodeOwned, StreamIsTranscoded
<1>4. CASE StartPublisherFails(p)
  <2>1. SUFFICES ASSUME Obeyed PROVE TranscodeOwned'
    BY DEF TranscodeOwned, Obeyed
  <2>2. transcode' = TRUE
    BY <1>4, <2>1, OrdersObeyed DEF StartPublisherFails
  <2> QED
    BY <1>4, <2>1, <2>2 DEF StartPublisherFails, Stay, TranscodeOwned, StreamIsTranscoded
<1>5. CASE StartPublisherPanics(p) \/ RemovePublisherPanics(p)
  BY <1>5, QuietOwned DEF StartPublisherPanics, RemovePublisherPanics, Panic, liveVars
<1>6. CASE DoStopPublisher(p)
  <2> DEFINE s == IF pa.source = p /\ pa.stream THEN SetNotReady(pa) ELSE pa
             ps == [pub EXCEPT ![p] = "added"]
  <2>1. s.source = pa.source /\ (s.stream => pa.stream)
    BY <1>0, SetNotReadyFacts
  <2>2. \A q \in Publishers : ps[q] # "out" => pub[q] # "out"
    BY <1>0, <1>6 DEF DoStopPublisher
  <2>3. Settle(s, ps) /\ transcode' = transcode
    BY <1>6 DEF DoStopPublisher, liveVars
  <2> HIDE DEF s, ps
  <2> QED
    BY <2>1, <2>2, <2>3, SettleOwned
<1>7. CASE DoRemovePublisher(p)
  <2>1. SUFFICES ASSUME Obeyed PROVE TranscodeOwned'
    BY DEF TranscodeOwned, Obeyed
  <2>2. transcode' = FALSE
    BY <1>7, <2>1, OrdersObeyed DEF DoRemovePublisher
  <2>3. pa.source = p
    BY <1>7, <2>1 DEF DoRemovePublisher, TranscodeOwned
  <2>4. ExecuteRemovePublisher(pa).source = None /\ ~ExecuteRemovePublisher(pa).stream
    BY <1>0, RemovePublisherFacts, SetNotReadyFacts
  <2>5. Settle(ExecuteRemovePublisher(pa), [pub EXCEPT ![p] = "out"])
    BY <1>7, <2>3 DEF DoRemovePublisher
  <2>6. ~pa'.stream /\ \A q \in Publishers : pub'[q] = "out"
    <3>1. \A q \in Publishers : [pub EXCEPT ![p] = "out"][q] = "out"
      BY <1>0, <2>1, <2>3 DEF TranscodeOwned
    <3> QED
      BY <2>4, <2>5, <3>1 DEF Settle, Teardown, Stay, NewPath
  <2> QED
    BY <2>2, <2>6 DEF TranscodeOwned, StreamIsTranscoded
<1> QED
  BY <1>1, <1>2, <1>3, <1>4, <1>5, <1>6, <1>7 DEF PublisherNext

\* The reports of the static source.
LEMMA StaticOwned ==
    ASSUME IInv, TranscodeOwned, override' = override, StaticNext
    PROVE  TranscodeOwned'
<1>0. pa \in Paths /\ record \in BOOLEAN /\ (pa.stream => pa.stream)
  BY DEF IInv, Inv, TypeOK
<1>1. CASE StaticSetReady \/ StaticSetReadyFails
  <2>1. SUFFICES ASSUME Obeyed PROVE TranscodeOwned'
    BY DEF TranscodeOwned, Obeyed
  <2>2. transcode' = TRUE /\ SourceKind = "static" /\ pub' = pub
    BY <1>1, <2>1, OrdersObeyed DEF StaticSetReady, StaticSetReadyFails
  <2>3. pa'.source = pa.source
    BY <1>0, <1>1, GoReadyFacts DEF StaticSetReady, StaticSetReadyFails
  <2> QED
    BY <2>1, <2>2, <2>3 DEF TranscodeOwned, StreamIsTranscoded
<1>2. CASE StaticSetReadyPanics
  BY <1>2, QuietOwned DEF StaticSetReadyPanics, Panic, liveVars
<1>3. CASE StaticSetNotReady
  <2> DEFINE t == SetNotReady(pa)
             s == IF OnDemand /\ pa.od # "initial" THEN OnDemandStop(t) ELSE t
  <2>1. t \in Paths /\ t.source = pa.source /\ ~t.stream
    BY <1>0, SetNotReadyFacts
  <2> HIDE DEF t
  <2>2. s.source = pa.source /\ ~s.stream
    BY <2>1 DEF OnDemandStop, Paths
  <2>3. Settle(s, pub) /\ transcode' = transcode
    BY <1>3 DEF StaticSetNotReady, liveVars, t
  <2> HIDE DEF s
  <2> QED
    BY <2>2, <2>3, SettleOwned
<1> QED
  BY <1>1, <1>2, <1>3 DEF StaticNext

\* Timers, configuration and pathManager.
LEMMA OthersOwned ==
    ASSUME IInv, TranscodeOwned, override' = override,
           TimerNext \/ DoReloadConf \/ Terminate \/ Reopen
    PROVE  TranscodeOwned'
<1>0. pa \in Paths
  BY DEF IInv, Inv, TypeOK
<1>1. CASE ReadyTimerFires
  <2>1. TimeOut(pa).source = pa.source /\ TimeOut(pa).stream = pa.stream
    BY <1>0 DEF TimeOut, OnDemandStop, Paths
  <2> QED
    BY <1>1, <2>1, SettleOwned DEF ReadyTimerFires, liveVars
<1>2. CASE StaticCloseTimerFires
  <2> DEFINE t == SetNotReady(pa)
  <2>1. t \in Paths /\ t.source = pa.source /\ ~t.stream
    BY <1>0, SetNotReadyFacts
  <2> HIDE DEF t
  <2>2. OnDemandStop(t).source = pa.source /\ ~OnDemandStop(t).stream
    BY <2>1 DEF OnDemandStop, Paths
  <2>3. Settle(OnDemandStop(t), pub) /\ transcode' = transcode
    BY <1>2 DEF StaticCloseTimerFires, liveVars, t
  <2> QED
    BY <2>2, <2>3, SettleOwned
<1>3. CASE PublisherCloseTimerFires
  <2>1. OnDemandStop(pa).source = pa.source /\ OnDemandStop(pa).stream = pa.stream
    BY <1>0 DEF OnDemandStop, Paths
  <2> QED
    BY <1>3, <2>1, QuietOwned DEF PublisherCloseTimerFires, Stay, liveVars
<1>4. CASE DoReloadConf
  <2>1. pa'.source = pa.source /\ pa'.stream = pa.stream
    BY <1>0, <1>4 DEF DoReloadConf, Paths
  <2> QED
    BY <1>4, <2>1, QuietOwned DEF DoReloadConf, liveVars
<1>5. CASE Terminate
  BY <1>5, TeardownOwned DEF Terminate, liveVars
<1>6. CASE Reopen
  <2>1. /\ life = "done" /\ pub' = pub /\ transcode' = transcode /\ pa' = NewPath
    BY <1>6 DEF Reopen, liveVars
  <2>2. pa.source = None /\ \A p \in Publishers : pub[p] = "out"
    BY <2>1 DEF IInv, Inv, PathInv, LifeConsistent
  <2>3. ~pa'.stream
    BY <2>1 DEF NewPath
  <2> QED
    BY <2>1, <2>2, <2>3 DEF TranscodeOwned, Obeyed, StreamIsTranscoded
<1> QED
  BY <1>1, <1>2, <1>3, <1>4, <1>5, <1>6 DEF TimerNext

\* No step changes overridePublisher: it is not among the options that
\* doReloadConf takes in place.
LEMMA OverrideKept == ASSUME Next PROVE override' = override
<1>1. ASSUME NEW r \in Readers, ReaderNext(r) PROVE override' = override
  BY <1>1 DEF ReaderNext, DoDescribe, DoAddReader, DoRemoveReader, confVars
<1>2. ASSUME NEW p \in Publishers, PublisherNext(p) PROVE override' = override
  BY <1>2 DEF PublisherNext, DoAddPublisher, RefusePublisher, DoStartPublisher,
              StartPublisherFails, StartPublisherPanics, StartPublisherRefused,
              DoStopPublisher, DoRemovePublisher, RemovePublisherPanics, Panic,
              confVars
<1>3. ASSUME StaticNext PROVE override' = override
  BY <1>3 DEF StaticNext, StaticSetReady, StaticSetReadyFails,
              StaticSetReadyPanics, StaticSetNotReady, Panic, confVars
<1>4. ASSUME TimerNext PROVE override' = override
  BY <1>4 DEF TimerNext, ReadyTimerFires, StaticCloseTimerFires,
              PublisherCloseTimerFires, confVars
<1>5. ASSUME DoReloadConf \/ Terminate \/ Reopen PROVE override' = override
  BY <1>5 DEF DoReloadConf, Terminate, Reopen, confVars
<1> QED
  BY <1>1, <1>2, <1>3, <1>4, <1>5 DEF Next

\* The strengthened invariant about the orders to the backend.
THEOREM OrdersMatch == Spec => []TranscodeOwned
<1>1. Init => TranscodeOwned
  BY DEF Init, NewPath, TranscodeOwned, StreamIsTranscoded
<1>2. IInv /\ TranscodeOwned /\ [Next]_vars => TranscodeOwned'
  <2>1. IInv /\ TranscodeOwned /\ Next => TranscodeOwned'
    BY OverrideKept, ReaderOwned, PublisherOwned, StaticOwned, OthersOwned DEF Next
  <2>2. TranscodeOwned /\ UNCHANGED vars => TranscodeOwned'
    BY DEF vars, TranscodeOwned, Obeyed, StreamIsTranscoded
  <2> QED
    BY <2>1, <2>2
<1> QED
  BY <1>1, <1>2, PathInvariant, PTL DEF Spec

\* Where a publisher cannot be overridden and the backend obeys, what is on
\* the air is being transcoded, for publishers and static sources alike; and
\* if the manager does not close the path under its publisher either, the
\* backend was told to stop when the last publisher has gone.  For any
\* publishers, readers and configurations of the path.
THEOREM TranscodesFollowStreams == Spec => []TranscodeFollowsStream
<1>1. IInv /\ TranscodeOwned => TranscodeFollowsStream
  <2>1. SUFFICES ASSUME IInv, TranscodeOwned, Obeyed
                 PROVE  /\ StreamIsTranscoded
                        /\ SourceKind = "publisher" /\ ~MayTerminate => TranscodeStops
    BY DEF TranscodeFollowsStream, Obeyed
  <2>2. StreamIsTranscoded
    BY <2>1 DEF TranscodeOwned
  <2>3. ASSUME SourceKind = "publisher", ~MayTerminate,
               \A p \in Publishers : pub[p] = "out"
        PROVE  ~transcode
    <3>1. pa.source \in Publishers \cup {Static, None} /\ pa.source # Static
      <4>1. pa \in Paths
        BY <2>1 DEF IInv, Inv, TypeOK
      <4>2. pa.source # Static
        BY <2>1, <2>3 DEF IInv, Inv, PathInv, LifeConsistent
      <4> QED
        BY <4>1, <4>2 DEF Paths
    <3>2. pa.source \notin Publishers
      BY <2>1, <2>3 DEF IInv, Inv, PathInv, StreamOwned
    <3> QED
      BY <2>1, <2>3, <3>1, <3>2 DEF TranscodeOwned
  <2> QED
    BY <2>2, <2>3 DEF TranscodeStops
<1> QED
  BY <1>1, PathInvariant, OrdersMatch, PTL
=============================================================================
