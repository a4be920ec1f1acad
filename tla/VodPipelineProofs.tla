------------------------- MODULE VodPipelineProofs -------------------------
(***************************************************************************)
(* Proofs about VodPipeline, for every set of jobs and any number of faults. *)
(* That no accepted job is forgotten is not inductive: it needs to know what *)
(* an ack on the wire will settle, which in turn needs the order in which    *)
(* the one consumer works through the tags of the channel.                   *)
(***************************************************************************)
EXTENDS VodPipeline, TLAPS

(* Sequences.                                                               *)

\* What Append does to the elements of a sequence.
LEMMA AppendFacts ==
  ASSUME NEW S, NEW s \in Seq(S), NEW e \in S
  PROVE  /\ Append(s, e) \in Seq(S)
         /\ Len(Append(s, e)) = Len(s) + 1 /\ Len(s) \in Nat
         /\ \A i \in 1..Len(s) : Append(s, e)[i] = s[i]
         /\ Append(s, e)[Len(s) + 1] = e
  OBVIOUS

\* What Tail does to the elements of a sequence.
LEMMA TailFacts ==
  ASSUME NEW S, NEW s \in Seq(S), s # <<>>
  PROVE  /\ Head(s) = s[1] /\ Head(s) \in S /\ Tail(s) \in Seq(S)
         /\ Len(s) \in Nat \ {0} /\ Len(Tail(s)) = Len(s) - 1
         /\ \A i \in 1..Len(Tail(s)) : Tail(s)[i] = s[i + 1]
  OBVIOUS

-----------------------------------------------------------------------------
(* Types.                                                                   *)

\* A set-up that succeeded has its channel open at both ends; one that failed
\* has it closed by the broker.
LEMMA SetUpStates ==
  /\ \A s \in SetUps : /\ s.mss \in BOOLEAN /\ s.broker \in BOOLEAN /\ s.client \in BOOLEAN
                       /\ (s.mss => s.broker) /\ (~s.client => ~s.broker)
  /\ Init => /\ consuming \in BOOLEAN /\ brokerOpen \in BOOLEAN /\ clientOpen \in BOOLEAN
             /\ (consuming => brokerOpen) /\ (~clientOpen => ~brokerOpen)
  /\ Restart => /\ consuming' \in BOOLEAN /\ brokerOpen' \in BOOLEAN
                /\ clientOpen' \in BOOLEAN
                /\ (consuming' => brokerOpen') /\ (~clientOpen' => ~brokerOpen')
  <1>1. ASSUME NEW s \in SetUps
        PROVE  /\ s.mss \in BOOLEAN /\ s.broker \in BOOLEAN /\ s.client \in BOOLEAN
               /\ (s.mss => s.broker) /\ (~s.client => ~s.broker)
    <2>1. CASE s = [mss |-> TRUE, broker |-> TRUE, client |-> TRUE]
      BY <2>1
    <2>2. CASE s \in [mss : {FALSE}, broker : {FALSE}, client : BOOLEAN]
      <3>1. s.mss \in {FALSE} /\ s.broker \in {FALSE} /\ s.client \in BOOLEAN
        BY <2>2
      <3>2. QED BY <3>1, Zenon
    <2>3. QED BY <1>1, <2>1, <2>2 DEF SetUps
  <1>2. Init => \E s \in SetUps :
                   consuming = s.mss /\ brokerOpen = s.broker /\ clientOpen = s.client
    BY Zenon DEF Init
  <1>3. Restart => \E s \in SetUps :
                   consuming' = s.mss /\ brokerOpen' = s.broker /\ clientOpen' = s.client
    BY Zenon DEF Restart
  <1>4. QED BY <1>1, <1>2, <1>3, Zenon

\* An upload request, a delivery and the steps of the consumer keep types.
LEMMA ProgramTypeOK ==
  ASSUME TypeOK,
         (\E j \in Jobs : Insert(j) \/ Publish(j) \/ Deliver(j)) \/ ConsumerNext
  PROVE  TypeOK'
  <1> USE DEF TypeOK, brokerVars, countVars
  <1>1. CASE \E j \in Jobs : Insert(j)
    BY <1>1 DEF Insert
  <1>2. CASE \E j \in Jobs : Publish(j)
    <2>1. PICK j \in Jobs : Publish(j) BY <1>2
    <2>2. PublishFrame(j) \in Frames BY DEF PublishFrame, Frames
    <2>a. Append(wire, PublishFrame(j)) \in Seq(Frames)
      BY <2>2, AppendFacts
    <2>b. wire' = Append(wire, PublishFrame(j)) \/ wire' = wire
      BY <2>1 DEF Publish
    <2>3. wire' \in Seq(Frames) BY <2>a, <2>b
    <2>4. QED BY <2>1, <2>3 DEF Publish
  <1>3. CASE \E j \in Jobs : Deliver(j)
    BY <1>3 DEF Deliver, Deliveries
  <1>4. CASE Receive
    BY <1>4 DEF Receive
  <1>5. CASE LoopEnds
    BY <1>5 DEF LoopEnds
  <1>6. CASE Transcode
    BY <1>6 DEF Transcode
  <1>7. CASE Update
    BY <1>7 DEF Update, Deliveries
  <1>8. CASE Nack
    <2>1. NackFrame(cur.tag) \in Frames
      BY <1>8 DEF Nack, NackFrame, Frames, Deliveries
    <2>2. wire' \in Seq(Frames) BY <1>8, <2>1, AppendFacts DEF Nack, SendOf
    <2>3. QED BY <1>8, <2>2 DEF Nack
  <1>9. CASE Ack
    <2>1. AckFrame(cur.tag) \in Frames
      BY <1>9 DEF Ack, AckFrame, Frames, Deliveries
    <2>2. wire' \in Seq(Frames) BY <1>9, <2>1, AppendFacts DEF Ack, SendOf
    <2>3. QED BY <1>9, <2>2 DEF Ack
  <1>10. QED BY <1>1, <1>2, <1>3, <1>4, <1>5, <1>6, <1>7, <1>8, <1>9 DEF ConsumerNext

\* The broker and the faults keep types.
LEMMA BrokerTypeOK ==
  ASSUME TypeOK,
         BrokerTakesFrame \/ ClientSeesClose \/ Crash \/ Restart \/ BrokerRestart
  PROVE  TypeOK'
  <1> USE DEF TypeOK, brokerVars, countVars
  <1>a. JobsOf(unacked) \subseteq Jobs
    BY DEF JobsOf, Deliveries
  <1>b. Published(wire) \subseteq Jobs
    BY DEF Published
  <1>1. CASE BrokerTakesFrame
    <2>1. Head(wire) \in Frames /\ wire' \in Seq(Frames)
      BY <1>1, TailFacts DEF BrokerTakesFrame
    <2>2. \A n : JobsOf({d \in unacked : d.tag = n}) \subseteq Jobs
      BY DEF JobsOf, Deliveries
    <2>3. /\ ready' \subseteq Jobs /\ unacked' \subseteq Deliveries
          /\ discarded' \subseteq Jobs /\ brokerOpen' \in BOOLEAN /\ nextTag' \in Nat
      BY <1>1, <1>a, <2>1, <2>2 DEF BrokerTakesFrame, TakePublish, TakeNack, TakeAck,
         CloseChannel, Frames
    <2>4. QED BY <1>1, <2>1, <2>3 DEF BrokerTakesFrame
  <1>2. CASE ClientSeesClose
    BY <1>2 DEF ClientSeesClose
  <1>3. CASE Crash
    <2>1. upload' \in [Jobs -> {"new", "inserted", "accepted", "refused"}]
      BY <1>3 DEF Crash
    <2>2. /\ wire' \in Seq(Frames) /\ inbox' = {} /\ unacked' = {} /\ cur' = NoDelivery
          /\ step' = "idle" /\ crashes' \in Nat /\ UNCHANGED <<doc, nextTag, brokerRestarts>>
      BY <1>3 DEF Crash
    <2>3. ready' \subseteq Jobs /\ discarded' \subseteq Jobs
      BY <1>3, <1>a, <1>b DEF Crash
    <2>4. alive' = FALSE /\ brokerOpen' = FALSE /\ clientOpen' = FALSE /\ consuming' = FALSE
      BY <1>3 DEF Crash
    <2>5. QED BY <2>1, <2>2, <2>3, <2>4
  <1>4. CASE Restart
    BY <1>4, SetUpStates DEF Restart
  <1>5. CASE BrokerRestart
    <2>1. /\ wire' \in Seq(Frames) /\ ready' = {} /\ unacked' = {}
          /\ brokerOpen' = FALSE /\ brokerRestarts' \in Nat
          /\ UNCHANGED <<doc, upload, nextTag, clientOpen, inbox, cur, step, alive,
                       consuming, crashes>>
      BY <1>5 DEF BrokerRestart
    <2>2. discarded' \subseteq Jobs
      BY <1>5, <1>a, <1>b DEF BrokerRestart
    <2>3. QED BY <2>1, <2>2
  <1>6. QED BY <1>1, <1>2, <1>3, <1>4, <1>5

\* Every reachable state of the VOD pipeline is well typed; in particular the
\* consumer holds a delivery whenever it is about to settle one.
THEOREM PipelineTypeCorrect == Spec => []TypeOK
  <1>1. Init => TypeOK
    BY PipelineConstants, SetUpStates DEF Init, TypeOK
  <1>2. TypeOK /\ [Next]_vars => TypeOK'
    <2>1. TypeOK /\ Next => TypeOK'
      BY ProgramTypeOK, BrokerTypeOK DEF Next
    <2>2. TypeOK /\ UNCHANGED vars => TypeOK'
      BY DEF TypeOK, vars, brokerVars, countVars
    <2>3. QED BY <2>1, <2>2
  <1>3. QED BY <1>1, <1>2, PTL DEF Spec

-----------------------------------------------------------------------------
(* Conservation of jobs.                                                    *)

\* Appending a frame other than a nack or a publish hides none of those.
LEMMA AppendKeepsFrames ==
  ASSUME TypeOK, NEW f \in Frames, wire' = Append(wire, f)
  PROVE  /\ \A n, m : m \in 1..Len(wire) /\ NackedBefore(n, m) => NackedBefore(n, m)'
         /\ \A n : NackedBefore(n, Len(wire) + 1) => NackedBefore(n, Len(wire) + 1)'
         /\ Published(wire) \subseteq Published(wire')
         /\ \A j \in Jobs : j \in Published(wire') => j \in Published(wire) \/ f = PublishFrame(j)
  <1> USE DEF TypeOK
  <1>1. /\ wire' \in Seq(Frames) /\ Len(wire') = Len(wire) + 1 /\ Len(wire) \in Nat
        /\ \A i \in 1..Len(wire) : wire'[i] = wire[i]
        /\ wire'[Len(wire) + 1] = f
    BY AppendFacts
  <1>2. \A n, m : m \in 1..Len(wire) /\ NackedBefore(n, m) => NackedBefore(n, m)'
    BY <1>1 DEF NackedBefore
  <1>3. \A n : NackedBefore(n, Len(wire) + 1) => NackedBefore(n, Len(wire) + 1)'
    BY <1>1 DEF NackedBefore
  <1>4. Published(wire) \subseteq Published(wire')
    BY <1>1 DEF Published
  <1>5. \A j \in Jobs : j \in Published(wire') => j \in Published(wire) \/ f = PublishFrame(j)
    BY <1>1 DEF Published
  <1>6. QED BY <1>2, <1>3, <1>4, <1>5

\* An upload request leaves deliveries alone: a document is written only for
\* a job that has no message yet, and a published job is on the wire.
LEMMA UploadInv ==
  ASSUME TypeOK, PipelineInv, NEW j \in Jobs, Insert(j) \/ Publish(j)
  PROVE  PipelineInv'
  <1> USE DEF TypeOK, brokerVars, countVars
  <1>1. CASE Insert(j)
    <2> USE <1>1 DEF Insert
    <2>1. UNCHANGED <<ready, unacked, nextTag, wire, brokerOpen, clientOpen, inbox,
                      cur, step, alive, discarded>>
      OBVIOUS
    <2>2. upload[j] = "new" /\ \A i \in Jobs \ {j} : doc'[i] = doc[i] /\ upload'[i] = upload[i]
      OBVIOUS
    <2>3. upload'[j] \in {"inserted", "refused"}
      OBVIOUS
    <2>4. \A i \in ready \cup JobsOf(unacked) \cup Published(wire) : i \in Jobs \ {j}
      BY <2>2 DEF PipelineInv, MessagesHaveUploads, JobsOf, Published, Deliveries
    <2>5. ChannelStates' /\ TagOrder'
      BY <2>1 DEF PipelineInv, ChannelStates, TagOrder, Working
    <2>6. MessagesHaveUploads'
      BY <2>1, <2>2, <2>4 DEF PipelineInv, MessagesHaveUploads, JobsOf, Published
    <2>7. \A d \in unacked : doc'[d.job] = doc[d.job]
      BY <2>2, <2>4 DEF JobsOf
    <2>8. Accounted' /\ AckCoversProcessed'
      <3>1. \A n, m : NackedBefore(n, m)' <=> NackedBefore(n, m)
        BY <2>1 DEF NackedBefore
      <3>2. Accounted'
        BY <2>1, <2>7, <3>1 DEF PipelineInv, Accounted
      <3>3. AckCoversProcessed'
        BY <2>1, <2>7, <3>1 DEF PipelineInv, AckCoversProcessed
      <3>4. QED BY <3>2, <3>3
    <2>9. JobConserved'
      BY <2>1, <2>2, <2>3 DEF PipelineInv, JobConserved, JobsOf, Published
    <2>10. QED BY <2>5, <2>6, <2>8, <2>9 DEF PipelineInv
  <1>2. CASE Publish(j)
    <2> USE <1>2 DEF Publish
    <2>1. UNCHANGED <<doc, ready, unacked, nextTag, brokerOpen, clientOpen, inbox,
                      cur, step, alive, discarded>>
      OBVIOUS
    <2>2. \A i \in Jobs \ {j} : upload'[i] = upload[i]
      OBVIOUS
    <2>3. CASE ~clientOpen
      <3>1. wire' = wire /\ upload'[j] = "refused" /\ upload[j] = "inserted"
        BY <2>3
      <3>2. ChannelStates' /\ TagOrder' /\ Accounted' /\ AckCoversProcessed'
        BY <2>1, <3>1 DEF PipelineInv, ChannelStates, TagOrder, Working, Accounted,
           AckCoversProcessed, NackedBefore
      <3>3. MessagesHaveUploads' /\ JobConserved'
        BY <2>1, <2>2, <3>1 DEF PipelineInv, MessagesHaveUploads, JobConserved, JobsOf,
           Published, Deliveries
      <3>4. QED BY <3>2, <3>3 DEF PipelineInv
    <2>4. CASE clientOpen
      <3>1. wire' = Append(wire, PublishFrame(j)) /\ upload'[j] = "accepted"
        BY <2>4
      <3>2. PublishFrame(j) \in Frames
        BY DEF PublishFrame, Frames
      <3>3. /\ Len(wire') = Len(wire) + 1 /\ Len(wire) \in Nat
            /\ \A i \in 1..Len(wire) : wire'[i] = wire[i]
            /\ wire'[Len(wire) + 1] = PublishFrame(j)
        BY <3>1, <3>2, AppendFacts
      <3>a. \A m \in 1..Len(wire') : wire'[m].kind \in {"nack", "ack"} =>
              m \in 1..Len(wire) /\ wire'[m] = wire[m]
        <4>1. PublishFrame(j).kind = "publish" BY DEF PublishFrame
        <4>2. QED BY <3>3, <4>1
      <3>4. ChannelStates' /\ TagOrder'
        <4>1. ChannelStates'
          BY <2>1, <2>4 DEF PipelineInv, ChannelStates
        <4>2. QED BY <2>1, <3>a, <4>1 DEF PipelineInv, TagOrder, Working
      <3>5. MessagesHaveUploads'
        <4>1. \A i \in Jobs : PublishFrame(j) = PublishFrame(i) => i = j
          BY DEF PublishFrame
        <4>2. Published(wire') \subseteq Published(wire) \cup {j}
          BY <3>1, <3>2, <4>1, AppendKeepsFrames DEF Published
        <4>3. JobsOf(unacked') = JobsOf(unacked) /\ JobsOf(unacked) \subseteq Jobs
          BY <2>1 DEF JobsOf, Deliveries
        <4>4. Published(wire) \subseteq Jobs
          BY DEF Published
        <4>5. QED BY <2>1, <2>2, <3>1, <4>2, <4>3, <4>4 DEF PipelineInv, MessagesHaveUploads
      <3>6. Accounted'
        BY <2>1, <3>1, <3>2, AppendKeepsFrames DEF PipelineInv, Accounted
      <3>7. AckCoversProcessed'
        BY <2>1, <3>1, <3>2, <3>a, AppendKeepsFrames DEF PipelineInv, AckCoversProcessed
      <3>8. j \in Published(wire')
        BY <3>3 DEF Published
      <3>9. JobConserved'
        BY <2>1, <2>2, <3>1, <3>2, <3>8, AppendKeepsFrames DEF PipelineInv, JobConserved
      <3>10. QED BY <3>4, <3>5, <3>6, <3>7, <3>9 DEF PipelineInv
    <2>5. QED BY <2>3, <2>4
  <1>3. QED BY <1>1, <1>2

\* A delivery gets a tag above all that are in use, and is in the inbox.
LEMMA DeliverInv ==
  ASSUME TypeOK, PipelineInv, NEW j \in Jobs, Deliver(j)
  PROVE  PipelineInv'
  <1> USE DEF TypeOK, Deliver, countVars
  <1> DEFINE new == [tag |-> nextTag, job |-> j]
  <1>1. /\ unacked' = unacked \cup {new} /\ inbox' = inbox \cup {new}
        /\ ready' = ready \ {j} /\ nextTag' = nextTag + 1
        /\ UNCHANGED <<doc, upload, wire, brokerOpen, clientOpen, cur, step, alive, discarded>>
        /\ brokerOpen /\ alive
    OBVIOUS
  <1>2. new.tag = nextTag /\ new.job = j /\ new \in Deliveries
    BY DEF Deliveries
  <1>3. \A d \in unacked \cup inbox : d.tag \in Nat /\ d.tag < nextTag
    BY DEF PipelineInv, TagOrder, Deliveries
  <1> HIDE DEF new
  <1>4. ChannelStates'
    BY <1>1 DEF PipelineInv, ChannelStates
  <1>5. TagOrder'
    <2>1. \A m \in 1..Len(wire) : wire[m].kind \in {"nack", "ack"} => wire[m].tag \in Nat
      BY DEF Frames
    <2>2. Working => cur.tag \in Nat
      BY DEF Working, Deliveries
    <2>3. QED BY <1>1, <1>2, <1>3, <2>1, <2>2 DEF PipelineInv, TagOrder, Working
  <1>6. JobsOf(unacked') = JobsOf(unacked) \cup {j}
    BY <1>1, <1>2 DEF JobsOf
  <1>7. MessagesHaveUploads' /\ JobConserved'
    BY <1>1, <1>6 DEF PipelineInv, MessagesHaveUploads, JobConserved, Published
  <1>8. Accounted'
    BY <1>1 DEF PipelineInv, Accounted, NackedBefore
  <1>9. AckCoversProcessed'
    <2>1. \A m \in 1..Len(wire) : wire[m].kind = "ack" => wire[m].tag \in Nat /\ wire[m].tag < nextTag
      BY DEF PipelineInv, TagOrder, Frames
    <2>2. QED BY <1>1, <1>2, <2>1 DEF PipelineInv, AckCoversProcessed, NackedBefore
  <1>10. QED BY <1>4, <1>5, <1>7, <1>8, <1>9 DEF PipelineInv

\* The consumer takes the lowest tag; what it has not nacked yet is its own.
LEMMA ReceiveInv ==
  ASSUME TypeOK, PipelineInv, Receive
  PROVE  PipelineInv'
  <1> USE DEF TypeOK, brokerVars, countVars
  <1>1. PICK d \in inbox : /\ \A e \in inbox : d.tag <= e.tag
                           /\ cur' = d /\ inbox' = inbox \ {d}
    BY DEF Receive
  <1>2. /\ step = "idle" /\ step' = "transcode" /\ alive
        /\ UNCHANGED <<doc, upload, ready, unacked, nextTag, wire, brokerOpen, clientOpen,
                       alive, discarded>>
    BY DEF Receive
  <1>3. \A e \in unacked \cup inbox : e.tag \in Nat /\ e.tag < nextTag
    BY DEF PipelineInv, TagOrder, Deliveries
  <1>4. \A e \in inbox' : d.tag < e.tag
    BY <1>1, <1>3 DEF PipelineInv, TagOrder
  <1>5. ChannelStates'
    BY <1>1, <1>2 DEF PipelineInv, ChannelStates
  <1>6. TagOrder'
    BY <1>1, <1>2, <1>4 DEF PipelineInv, TagOrder
  <1>7. MessagesHaveUploads' /\ JobConserved'
    BY <1>2 DEF PipelineInv, MessagesHaveUploads, JobConserved, JobsOf, Published
  <1>8. \A n, m : NackedBefore(n, m)' <=> NackedBefore(n, m)
    BY <1>2 DEF NackedBefore
  <1>9. Accounted'
    BY <1>1, <1>2, <1>8 DEF PipelineInv, Accounted
  <1>10. AckCoversProcessed'
    BY <1>2, <1>8 DEF PipelineInv, AckCoversProcessed
  <1>11. QED BY <1>5, <1>6, <1>7, <1>9, <1>10 DEF PipelineInv

\* The end of the loop, the transcoding and the update write no frame.
LEMMA WorkInv ==
  ASSUME TypeOK, PipelineInv, LoopEnds \/ Transcode \/ Update
  PROVE  PipelineInv'
  <1> USE DEF TypeOK, brokerVars, countVars
  <1>1. /\ alive
        /\ UNCHANGED <<upload, ready, unacked, nextTag, wire, brokerOpen, clientOpen,
                       inbox, cur, alive, discarded>>
    BY DEF LoopEnds, Transcode, Update
  <1>2. Working' => Working
    BY DEF LoopEnds, Transcode, Update, Working
  <1>3. ChannelStates'
    BY <1>1 DEF PipelineInv, ChannelStates
  <1>4. TagOrder'
    BY <1>1, <1>2 DEF PipelineInv, TagOrder
  <1>5. \A i \in Jobs : doc[i] = "completed" => doc'[i] = "completed"
    BY DEF LoopEnds, Transcode, Update, Deliveries
  <1>6. MessagesHaveUploads'
    BY <1>1 DEF PipelineInv, MessagesHaveUploads, JobsOf, Published
  <1>7. JobConserved'
    BY <1>1, <1>5 DEF PipelineInv, JobConserved, JobsOf, Published
  <1>8. \A n, m : NackedBefore(n, m)' <=> NackedBefore(n, m)
    BY <1>1 DEF NackedBefore
  <1>9. \A d \in unacked : d.job \in Jobs
    BY DEF Deliveries
  <1>10. AckCoversProcessed'
    BY <1>1, <1>5, <1>8, <1>9 DEF PipelineInv, AckCoversProcessed
  <1>11. Accounted'
    <2>1. ASSUME NEW d \in unacked, d = cur, step \in {"transcode", "update", "nack"}
          PROVE  step' \in {"transcode", "update", "nack"} \/ doc'[d.job] = "completed"
      BY <1>9, <2>1 DEF LoopEnds, Transcode, Update
    <2>2. QED BY <1>1, <1>5, <1>8, <1>9, <2>1 DEF PipelineInv, Accounted
  <1>12. QED BY <1>3, <1>4, <1>6, <1>7, <1>10, <1>11 DEF PipelineInv

\* A frame of the consumer on an open channel: a nack accounts for the
\* delivery, and an ack finds everything up to its tag accounted for.
LEMMA SettleInv ==
  ASSUME TypeOK, PipelineInv, Nack \/ Ack
  PROVE  PipelineInv'
  <1> USE DEF TypeOK, brokerVars, countVars
  <1>1. /\ alive /\ Working /\ cur \in Deliveries /\ cur.tag \in Nat
        /\ UNCHANGED <<doc, upload, ready, unacked, nextTag, brokerOpen, clientOpen,
                       inbox, alive, discarded>>
    BY DEF Nack, Ack, Working, Deliveries
  <1>2. Nack => step = "nack" /\ step' = "ack" /\ cur' = cur
    BY DEF Nack
  <1>3. Ack => step = "ack" /\ step' = "idle"
    BY DEF Ack
  <1>4. ChannelStates'
    BY <1>1 DEF PipelineInv, ChannelStates
  <1>5. \A d \in unacked \cup inbox : d.tag \in Nat /\ d.job \in Jobs
    BY DEF Deliveries
  <1>6. CASE ~clientOpen
    <2>1. wire' = wire /\ unacked = {} /\ inbox = {}
      BY <1>6 DEF Nack, Ack, SendOf, PipelineInv, ChannelStates
    <2>2. TagOrder'
      BY <1>1, <1>2, <1>3, <2>1 DEF PipelineInv, TagOrder, Working
    <2>3. MessagesHaveUploads' /\ JobConserved'
      BY <1>1, <2>1 DEF PipelineInv, MessagesHaveUploads, JobConserved, JobsOf, Published
    <2>4. Accounted' /\ AckCoversProcessed'
      BY <1>1, <2>1 DEF Accounted, AckCoversProcessed
    <2>5. QED BY <1>4, <2>2, <2>3, <2>4 DEF PipelineInv
  <1>7. CASE clientOpen
    <2> DEFINE f == IF Nack THEN NackFrame(cur.tag) ELSE AckFrame(cur.tag)
    <2>1. wire' = Append(wire, f)
      BY <1>7 DEF Nack, Ack, SendOf
    <2>2. /\ f \in Frames /\ f.kind \in {"nack", "ack"} /\ f.tag = cur.tag
          /\ \A i \in Jobs : f # PublishFrame(i)
          /\ f.kind = "ack" => Ack
          /\ Nack => f = NackFrame(cur.tag)
      BY <1>1, <1>2, <1>3 DEF NackFrame, AckFrame, PublishFrame, Frames
    <2> HIDE DEF f
    <2>3. /\ Len(wire') = Len(wire) + 1 /\ Len(wire) \in Nat
          /\ \A i \in 1..Len(wire) : wire'[i] = wire[i]
          /\ wire'[Len(wire) + 1] = f
      BY <2>1, <2>2, AppendFacts
    <2>4. Working' => cur' = cur
      BY <1>2, <1>3 DEF Working
    <2>5. TagOrder'
      BY <1>1, <2>2, <2>3, <2>4 DEF PipelineInv, TagOrder
    <2>6. Published(wire') = Published(wire)
      BY <2>1, <2>2, AppendKeepsFrames DEF Published
    <2>7. MessagesHaveUploads' /\ JobConserved'
      BY <1>1, <2>6 DEF PipelineInv, MessagesHaveUploads, JobConserved, JobsOf
    <2>8. \A n : Nack /\ n = cur.tag => NackedBefore(n, Len(wire) + 1)'
      BY <2>2, <2>3 DEF NackedBefore
    <2>9. Accounted'
      <3>1. ASSUME NEW d \in unacked
            PROVE  d \in inbox \/ doc[d.job] = "completed"
                     \/ NackedBefore(d.tag, Len(wire) + 1)'
        BY <1>2, <1>3, <2>1, <2>2, <2>8, <3>1, AppendKeepsFrames DEF PipelineInv, Accounted
      <3>2. QED BY <1>1, <3>1 DEF Accounted
    <2>10. AckCoversProcessed'
      <3>1. ASSUME NEW m \in 1..Len(wire'), NEW d \in unacked',
                   wire'[m].kind = "ack", d.tag <= wire'[m].tag
            PROVE  doc'[d.job] = "completed" \/ NackedBefore(d.tag, m)'
        <4>1. CASE m \in 1..Len(wire)
          BY <1>1, <2>1, <2>2, <2>3, <3>1, <4>1, AppendKeepsFrames
          DEF PipelineInv, AckCoversProcessed
        <4>2. CASE m = Len(wire) + 1
          <5>1. Ack /\ step = "ack" /\ d.tag <= cur.tag /\ d \in unacked
            BY <1>1, <1>3, <2>2, <2>3, <3>1, <4>2
          <5>2. d \notin inbox
            BY <1>1, <1>5, <5>1 DEF PipelineInv, TagOrder
          <5>3. doc[d.job] = "completed" \/ NackedBefore(d.tag, Len(wire) + 1)
            BY <5>1, <5>2 DEF PipelineInv, Accounted
          <5>4. NackedBefore(d.tag, Len(wire) + 1) => NackedBefore(d.tag, m)'
            BY <2>3, <4>2 DEF NackedBefore
          <5>5. QED BY <1>1, <5>3, <5>4
        <4>3. QED BY <2>3, <4>1, <4>2
      <3>2. QED BY <3>1 DEF AckCoversProcessed
    <2>11. QED BY <1>4, <2>5, <2>7, <2>9, <2>10 DEF PipelineInv
  <1>8. QED BY <1>6, <1>7

\* After the broker took the first frame the rest moves up by one.
LEMMA TailKeepsFrames ==
  ASSUME TypeOK, wire # <<>>, wire' = Tail(wire)
  PROVE  /\ Len(wire) \in Nat \ {0} /\ Len(wire') = Len(wire) - 1
         /\ \A m \in 1..Len(wire') : wire'[m] = wire[m + 1] /\ m + 1 \in 1..Len(wire)
         /\ \A n, m : m \in Nat /\ NackedBefore(n, m + 1) =>
              NackedBefore(n, m)' \/ wire[1] = NackFrame(n)
         /\ Published(wire') \subseteq Published(wire)
         /\ \A j \in Published(wire) : j \in Published(wire') \/ wire[1] = PublishFrame(j)
         /\ \A n : ~NackedBefore(n, 1)
  <1> USE DEF TypeOK
  <1>1. /\ Len(wire) \in Nat \ {0} /\ Len(wire') = Len(wire) - 1
        /\ \A m \in 1..Len(wire') : wire'[m] = wire[m + 1]
    BY TailFacts
  <1>2. \A m \in 1..Len(wire') : m + 1 \in 1..Len(wire)
    BY <1>1
  <1>3. \A k \in 1..Len(wire) : k = 1 \/ (k - 1 \in 1..Len(wire') /\ wire'[k - 1] = wire[k])
    BY <1>1
  <1>4. \A n, m : m \in Nat /\ NackedBefore(n, m + 1) =>
          NackedBefore(n, m)' \/ wire[1] = NackFrame(n)
    <2>1. ASSUME NEW n, NEW m \in Nat, NackedBefore(n, m + 1), wire[1] # NackFrame(n)
          PROVE  NackedBefore(n, m)'
      <3>1. PICK k \in 1..Len(wire) : k < m + 1 /\ wire[k] = NackFrame(n)
        BY <2>1 DEF NackedBefore
      <3>2. k - 1 \in 1..Len(wire') /\ k - 1 < m /\ wire'[k - 1] = NackFrame(n)
        BY <1>3, <2>1, <3>1
      <3>3. \E i \in 1..Len(wire') : i < m /\ wire'[i] = NackFrame(n)
        BY <3>2
      <3>4. QED BY <3>3 DEF NackedBefore
    <2>2. QED BY <2>1
  <1>5. Published(wire') \subseteq Published(wire)
    BY <1>1, <1>2 DEF Published
  <1>6. \A j \in Published(wire) : j \in Published(wire') \/ wire[1] = PublishFrame(j)
    BY <1>3 DEF Published
  <1>7. \A n : ~NackedBefore(n, 1)
    BY DEF NackedBefore
  <1>8. QED BY <1>1, <1>2, <1>4, <1>5, <1>6, <1>7

\* The broker takes a frame: what an ack settles is completed, what a nack
\* or a channel error gives back is in the queue again.
LEMMA FrameInv ==
  ASSUME TypeOK, PipelineInv, BrokerTakesFrame
  PROVE  PipelineInv'
  <1> USE DEF TypeOK, countVars
  <1> DEFINE f == wire[1]
  <1>1. /\ wire # <<>> /\ wire' = Tail(wire) /\ Head(wire) = f /\ f \in Frames
        /\ UNCHANGED <<doc, upload, clientOpen, inbox, cur, step, alive>>
    BY TailFacts DEF BrokerTakesFrame
  <1>2. /\ Len(wire) \in Nat \ {0} /\ Len(wire') = Len(wire) - 1
        /\ \A m \in 1..Len(wire') : wire'[m] = wire[m + 1] /\ m + 1 \in 1..Len(wire)
        /\ \A n, m : m \in Nat /\ NackedBefore(n, m + 1) =>
             NackedBefore(n, m)' \/ f = NackFrame(n)
        /\ Published(wire') \subseteq Published(wire)
        /\ \A j \in Published(wire) : j \in Published(wire') \/ f = PublishFrame(j)
        /\ \A n : ~NackedBefore(n, 1)
    BY <1>1, TailKeepsFrames
  <1>3. nextTag' = nextTag
    BY DEF BrokerTakesFrame, TakePublish, TakeNack, TakeAck, CloseChannel
  <1>4. \A j \in Jobs : f = PublishFrame(j) => f.kind = "publish" /\ f.job = j
    BY DEF PublishFrame
  <1>5. \A n : f = NackFrame(n) => f.kind = "nack" /\ f.tag = n
    BY DEF NackFrame
  <1>6. /\ f.kind = "publish" => f.job \in Jobs
        /\ f.kind \in {"nack", "ack"} => f.tag \in Nat
    BY <1>1 DEF Frames
  <1>7. \A d \in unacked : d.tag \in Nat /\ d.job \in Jobs
    BY DEF Deliveries
  <1>8. f.kind = "publish" => f.job \in Published(wire)
    <2>1. ASSUME f.kind = "publish" PROVE f = PublishFrame(f.job)
      BY <1>1, <2>1 DEF Frames, PublishFrame
    <2>2. QED BY <1>2, <1>6, <2>1 DEF Published
  <1> HIDE DEF f
  \* What the step does to the deliveries, in the terms of the invariant.
  <1>9. /\ unacked' \subseteq unacked
        /\ f.kind = "nack" => \A d \in unacked' : d.tag # f.tag
        /\ ~brokerOpen' => unacked' = {}
        /\ brokerOpen' => brokerOpen
        /\ ready \subseteq ready' /\ discarded \subseteq discarded'
        /\ \A j \in ready' : j \in ready \/ j \in JobsOf(unacked)
                               \/ (f.kind = "publish" /\ j = f.job)
        /\ f.kind = "publish" => f.job \in ready' \cup discarded'
        /\ \A d \in unacked : \/ d \in unacked' \/ d.job \in ready'
                              \/ f.kind = "ack" /\ d.tag <= f.tag
    <2>1. CASE ~brokerOpen
      <3>1. unacked = {}
        BY <2>1 DEF PipelineInv, ChannelStates
      <3>2. /\ discarded' = IF f.kind = "publish" THEN discarded \cup {f.job} ELSE discarded
            /\ UNCHANGED <<ready, unacked, nextTag, brokerOpen>>
        BY <1>1, <2>1 DEF BrokerTakesFrame
      <3>3. QED BY <2>1, <3>1, <3>2
    <2>2. CASE brokerOpen
      <3>1. \/ f.kind = "publish" /\ TakePublish(f.job)
            \/ f.kind = "nack" /\ TakeNack(f.tag)
            \/ f.kind = "ack" /\ TakeAck(f.tag)
        BY <1>1, <2>2 DEF BrokerTakesFrame
      <3>2. CASE f.kind = "publish" /\ TakePublish(f.job)
        BY <2>2, <3>2 DEF TakePublish
      <3>3. CASE f.kind \in {"nack", "ack"} /\ CloseChannel
        BY <3>3 DEF CloseChannel, JobsOf
      <3>4. CASE f.kind = "nack" /\ TakeNack(f.tag) /\ ~CloseChannel
        BY <2>2, <3>4 DEF TakeNack, JobsOf
      <3>5. CASE f.kind = "ack" /\ TakeAck(f.tag) /\ ~CloseChannel
        <4>1. /\ unacked' = {d \in unacked : d.tag > f.tag}
              /\ UNCHANGED <<ready, nextTag, brokerOpen, discarded>>
          BY <3>5 DEF TakeAck
        <4>2. \A d \in unacked : d \in unacked' \/ d.tag <= f.tag
          BY <1>6, <1>7, <3>5, <4>1
        <4>3. QED BY <2>2, <3>5, <4>1, <4>2
      <3>6. QED BY <3>1, <3>2, <3>3, <3>4, <3>5
    <2>3. QED BY <2>1, <2>2
  <1>10. ChannelStates'
    BY <1>1, <1>9 DEF PipelineInv, ChannelStates, BrokerTakesFrame
  <1>11. TagOrder'
    BY <1>1, <1>2, <1>3, <1>9 DEF PipelineInv, TagOrder, Working
  <1>12. JobsOf(unacked') \subseteq JobsOf(unacked)
    BY <1>9 DEF JobsOf
  <1>13. MessagesHaveUploads'
    BY <1>1, <1>2, <1>8, <1>9, <1>12 DEF PipelineInv, MessagesHaveUploads
  <1>14. \A d \in unacked', m \in Nat : NackedBefore(d.tag, m + 1) => NackedBefore(d.tag, m)'
    BY <1>2, <1>5, <1>9
  <1>15. Accounted'
    <2>1. ASSUME NEW d \in unacked', NackedBefore(d.tag, Len(wire) + 1)
          PROVE  NackedBefore(d.tag, Len(wire) + 1)'
      BY <1>2, <1>14, <2>1
    <2>2. QED BY <1>1, <1>9, <2>1 DEF PipelineInv, Accounted
  <1>16. AckCoversProcessed'
    <2>1. ASSUME NEW m \in 1..Len(wire'), NEW d \in unacked',
                 wire'[m].kind = "ack", d.tag <= wire'[m].tag
          PROVE  doc'[d.job] = "completed" \/ NackedBefore(d.tag, m)'
      <3>1. m \in Nat /\ m + 1 \in 1..Len(wire) /\ wire'[m] = wire[m + 1]
        BY <1>2, <2>1
      <3>2. doc[d.job] = "completed" \/ NackedBefore(d.tag, m + 1)
        BY <1>9, <2>1, <3>1 DEF PipelineInv, AckCoversProcessed
      <3>3. QED BY <1>1, <1>14, <2>1, <3>1, <3>2
    <2>2. QED BY <2>1 DEF AckCoversProcessed
  <1>17. JobConserved'
    <2>1. ASSUME NEW j \in Jobs, upload'[j] = "accepted", doc'[j] # "completed"
          PROVE  j \in ready' \cup JobsOf(unacked') \cup Published(wire') \cup discarded'
      <3>1. j \in ready \cup JobsOf(unacked) \cup Published(wire) \cup discarded
        BY <1>1, <2>1 DEF PipelineInv, JobConserved
      <3>2. CASE j \in ready \cup discarded
        BY <1>9, <3>2
      <3>3. CASE j \in Published(wire)
        BY <1>2, <1>4, <1>9, <3>3
      <3>4. CASE j \in JobsOf(unacked)
        <4>1. PICK d \in unacked : j = d.job
          BY <3>4 DEF JobsOf
        <4>2. ASSUME f.kind = "ack", d.tag <= f.tag PROVE FALSE
          BY <1>1, <1>2, <2>1, <4>1, <4>2 DEF PipelineInv, AckCoversProcessed, f
        <4>3. QED BY <1>9, <4>1, <4>2 DEF JobsOf
      <3>5. QED BY <3>1, <3>2, <3>3, <3>4
    <2>2. QED BY <2>1 DEF JobConserved
  <1>18. QED BY <1>10, <1>11, <1>13, <1>15, <1>16, <1>17 DEF PipelineInv

\* The client reads the close of a channel that holds no delivery any more.
LEMMA CloseSeenInv ==
  ASSUME TypeOK, PipelineInv, ClientSeesClose
  PROVE  PipelineInv'
  <1> USE DEF TypeOK, brokerVars, countVars
  <1>1. /\ alive /\ ~brokerOpen /\ clientOpen' = FALSE /\ inbox' = {}
        /\ UNCHANGED <<doc, upload, ready, unacked, nextTag, brokerOpen, discarded, wire,
                       cur, step, alive>>
    BY DEF ClientSeesClose
  <1>2. unacked = {}
    BY <1>1 DEF PipelineInv, ChannelStates
  <1>3. ChannelStates' /\ TagOrder'
    BY <1>1, <1>2 DEF PipelineInv, ChannelStates, TagOrder, Working
  <1>4. MessagesHaveUploads' /\ JobConserved'
    BY <1>1 DEF PipelineInv, MessagesHaveUploads, JobConserved, JobsOf, Published
  <1>5. Accounted' /\ AckCoversProcessed'
    BY <1>1, <1>2 DEF Accounted, AckCoversProcessed
  <1>6. QED BY <1>3, <1>4, <1>5 DEF PipelineInv

\* Crashes and restarts: deliveries go back to the queue, and what a fault
\* throws away is recorded as such.
LEMMA FaultInv ==
  ASSUME TypeOK, PipelineInv, Crash \/ Restart \/ BrokerRestart
  PROVE  PipelineInv'
  <1> USE DEF TypeOK, countVars
  <1>a. wire = <<>> => Published(wire) = {}
    BY DEF Published
  <1>b. JobsOf({}) = {}
    BY DEF JobsOf
  <1>1. CASE Crash
    <2>1. /\ wire' = <<>> /\ unacked' = {} /\ inbox' = {} /\ step' = "idle"
          /\ brokerOpen' = FALSE /\ clientOpen' = FALSE /\ doc' = doc
          /\ ready' = ready \cup JobsOf(unacked)
          /\ discarded' = discarded \cup Published(wire)
          /\ \A j \in Jobs : upload'[j] = "accepted" <=> upload[j] = "accepted"
      BY <1>1 DEF Crash
    <2>2. Published(wire') = {} /\ JobsOf(unacked') = {} /\ Len(wire') = 0
      BY <2>1 DEF Published, JobsOf
    <2>3. ChannelStates' /\ TagOrder' /\ Accounted' /\ AckCoversProcessed'
      BY <2>1, <2>2 DEF ChannelStates, TagOrder, Working, Accounted, AckCoversProcessed
    <2>4. ready' \subseteq Jobs
      BY <2>1 DEF JobsOf, Deliveries
    <2>5. MessagesHaveUploads' /\ JobConserved'
      BY <2>1, <2>2, <2>4 DEF PipelineInv, MessagesHaveUploads, JobConserved
    <2>6. QED BY <2>3, <2>5 DEF PipelineInv
  <1>2. CASE Restart
    <2>1. /\ ~alive /\ alive' = TRUE
          /\ UNCHANGED <<doc, upload, ready, unacked, discarded, wire, inbox, cur, step>>
          /\ ~clientOpen' => ~brokerOpen'
      BY <1>2, SetUpStates DEF Restart
    <2>2. unacked = {} /\ inbox = {} /\ wire = <<>> /\ step = "idle" /\ Len(wire) = 0
      BY <2>1 DEF PipelineInv, ChannelStates
    <2>3. ChannelStates' /\ TagOrder' /\ Accounted' /\ AckCoversProcessed'
      BY <2>1, <2>2 DEF ChannelStates, TagOrder, Working, Accounted, AckCoversProcessed
    <2>4. MessagesHaveUploads' /\ JobConserved'
      BY <2>1 DEF PipelineInv, MessagesHaveUploads, JobConserved, JobsOf, Published
    <2>5. QED BY <2>3, <2>4 DEF PipelineInv
  <1>3. CASE BrokerRestart
    <2>1. /\ wire' = <<>> /\ unacked' = {} /\ ready' = {} /\ brokerOpen' = FALSE
          /\ discarded' = discarded \cup ready \cup JobsOf(unacked) \cup Published(wire)
          /\ UNCHANGED <<doc, upload, nextTag, clientOpen, inbox, cur, step, alive>>
      BY <1>3 DEF BrokerRestart
    <2>2. Published(wire') = {} /\ JobsOf(unacked') = {} /\ Len(wire') = 0
      BY <2>1 DEF Published, JobsOf
    <2>3. ChannelStates' /\ TagOrder' /\ Accounted' /\ AckCoversProcessed'
      BY <2>1, <2>2 DEF PipelineInv, ChannelStates, TagOrder, Working, Accounted,
         AckCoversProcessed
    <2>4. MessagesHaveUploads' /\ JobConserved'
      BY <2>1, <2>2 DEF PipelineInv, MessagesHaveUploads, JobConserved
    <2>5. QED BY <2>3, <2>4 DEF PipelineInv
  <1>4. QED BY <1>1, <1>2, <1>3

\* The strengthened invariant holds in every reachable state.
THEOREM PipelineInvariant == Spec => []PipelineInv
  <1>1. Init => PipelineInv
    BY SetUpStates DEF Init, PipelineInv, ChannelStates, TagOrder, Working, MessagesHaveUploads,
       Accounted, AckCoversProcessed, JobConserved, JobsOf, Published
  <1>2. TypeOK /\ PipelineInv /\ [Next]_vars => PipelineInv'
    <2>1. TypeOK /\ PipelineInv /\ Next => PipelineInv'
      BY UploadInv, DeliverInv, ReceiveInv, WorkInv, SettleInv, FrameInv, CloseSeenInv,
         FaultInv DEF Next, ConsumerNext
    <2>2. PipelineInv /\ UNCHANGED vars => PipelineInv'
      BY DEF PipelineInv, ChannelStates, TagOrder, Working, MessagesHaveUploads, Accounted,
         AckCoversProcessed, NackedBefore, JobConserved, JobsOf, Published, vars, brokerVars
    <2>3. QED BY <2>1, <2>2
  <1>3. QED BY <1>1, <1>2, PipelineTypeCorrect, PTL DEF Spec

\* No upload that was answered 200 is forgotten by the code: until its
\* document is completed its message is in the queue, with the consumer or on
\* its way, unless a fault of channel, program or broker threw it away.
THEOREM JobsConserved == Spec => []JobConserved
  <1>1. PipelineInv => JobConserved
    BY DEF PipelineInv
  <1>2. QED BY <1>1, PipelineInvariant, PTL

\* Ack(true) of the consumer never settles a delivery that was not worked on.
THEOREM AcksCoverProcessed == Spec => []AckCoversProcessed
  <1>1. PipelineInv => AckCoversProcessed
    BY DEF PipelineInv
  <1>2. QED BY <1>1, PipelineInvariant, PTL

-----------------------------------------------------------------------------
(* The channel.  Under a running program only a failed job, or a restart of  *)
(* the broker, closes it.  For that the broker must know the tag of every    *)
(* ack when it comes to it: the acks on the wire have rising tags, all of    *)
(* them below those of the deliveries still to be worked on.                 *)

\* The frames on the wire that acknowledge.
Acks == {m \in 1..Len(wire) : wire[m].kind = "ack"}

\* A consumer, and neither a failed job nor a restart of the broker so far.
Calm == consuming /\ ~JobsMayFail /\ brokerRestarts = 0

\* No frame gives a delivery back.
NothingNacked ==
    /\ step # "nack"
    /\ \A m \in 1..Len(wire) : wire[m].kind # "nack"

\* What the acks on the wire settle is unsettled, one after the other.
AcksInOrder ==
    /\ \A m \in Acks : Known(wire[m].tag)
    /\ \A m, k \in Acks : m < k => wire[m].tag < wire[k].tag

\* What is still to be worked on is unsettled, and above all acks.
WorkAboveAcks ==
    /\ inbox \subseteq unacked
    /\ \A d \in inbox, m \in Acks : wire[m].tag < d.tag
    /\ Working => /\ cur \in unacked
                  /\ \A m \in Acks : wire[m].tag < cur.tag

\* The inductive strengthening of ChannelSurvives.
SettledOnce == Calm => /\ alive => brokerOpen
                       /\ NothingNacked /\ AcksInOrder /\ WorkAboveAcks

\* Two frames are told apart by their kind.
LEMMA FrameKinds ==
  ASSUME NEW f \in Frames
  PROVE  /\ f.kind \in {"publish", "nack", "ack"}
         /\ f.kind # "publish" => f.tag \in Nat
         /\ f.kind = "publish" => f.job \in Jobs
  BY DEF Frames

\* Acks stay the same, with their frames, while the wire does.
LEMMA WireKept ==
  ASSUME wire' = wire
  PROVE  Acks' = Acks
  BY DEF Acks

\* Only a frame that is an ack adds one.
LEMMA WireAppended ==
  ASSUME TypeOK, NEW f \in Frames, wire' = Append(wire, f)
  PROVE  /\ Acks' = IF f.kind = "ack" THEN Acks \cup {Len(wire) + 1} ELSE Acks
         /\ Len(wire) \in Nat /\ Acks \subseteq 1..Len(wire)
         /\ \A m \in 1..Len(wire) : wire'[m] = wire[m]
         /\ wire'[Len(wire) + 1] = f /\ Len(wire') = Len(wire) + 1
  <1>1. /\ Len(wire') = Len(wire) + 1 /\ Len(wire) \in Nat
        /\ \A i \in 1..Len(wire) : wire'[i] = wire[i]
        /\ wire'[Len(wire) + 1] = f
    BY AppendFacts DEF TypeOK
  <1>2. Acks' = IF f.kind = "ack" THEN Acks \cup {Len(wire) + 1} ELSE Acks
    BY <1>1 DEF Acks
  <1>3. QED BY <1>1, <1>2 DEF Acks

\* An upload request adds a frame that is no ack, and a delivery is above all
\* acks on the wire.
LEMMA ArrivalSettles ==
  ASSUME TypeOK, PipelineInv, SettledOnce,
         NEW j \in Jobs, Insert(j) \/ Publish(j) \/ Deliver(j)
  PROVE  SettledOnce'
  <1> USE DEF TypeOK, brokerVars, countVars
  <1>1. CASE Insert(j)
    BY <1>1, WireKept DEF Insert, SettledOnce, Calm, NothingNacked, AcksInOrder,
       WorkAboveAcks, Known, Working
  <1>2. CASE Publish(j) /\ wire' = wire
    BY <1>2, WireKept DEF Publish, SettledOnce, Calm, NothingNacked, AcksInOrder,
       WorkAboveAcks, Known, Working
  <1>3. CASE Publish(j) /\ wire' = Append(wire, PublishFrame(j))
    <2>1. PublishFrame(j) \in Frames /\ PublishFrame(j).kind = "publish"
      BY DEF PublishFrame, Frames
    <2>2. /\ Acks' = Acks /\ Len(wire) \in Nat /\ Acks \subseteq 1..Len(wire)
          /\ \A m \in 1..Len(wire) : wire'[m] = wire[m]
          /\ wire'[Len(wire) + 1].kind = "publish" /\ Len(wire') = Len(wire) + 1
      BY <1>3, <2>1, WireAppended
    <2>3. UNCHANGED <<unacked, inbox, cur, step, alive, consuming, brokerOpen,
                      brokerRestarts>>
      BY <1>3 DEF Publish
    <2>4. QED BY <2>2, <2>3 DEF SettledOnce, Calm, NothingNacked, AcksInOrder,
                 WorkAboveAcks, Known, Working
  <1>4. CASE Deliver(j)
    <2> DEFINE d == [tag |-> nextTag, job |-> j]
    <2>1. /\ unacked' = unacked \cup {d} /\ inbox' = inbox \cup {d}
          /\ UNCHANGED <<wire, cur, step, alive, consuming, brokerOpen,
                      brokerRestarts>>
      BY <1>4 DEF Deliver
    <2>2. Acks' = Acks /\ \A m \in Acks : wire[m].tag < d.tag
      BY <2>1, WireKept DEF Acks, PipelineInv, TagOrder
    <2>3. QED BY <2>1, <2>2 DEF SettledOnce, Calm, NothingNacked, AcksInOrder,
                 WorkAboveAcks, Known, Working
  <1>5. QED BY <1>1, <1>2, <1>3, <1>4 DEF Publish

\* The consumer acknowledges what it worked on, which is above all earlier
\* acks and below what it has not received.
LEMMA ConsumerSettles ==
  ASSUME TypeOK, PipelineInv, SettledOnce, ConsumerNext
  PROVE  SettledOnce'
  <1> USE DEF TypeOK, brokerVars, countVars
  <1>0. SUFFICES ASSUME Calm' PROVE SettledOnce'
    BY DEF SettledOnce
  <1>1. UNCHANGED <<brokerRestarts, consuming, alive, brokerOpen>>
        /\ unacked' = unacked /\ alive
    BY DEF ConsumerNext, Receive, LoopEnds, Transcode, Update, Nack, Ack
  <1>2. Calm /\ brokerOpen /\ clientOpen
    BY <1>0, <1>1 DEF Calm, SettledOnce, PipelineInv, ChannelStates
  <1>3. CASE Receive
    <2>1. PICK d \in inbox : cur' = d /\ inbox' = inbox \ {d}
      BY <1>3 DEF Receive
    <2>2. wire' = wire /\ step' = "transcode"
      BY <1>3 DEF Receive
    <2>3. QED BY <1>1, <1>2, <2>1, <2>2, WireKept DEF SettledOnce, NothingNacked,
                 AcksInOrder, WorkAboveAcks, Known, Working
  <1>4. CASE LoopEnds
    BY <1>2, <1>4 DEF LoopEnds
  <1>5. CASE Transcode \/ Update
    <2>1. /\ Working /\ Working' /\ step' # "nack"
          /\ UNCHANGED <<wire, inbox, cur>>
      BY <1>2, <1>5 DEF Transcode, Update, Working, Calm
    <2>2. QED BY <1>1, <1>2, <2>1, WireKept DEF SettledOnce, NothingNacked, AcksInOrder,
                 WorkAboveAcks, Known
  <1>6. CASE Nack
    BY <1>2, <1>6 DEF Nack, SettledOnce, NothingNacked
  <1>7. CASE Ack
    <2> DEFINE f == AckFrame(cur.tag)
    <2>1. /\ Working /\ ~Working' /\ step' = "idle" /\ inbox' = inbox
          /\ wire' = Append(wire, f)
      BY <1>2, <1>7 DEF Ack, SendOf, Working
    <2>2. f \in Frames /\ f.kind = "ack" /\ f.tag = cur.tag /\ cur.tag \in Nat
      BY <2>1 DEF Working, AckFrame, Frames, Deliveries
    <2> HIDE DEF f
    <2>3. /\ Acks' = Acks \cup {Len(wire) + 1}
          /\ Len(wire) \in Nat /\ Acks \subseteq 1..Len(wire)
          /\ \A m \in 1..Len(wire) : wire'[m] = wire[m]
          /\ wire'[Len(wire) + 1] = f /\ Len(wire') = Len(wire) + 1
      BY <2>1, <2>2, WireAppended
    <2>4. cur \in unacked /\ \A m \in Acks : wire[m].tag < cur.tag
      BY <1>2, <2>1 DEF SettledOnce, WorkAboveAcks
    <2>5. NothingNacked'
      BY <1>2, <2>1, <2>2, <2>3 DEF SettledOnce, NothingNacked
    <2>6. AcksInOrder'
      <3>1. \A m \in Acks' : Known(wire[m].tag)'
        BY <1>1, <1>2, <2>2, <2>3, <2>4 DEF SettledOnce, AcksInOrder, Known
      <3>2. ASSUME NEW m \in Acks', NEW k \in Acks', m < k
            PROVE  wire'[m].tag < wire'[k].tag
        <4>a. /\ Len(wire) \in Nat /\ Acks \subseteq 1..Len(wire)
              /\ m \in Acks \cup {Len(wire) + 1} /\ k \in Acks \cup {Len(wire) + 1}
          BY <2>3, <3>2, Zenon
        <4>1. m \in Acks /\ m \in 1..Len(wire)
          BY ONLY <3>2, <4>a
        <4>2. wire'[m] = wire[m] /\ wire[m].tag < cur.tag
          BY <2>3, <2>4, <4>1
        <4>3. CASE k = Len(wire) + 1
          BY <2>2, <2>3, <4>2, <4>3
        <4>4. CASE k \in Acks
          <5>1. wire'[k] = wire[k]
            BY <2>3, <4>4
          <5>2. wire[m].tag < wire[k].tag
            BY <1>2, <3>2, <4>1, <4>4 DEF SettledOnce, AcksInOrder
          <5>3. QED BY <4>2, <5>1, <5>2
        <4>5. QED BY <2>3, <3>2, <4>3, <4>4
      <3>3. QED BY <3>1, <3>2 DEF AcksInOrder
    <2>7. WorkAboveAcks'
      <3>1. \A d \in inbox : cur.tag < d.tag
        BY <2>1 DEF PipelineInv, TagOrder
      <3>2. QED BY <1>1, <1>2, <2>1, <2>2, <2>3, <3>1 DEF SettledOnce, WorkAboveAcks
    <2>8. QED BY <1>1, <1>2, <2>5, <2>6, <2>7 DEF SettledOnce
  <1>8. QED BY <1>3, <1>4, <1>5, <1>6, <1>7 DEF ConsumerNext

\* The broker knows the tag of the first ack, and of the others afterwards.
LEMMA FrameSettles ==
  ASSUME TypeOK, PipelineInv, SettledOnce, BrokerTakesFrame
  PROVE  SettledOnce'
  <1> USE DEF TypeOK, brokerVars, countVars
  <1> DEFINE f == Head(wire)
  <1>0. SUFFICES ASSUME Calm' PROVE SettledOnce'
    BY DEF SettledOnce
  <1>1. /\ UNCHANGED <<inbox, cur, step, alive, consuming, brokerRestarts>>
        /\ wire # <<>> /\ wire' = Tail(wire)
    BY DEF BrokerTakesFrame
  <1>2. /\ f = wire[1] /\ f \in Frames /\ Len(wire) \in Nat \ {0}
        /\ Len(wire') = Len(wire) - 1
        /\ \A i \in 1..Len(wire') : wire'[i] = wire[i + 1]
    BY <1>1, TailFacts
  <1>3. \A m \in Acks' : m + 1 \in Acks /\ wire'[m] = wire[m + 1] /\ m \in Nat \ {0}
    BY <1>2 DEF Acks
  <1>4. Calm /\ alive /\ brokerOpen
    BY <1>0, <1>1 DEF Calm, SettledOnce, PipelineInv, ChannelStates
  <1>5. 1 \in 1..Len(wire) /\ f.kind # "nack"
    BY <1>2, <1>4 DEF SettledOnce, NothingNacked
  <1> HIDE DEF f
  <1>6. NothingNacked'
    BY <1>1, <1>2, <1>4 DEF SettledOnce, NothingNacked
  <1>7. CASE f.kind = "publish"
    <2>1. unacked' = unacked /\ brokerOpen'
      BY <1>4, <1>7 DEF BrokerTakesFrame, TakePublish, f
    <2>a. \A m \in Acks' : Known(wire[m].tag)'
      BY <1>3, <1>4, <2>1 DEF SettledOnce, AcksInOrder, Known
    <2>2. AcksInOrder'
      BY <1>3, <1>4, <2>a DEF SettledOnce, AcksInOrder
    <2>3. WorkAboveAcks'
      BY <1>1, <1>3, <1>4, <2>1 DEF SettledOnce, WorkAboveAcks, Working
    <2>4. QED BY <1>6, <2>1, <2>2, <2>3 DEF SettledOnce
  <1>8. CASE f.kind = "ack"
    <2>1. 1 \in Acks /\ Known(f.tag) /\ f.tag \in Nat
      BY <1>2, <1>4, <1>5, <1>8, FrameKinds DEF SettledOnce, AcksInOrder, Acks
    <2>2. unacked' = {d \in unacked : d.tag > f.tag} /\ brokerOpen'
      BY <1>4, <1>8, <2>1 DEF BrokerTakesFrame, TakeAck, f
    <2>3. \A m \in Acks' : f.tag < wire'[m].tag
      BY <1>2, <1>3, <1>4, <2>1 DEF SettledOnce, AcksInOrder
    <2>4. \A m \in Acks' : Known(wire[m].tag)'
      <3>1. ASSUME NEW m \in Acks' PROVE Known(wire[m].tag)'
        <4>1. PICK d \in unacked : d.tag = wire[m + 1].tag
          BY <1>3, <1>4, <3>1 DEF SettledOnce, AcksInOrder, Known
        <4>2. d \in unacked' /\ d.tag = wire'[m].tag
          BY <1>3, <2>1, <2>2, <2>3, <3>1, <4>1 DEF Deliveries
        <4>3. QED BY <4>2 DEF Known
      <3>2. QED BY <3>1
    <2>5. AcksInOrder'
      BY <1>3, <1>4, <2>4 DEF SettledOnce, AcksInOrder
    <2>6. \A d \in unacked : d.tag \in Nat
      BY DEF Deliveries
    <2>7. inbox' \subseteq unacked' /\ (Working' => cur' \in unacked')
      BY <1>1, <1>2, <1>4, <2>1, <2>2, <2>6 DEF SettledOnce, WorkAboveAcks, Working
    <2>8. WorkAboveAcks'
      BY <1>1, <1>3, <1>4, <2>7 DEF SettledOnce, WorkAboveAcks, Working
    <2>9. QED BY <1>6, <2>2, <2>5, <2>8 DEF SettledOnce
  <1>9. QED BY <1>2, <1>5, <1>7, <1>8, FrameKinds

\* A program that starts again finds a channel without deliveries or frames.
LEMMA FaultSettles ==
  ASSUME TypeOK, PipelineInv, SettledOnce,
         ClientSeesClose \/ Crash \/ Restart \/ BrokerRestart
  PROVE  SettledOnce'
  <1> USE DEF TypeOK, brokerVars, countVars
  <1>1. CASE ClientSeesClose
    BY <1>1 DEF ClientSeesClose, SettledOnce, Calm
  <1>2. CASE Crash
    <2>1. /\ wire' = <<>> /\ inbox' = {} /\ step' = "idle" /\ alive' = FALSE
      BY <1>2 DEF Crash
    <2>2. Acks' = {} /\ Len(wire') = 0
      BY <2>1 DEF Acks
    <2>3. QED BY <2>1, <2>2 DEF SettledOnce, NothingNacked, AcksInOrder, WorkAboveAcks,
                 Working
  <1>3. CASE Restart
    <2>1. /\ wire' = <<>> /\ inbox' = {} /\ step' = "idle"
          /\ (consuming' => brokerOpen')
      BY <1>3, SetUpStates DEF Restart, PipelineInv, ChannelStates
    <2>2. Acks' = {} /\ Len(wire') = 0
      BY <2>1 DEF Acks
    <2>3. QED BY <2>1, <2>2 DEF SettledOnce, Calm, NothingNacked, AcksInOrder,
                 WorkAboveAcks, Working
  <1>4. CASE BrokerRestart
    BY <1>4 DEF BrokerRestart, SettledOnce, Calm
  <1>5. QED BY <1>1, <1>2, <1>3, <1>4

\* While jobs succeed and the broker is not restarted, each tag is settled once.
THEOREM TagsSettledOnce == Spec => []SettledOnce
  <1>1. Init => SettledOnce
    <2>1. Init => /\ wire = <<>> /\ inbox = {} /\ step = "idle"
                  /\ (consuming => brokerOpen)
      BY SetUpStates DEF Init
    <2>2. QED BY <2>1 DEF SettledOnce, Calm, NothingNacked, AcksInOrder, WorkAboveAcks,
                 Working, Acks
  <1>2. TypeOK /\ PipelineInv /\ SettledOnce /\ [Next]_vars => SettledOnce'
    <2>1. TypeOK /\ PipelineInv /\ SettledOnce /\ Next => SettledOnce'
      BY ArrivalSettles, ConsumerSettles, FrameSettles, FaultSettles DEF Next
    <2>2. SettledOnce /\ UNCHANGED vars => SettledOnce'
      BY WireKept DEF vars, brokerVars, countVars, SettledOnce, Calm, NothingNacked,
         AcksInOrder, WorkAboveAcks, Known, Working
    <2>3. QED BY <2>1, <2>2
  <1>3. QED BY <1>1, <1>2, PipelineTypeCorrect, PipelineInvariant, PTL DEF Spec

\* Completed jobs never make the broker close the one channel that uploads
\* and the consumer share: any number of jobs, deliveries and crashes.
THEOREM ChannelKept == Spec => []ChannelSurvives
  <1>1. SettledOnce => ChannelSurvives
    BY DEF SettledOnce, Calm, ChannelSurvives
  <1>2. QED BY <1>1, TagsSettledOnce, PTL
=============================================================================
