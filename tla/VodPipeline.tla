---------------------------- MODULE VodPipeline ----------------------------
(***************************************************************************)
(* How an uploaded video becomes a completed VOD: the upload handler         *)
(* (StartVodTranscode) writes a pending document and publishes a message,    *)
(* the broker keeps the message, and the one consumer goroutine of main      *)
(* transcodes, updates the document and settles the delivery.                *)
(*                                                                           *)
(* The database and RabbitMQ are external: they are modelled by what         *)
(* package rabbitmq asks of them.  The queue is neither durable nor          *)
(* confirmed, a delivery is acknowledged by hand, and publishing, consuming  *)
(* and acknowledging all share one AMQP channel.  Frames of the client are   *)
(* on their way (wire) before the broker acts on them, in order; when the    *)
(* broker rejects a frame it closes the channel and gives every unsettled    *)
(* delivery back to the queue, and nothing opens another channel until the   *)
(* program is started again (docker-compose.yaml: restart always).           *)
(*                                                                           *)
(* A message is identified with its job.  The order of the queue is left     *)
(* out: no property depends on which ready message is delivered first.       *)
(***************************************************************************)
EXTENDS Naturals, Sequences

CONSTANTS
    Jobs,              \* the upload requests
    JobsMayFail,       \* may StartVodTranscoding return an error
    MaxCrashes,        \* bound: how often the program crashes
    MaxBrokerRestarts, \* bound: how often the broker restarts
    NoDelivery         \* no delivery in the consumer's hands

ASSUME PipelineConstants ==
    /\ JobsMayFail \in BOOLEAN
    /\ MaxCrashes \in Nat
    /\ MaxBrokerRestarts \in Nat
    /\ NoDelivery \notin [tag : Nat, job : Jobs]

VARIABLES
    doc,         \* status of the document of a job
    upload,      \* where the upload request of a job is
    ready,       \* the messages in the queue
    unacked,     \* deliveries the broker waits to have settled
    nextTag,     \* the next delivery tag of the channel
    wire,        \* frames from the client the broker has not acted on
    brokerOpen,  \* the channel as the broker sees it
    clientOpen,  \* the channel as the program sees it
    inbox,       \* deliveries the consumer goroutine has not received
    cur, step,   \* the delivery of the consumer and what it does with it
    alive,       \* does the program run
    consuming,   \* mss # nil: did ConsumeMessages succeed in this run of main
    discarded,   \* messages the broker threw away
    crashes, brokerRestarts

brokerVars == <<ready, unacked, nextTag, brokerOpen, discarded>>
countVars  == <<crashes, brokerRestarts>>
vars == <<doc, upload, brokerVars, wire, clientOpen, inbox, cur, step, alive,
          consuming, countVars>>

Deliveries == [tag : Nat, job : Jobs]
PublishFrame(j) == [kind |-> "publish", job |-> j]
NackFrame(n) == [kind |-> "nack", tag |-> n]
AckFrame(n) == [kind |-> "ack", tag |-> n]
Frames ==
    [kind : {"publish"}, job : Jobs] \cup [kind : {"nack", "ack"}, tag : Nat]

JobsOf(deliveries) == {d.job : d \in deliveries}
Published(frames) ==
    {j \in Jobs : \E n \in 1..Len(frames) : frames[n] = PublishFrame(j)}

\* What SetupRabbitMq and ConsumeMessages leave.  An error of theirs, with which
\* the channel is closed (the program may still have to read that), is only
\* logged: mss is nil, and the loop over it waits for ever.  After a failed
\* Connect the nil channel panics, and the program has not started.
SetUps == {[mss |-> TRUE, broker |-> TRUE, client |-> TRUE]}
          \cup [mss : {FALSE}, broker : {FALSE}, client : BOOLEAN]

Init ==
    /\ doc = [j \in Jobs |-> "none"]
    /\ upload = [j \in Jobs |-> "new"]
    /\ ready = {} /\ unacked = {} /\ nextTag = 1
    /\ wire = <<>>
    /\ \E s \in SetUps :
         consuming = s.mss /\ brokerOpen = s.broker /\ clientOpen = s.client
    /\ inbox = {} /\ cur = NoDelivery /\ step = "idle"
    /\ alive = TRUE /\ discarded = {}
    /\ crashes = 0 /\ brokerRestarts = 0

-----------------------------------------------------------------------------
(* StartVodTranscode: the upload handler.                                    *)

\* addVodToDatabase writes the pending document, or fails: 500.
Insert(j) ==
    /\ alive /\ upload[j] = "new"
    /\ \/ /\ doc' = [doc EXCEPT ![j] = "pending"]
          /\ upload' = [upload EXCEPT ![j] = "inserted"]
       \/ /\ upload' = [upload EXCEPT ![j] = "refused"]
          /\ UNCHANGED doc
    /\ UNCHANGED <<brokerVars, wire, clientOpen, inbox, cur, step, alive, consuming,
                   countVars>>

\* sendMesssageToRabbitMq.  Publish succeeds when the frame is written, and
\* 200 is answered; on a channel known to be closed it fails and 500 is
\* answered, with the pending document left behind.
Publish(j) ==
    /\ alive /\ upload[j] = "inserted"
    /\ \/ /\ clientOpen
          /\ wire' = Append(wire, PublishFrame(j))
          /\ upload' = [upload EXCEPT ![j] = "accepted"]
       \/ /\ ~clientOpen
          /\ upload' = [upload EXCEPT ![j] = "refused"]
          /\ UNCHANGED wire
    /\ UNCHANGED <<doc, brokerVars, clientOpen, inbox, cur, step, alive, consuming,
                   countVars>>

-----------------------------------------------------------------------------
(* The consumer goroutine of main and StartVodTranscoding.                   *)

\* Mutant: deliveries are taken in any order, as a pool of workers would.
ReceiveAnyOrder ==
    /\ alive /\ step = "idle"
    /\ \E d \in inbox : cur' = d /\ inbox' = inbox \ {d}
    /\ step' = "transcode"
    /\ UNCHANGED <<doc, upload, brokerVars, wire, clientOpen, alive, consuming,
                   countVars>>

\* range mss: the next delivery, in the order of the tags.
Receive ==
    /\ alive /\ step = "idle"
    /\ \E d \in inbox :
         /\ \A e \in inbox : d.tag <= e.tag
         /\ cur' = d
         /\ inbox' = inbox \ {d}
    /\ step' = "transcode"
    /\ UNCHANGED <<doc, upload, brokerVars, wire, clientOpen, alive, consuming,
                   countVars>>

\* The channel of deliveries was closed: the loop ends, for good.
LoopEnds ==
    /\ alive /\ consuming /\ step = "idle" /\ ~clientOpen
    /\ step' = "stopped"
    /\ UNCHANGED <<doc, upload, brokerVars, wire, clientOpen, inbox, cur, alive,
                   consuming, countVars>>

\* VodTranscoder.Run returns; it fails only when the key files cannot be
\* written, not when ffmpeg fails.
Transcode ==
    /\ alive /\ step = "transcode"
    /\ \/ step' = "update"
       \/ JobsMayFail /\ step' = "nack"
    /\ UNCHANGED <<doc, upload, brokerVars, wire, clientOpen, inbox, cur, alive,
                   consuming, countVars>>

\* A frame is written on an open channel; on a closed one the call fails and
\* the error is ignored.
SendOf(frame) == wire' = IF clientOpen THEN Append(wire, frame) ELSE wire

\* Mutant: the update acknowledges as well, and main acknowledges again.
UpdateAcks ==
    /\ alive /\ step = "update"
    /\ doc' = [doc EXCEPT ![cur.job] = "completed"] /\ step' = "ack"
    /\ SendOf(AckFrame(cur.tag))
    /\ UNCHANGED <<upload, brokerVars, clientOpen, inbox, cur, alive, consuming,
                   countVars>>

\* Mutant: StartVodTranscoding does not return the error of UpdateOne.
UpdateSwallowsError ==
    /\ alive /\ step = "update"
    /\ step' = "ack"
    /\ \/ doc' = [doc EXCEPT ![cur.job] = "completed"]
       \/ UNCHANGED doc
    /\ UNCHANGED <<upload, brokerVars, wire, clientOpen, inbox, cur, alive, consuming,
                   countVars>>

\* UpdateOne sets the status, or fails.
Update ==
    /\ alive /\ step = "update"
    /\ \/ doc' = [doc EXCEPT ![cur.job] = "completed"] /\ step' = "ack"
       \/ JobsMayFail /\ step' = "nack" /\ UNCHANGED doc
    /\ UNCHANGED <<upload, brokerVars, wire, clientOpen, inbox, cur, alive,
                   consuming, countVars>>

\* Mutant: the Nack forgets the delivery that the Ack still uses.
NackForgets ==
    /\ alive /\ step = "nack"
    /\ SendOf(NackFrame(cur.tag))
    /\ step' = "ack" /\ cur' = NoDelivery
    /\ UNCHANGED <<doc, upload, brokerVars, clientOpen, inbox, alive, consuming,
                   countVars>>

\* msg.Nack(false, true), and control falls through to the Ack.
Nack ==
    /\ alive /\ step = "nack"
    /\ SendOf(NackFrame(cur.tag))
    /\ step' = "ack"
    /\ UNCHANGED <<doc, upload, brokerVars, clientOpen, inbox, cur, alive,
                   consuming, countVars>>

\* msg.Ack(true): this delivery and all before it.
Ack ==
    /\ alive /\ step = "ack"
    /\ SendOf(AckFrame(cur.tag))
    /\ step' = "idle"
    /\ cur' = NoDelivery
    /\ UNCHANGED <<doc, upload, brokerVars, clientOpen, inbox, alive, consuming,
                   countVars>>

ConsumerNext == Receive \/ LoopEnds \/ Transcode \/ Update \/ Nack \/ Ack

-----------------------------------------------------------------------------
(* The broker (external).                                                    *)

\* Mutant: the queue is consumed with auto-ack.
DeliverAutoAck(j) ==
    /\ alive /\ brokerOpen /\ j \in ready
    /\ ready' = ready \ {j}
    /\ inbox' = inbox \cup {[tag |-> nextTag, job |-> j]}
    /\ nextTag' = nextTag + 1
    /\ UNCHANGED <<doc, upload, unacked, brokerOpen, discarded, wire, clientOpen, cur,
                   step, alive, consuming, countVars>>

\* A ready message goes to the consumer, without a limit on how many.
Deliver(j) ==
    /\ alive /\ brokerOpen /\ j \in ready
    /\ ready' = ready \ {j}
    /\ unacked' = unacked \cup {[tag |-> nextTag, job |-> j]}
    /\ inbox' = inbox \cup {[tag |-> nextTag, job |-> j]}
    /\ nextTag' = nextTag + 1
    /\ UNCHANGED <<doc, upload, brokerOpen, discarded, wire, clientOpen, cur, step,
                   alive, consuming, countVars>>

\* Everything unsettled goes back to the queue, and no consumer is left.
CloseChannel ==
    /\ brokerOpen' = FALSE
    /\ ready' = ready \cup JobsOf(unacked)
    /\ unacked' = {}
    /\ UNCHANGED <<nextTag, discarded>>

TakePublish(j) ==
    /\ ready' = ready \cup {j}
    /\ UNCHANGED <<unacked, nextTag, brokerOpen, discarded>>

\* Is the tag one of a delivery that is not settled?
Known(n) == \E d \in unacked : d.tag = n

\* basic.nack with requeue; a tag that is not known is a channel error.
TakeNack(n) ==
    \/ /\ Known(n)
       /\ ready' = ready \cup JobsOf({d \in unacked : d.tag = n})
       /\ unacked' = {d \in unacked : d.tag # n}
       /\ UNCHANGED <<nextTag, brokerOpen, discarded>>
    \/ ~Known(n) /\ CloseChannel

\* basic.ack of all deliveries up to the tag, likewise.
TakeAck(n) ==
    \/ /\ Known(n)
       /\ unacked' = {d \in unacked : d.tag > n}
       /\ UNCHANGED <<ready, nextTag, brokerOpen, discarded>>
    \/ ~Known(n) /\ CloseChannel

\* The broker acts on the next frame; on a channel it has closed it ignores
\* the frame, and a message in it is gone.
BrokerTakesFrame ==
    /\ wire # <<>>
    /\ wire' = Tail(wire)
    /\ LET f == Head(wire) IN
       \/ /\ brokerOpen
          /\ \/ f.kind = "publish" /\ TakePublish(f.job)
             \/ f.kind = "nack" /\ TakeNack(f.tag)
             \/ f.kind = "ack" /\ TakeAck(f.tag)
       \/ /\ ~brokerOpen
          /\ discarded' = IF f.kind = "publish" THEN discarded \cup {f.job}
                          ELSE discarded
          /\ UNCHANGED <<ready, unacked, nextTag, brokerOpen>>
    /\ UNCHANGED <<doc, upload, clientOpen, inbox, cur, step, alive, consuming,
                   countVars>>

\* The program reads the close: the client library closes the channel of
\* deliveries and drops those not received yet.
ClientSeesClose ==
    /\ alive /\ ~brokerOpen /\ clientOpen
    /\ clientOpen' = FALSE
    /\ inbox' = {}
    /\ UNCHANGED <<doc, upload, brokerVars, wire, cur, step, alive, consuming,
                   countVars>>

-----------------------------------------------------------------------------
(* Faults.                                                                   *)

\* The program dies: requests in progress get no answer, frames on the way
\* are lost and the broker takes its deliveries back.
Crash ==
    /\ alive /\ crashes < MaxCrashes
    /\ crashes' = crashes + 1
    /\ alive' = FALSE
    /\ upload' = [j \in Jobs |->
                    IF upload[j] = "inserted" THEN "refused" ELSE upload[j]]
    /\ wire' = <<>> /\ inbox' = {} /\ cur' = NoDelivery /\ step' = "idle"
    /\ brokerOpen' = FALSE /\ clientOpen' = FALSE /\ consuming' = FALSE
    /\ ready' = ready \cup JobsOf(unacked)
    /\ unacked' = {}
    /\ discarded' = discarded \cup Published(wire)
    /\ UNCHANGED <<doc, nextTag, brokerRestarts>>

\* main runs again, on a new channel.
Restart ==
    /\ ~alive
    /\ alive' = TRUE
    /\ \E s \in SetUps :
         consuming' = s.mss /\ brokerOpen' = s.broker /\ clientOpen' = s.client
    /\ nextTag' = 1
    /\ UNCHANGED <<doc, upload, ready, unacked, discarded, wire, inbox, cur, step,
                   countVars>>

\* The broker restarts: the queue is not durable, so its messages are gone.
BrokerRestart ==
    /\ brokerRestarts < MaxBrokerRestarts
    /\ brokerRestarts' = brokerRestarts + 1
    /\ discarded' = discarded \cup ready \cup JobsOf(unacked) \cup Published(wire)
    /\ ready' = {} /\ unacked' = {} /\ wire' = <<>>
    /\ brokerOpen' = FALSE
    /\ UNCHANGED <<doc, upload, nextTag, clientOpen, inbox, cur, step, alive,
                   consuming, crashes>>

Next ==
    \/ \E j \in Jobs : Insert(j) \/ Publish(j) \/ Deliver(j)
    \/ ConsumerNext
    \/ BrokerTakesFrame \/ ClientSeesClose
    \/ Crash \/ Restart \/ BrokerRestart

Spec == Init /\ [][Next]_vars

(***************************************************************************)
(* The goroutines run, the broker serves its queue and its frames, and the  *)
(* container is restarted.  Nothing is assumed of uploads and faults; that  *)
(* ffmpeg ends is part of the fairness of the consumer.                      *)
(***************************************************************************)
Fairness ==
    /\ WF_vars(ConsumerNext)
    /\ \A j \in Jobs : WF_vars(Deliver(j))
    /\ WF_vars(BrokerTakesFrame)
    /\ WF_vars(ClientSeesClose)
    /\ WF_vars(Restart)

FairSpec == Spec /\ Fairness

-----------------------------------------------------------------------------
(* Properties.                                                               *)

\* The type of every variable.
TypeOK ==
    /\ doc \in [Jobs -> {"none", "pending", "completed"}]
    /\ upload \in [Jobs -> {"new", "inserted", "accepted", "refused"}]
    /\ ready \subseteq Jobs
    /\ unacked \subseteq Deliveries
    /\ nextTag \in Nat
    /\ wire \in Seq(Frames)
    /\ brokerOpen \in BOOLEAN /\ clientOpen \in BOOLEAN
    /\ inbox \subseteq Deliveries
    /\ step \in {"idle", "transcode", "update", "nack", "ack", "stopped"}
    /\ cur \in Deliveries \cup {NoDelivery}
    /\ step \in {"transcode", "update", "nack", "ack"} => cur \in Deliveries
    /\ alive \in BOOLEAN /\ consuming \in BOOLEAN
    /\ discarded \subseteq Jobs
    /\ crashes \in Nat /\ brokerRestarts \in Nat

\* No job that was answered 200 is forgotten: until its document says
\* completed, its message is in the queue, with the consumer, or on its way,
\* unless a fault of the channel, the program or the broker threw it away.
JobConserved ==
    \A j \in Jobs : upload[j] = "accepted" /\ doc[j] # "completed" =>
        j \in ready \cup JobsOf(unacked) \cup Published(wire) \cup discarded

\* Was the delivery with tag n given back by a frame before the m-th?
NackedBefore(n, m) == \E k \in 1..Len(wire) : k < m /\ wire[k] = NackFrame(n)

\* Ack(true) settles every delivery up to its tag.  When the broker comes to
\* an ack, all of those were completed, or given back by an earlier nack.
AckCoversProcessed ==
    \A m \in 1..Len(wire), d \in unacked :
        wire[m].kind = "ack" /\ d.tag <= wire[m].tag =>
            doc[d.job] = "completed" \/ NackedBefore(d.tag, m)

\* The consumer is at work on the delivery cur.
Working == step \in {"transcode", "update", "nack", "ack"}

\* How the two ends of the channel and the program hang together.
ChannelStates ==
    /\ ~clientOpen => ~brokerOpen /\ inbox = {}
    /\ ~brokerOpen => unacked = {}
    /\ ~alive => ~clientOpen /\ wire = <<>> /\ step = "idle"

\* Tags are used once, and the consumer works through them in order.
TagOrder ==
    /\ \A d \in unacked \cup inbox : d.tag < nextTag
    /\ \A d, e \in unacked \cup inbox : d.tag = e.tag => d = e
    /\ Working => /\ cur.tag < nextTag
                  /\ \A d \in inbox : cur.tag < d.tag
                  /\ \A d \in unacked : d.tag = cur.tag => d = cur
    /\ \A m \in 1..Len(wire) : wire[m].kind \in {"nack", "ack"} => wire[m].tag < nextTag

\* An unsettled delivery is still to be worked on, or completed, or given
\* back by a nack on the wire.
Accounted ==
    \A d \in unacked :
        \/ d \in inbox
        \/ d = cur /\ step \in {"transcode", "update", "nack"}
        \/ doc[d.job] = "completed"
        \/ NackedBefore(d.tag, Len(wire) + 1)

\* Every message is that of a job that was answered 200.
MessagesHaveUploads ==
    \A j \in ready \cup JobsOf(unacked) \cup Published(wire) : upload[j] = "accepted"

\* The inductive strengthening of JobConserved.
PipelineInv ==
    /\ ChannelStates /\ TagOrder /\ MessagesHaveUploads
    /\ Accounted /\ AckCoversProcessed /\ JobConserved

\* Only a failed job, or a broker restart, makes the broker close a channel
\* that was set up under a running program: completed jobs settle each tag once.
ChannelSurvives ==
    alive /\ consuming /\ ~JobsMayFail /\ brokerRestarts = 0 => brokerOpen

\* When StartVodTranscoding does not fail, and the last start of the program gets
\* its consumer, every job answered 200 is completed in the end, crashes and
\* restarts included, unless its message was thrown away.  A program whose set-up
\* failed serves uploads and consumes nothing until it is started again.
AcceptedJobCompletes ==
    []<>consuming =>
        \A j \in Jobs :
            upload[j] = "accepted" ~> (doc[j] = "completed" \/ j \in discarded)
=============================================================================
