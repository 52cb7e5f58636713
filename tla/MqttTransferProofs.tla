------------------------- MODULE MqttTransferProofs -------------------------
(***************************************************************************)
(* Proofs about MqttTransfer: sender, broker and receiver together, for    *)
(* every list of files and any number of lost connections.                 *)
(***************************************************************************)
EXTENDS MqttTransfer, MqttSenderProofs, MqttReceiverProofs

-----------------------------------------------------------------------------
(* What is on its way.                                                     *)

(* The message with id mid of run j: the metadata is the first, the chunks *)
(* follow.                                                                 *)
BodyOf(j, mid) ==
    IF mid = 1 THEN Metadata(JobFile(j), JobQos(j))
    ELSE ChunkMessage(Content[JobFile(j)][mid - 1])

Genuine(p) ==
    /\ p.mid <= Len(Content[JobFile(p.job)]) + 1
    /\ p.body = BodyOf(p.job, p.mid)

(* Every packet carries its run's message, wherever it is; what waits for  *)
(* the receiver was taken by the broker.                                   *)
Carried ==
    /\ \A i \in 1 .. Len(wire) : Genuine(wire[i])
    /\ \A i \in 1 .. Len(out_messages) : Genuine(out_messages[i])
    /\ \A i \in 1 .. Len(inbox) :
          /\ Genuine(inbox[i])
          /\ <<inbox[i].job, inbox[i].mid>> \in accepted

(* Runs come one after the other.                                          *)
InOrder ==
    /\ \A p \in accepted :
          /\ p[1] <= job
          /\ \A i \in 1 .. Len(wire) : p[1] <= wire[i].job
    /\ \A i, k \in 1 .. Len(inbox) : i <= k => inbox[i].job <= inbox[k].job

TransferTyped ==
    /\ subs \subseteq Topics
    /\ inbox \in Seq(PacketType)
    /\ faults \in Nat

(* The part of the invariant that does not depend on the receiver's being  *)
(* left alone.                                                             *)
Flow == SenderInv /\ IInv /\ TransferTyped /\ Carried /\ InOrder

-----------------------------------------------------------------------------
(* A step of the composition is a step of the sender, or none of its.      *)
LEMMA SenderKeeps == SenderInv /\ [TransferNext]_tvars => SenderInv'
<1> SUFFICES ASSUME SenderInv, [TransferNext]_tvars PROVE SenderInv'
    OBVIOUS
<1>1. [SenderNext]_svars
    BY DEF TransferNext, SenderMoves, BrokerRoutes, SubscribeCtrl, SubscribeData,
       Deliver, ReceiverDisconnect, ReceiverKill, ReceiverRestart, tvars,
       SenderNext, NetworkStep
<1> QED
    BY <1>1, NextSenderInv

(* The packets of a queue.                                                 *)
LEMMA PacketFacts ==
    ASSUME NEW q \in Seq(PacketType)
    PROVE  /\ Len(q) \in Nat
           /\ \A i \in 1 .. Len(q) :
                 /\ q[i] \in PacketType
                 /\ q[i].job \in Jobs /\ q[i].job \in Nat
                 /\ q[i].mid \in Nat \ {0}
                 /\ q[i].body \in Message
<1>1. Len(q) \in Nat /\ \A i \in 1 .. Len(q) : q[i] \in PacketType
    BY LenProperties, ElementOfSeq
<1>2. \A p \in PacketType : /\ p.job \in Jobs /\ p.job \in Nat
                            /\ p.mid \in Nat \ {0} /\ p.body \in Message
    BY JobsNumbered DEF PacketType
<1> QED
    BY <1>1, <1>2

(* A queue without its head.                                               *)
LEMMA TailFacts ==
    ASSUME NEW q \in Seq(PacketType), q # <<>>
    PROVE  /\ Len(q) \in Nat \ {0} /\ 1 \in 1 .. Len(q)
           /\ Head(q) = q[1] /\ Head(q) \in PacketType
           /\ Tail(q) \in Seq(PacketType) /\ Len(Tail(q)) = Len(q) - 1
           /\ \A i \in 1 .. Len(Tail(q)) :
                 Tail(q)[i] = q[i + 1] /\ i + 1 \in 1 .. Len(q)
<1>1. Len(q) \in Nat \ {0}
    BY LenProperties, EmptySeq
<1> QED
    BY <1>1, HeadTailProperties, PacketFacts

(* The receiver's messages are messages of the protocol, so its invariant  *)
(* is kept whatever the broker has in its queue.                           *)
LEMMA ReceiverKeeps ==
    IInv /\ TransferTyped /\ [TransferNext]_tvars => IInv'
<1> SUFFICES ASSUME IInv, TransferTyped, [TransferNext]_tvars PROVE IInv'
    OBVIOUS
<1>1. CASE Deliver
  <2>1. Head(inbox) \in PacketType /\ OnMessage(Head(inbox).body)
      BY <1>1, TailFacts DEF TransferTyped, Deliver
  <2>2. Head(inbox).body \in Message
      BY <2>1 DEF PacketType
  <2> QED
      BY <2>1, <2>2, MetadataStep, OpenFailsStep, ChunkStep, LastChunkStep,
         StrayStep DEF OnMessage
<1>2. CASE ReceiverKill
    BY <1>2, KillStep DEF ReceiverKill
<1>3. CASE ReceiverRestart
    BY <1>3, RestartStep DEF ReceiverRestart
<1>4. CASE UNCHANGED vars
    BY <1>4, NextIInv
<1> QED
    BY <1>1, <1>2, <1>3, <1>4
    DEF TransferNext, SenderMoves, BrokerRoutes, SubscribeCtrl, SubscribeData,
        ReceiverDisconnect, tvars

-----------------------------------------------------------------------------
(* What a step of the sender adds to its queues: at most the message that  *)
(* is next in its run.                                                     *)
Fresh(p) ==
    /\ Running
    /\ job \in Jobs /\ p.job = job /\ p.mid = last_mid + 1
    /\ Genuine(p)

LEMMA PublishIsGenuine ==
    ASSUME SenderInv, Running, job \in Jobs, NEW body, Publish(body),
           body = BodyOf(job, last_mid + 1),
           last_mid <= Len(Content[JobFile(job)])
    PROVE  /\ \A i \in 1 .. Len(out_messages') :
                 \/ \E k \in 1 .. Len(out_messages) : out_messages'[i] = out_messages[k]
                 \/ Fresh(out_messages'[i])
           /\ \A i \in 1 .. Len(wire') :
                 \/ \E k \in 1 .. Len(wire) : wire'[i] = wire[k]
                 \/ Fresh(wire'[i])
<1> DEFINE packet == Packet(job, last_mid + 1, body)
<1>1. /\ out_messages' = Append(out_messages, packet)
      /\ wire' = IF connected THEN Append(wire, packet) ELSE wire
    BY DEF Publish
<1>2. Fresh(packet)
  <2>1. packet.job = job /\ packet.mid = last_mid + 1 /\ packet.body = body
      BY DEF Packet
  <2>2. last_mid \in Nat /\ Len(Content[JobFile(job)]) \in Nat
      BY JobsNumbered, ContentAssumption, LenProperties DEF SenderInv, SenderTyped
  <2> HIDE DEF packet
  <2> QED
      BY <2>1, <2>2 DEF Fresh, Genuine
<1> HIDE DEF packet
<1>3. ASSUME NEW q \in Seq(PacketType)
      PROVE  \A i \in 1 .. Len(Append(q, packet)) :
                 \/ \E k \in 1 .. Len(q) : Append(q, packet)[i] = q[k]
                 \/ Fresh(Append(q, packet)[i])
  <2>1. /\ Len(Append(q, packet)) = Len(q) + 1 /\ Len(q) \in Nat
        /\ \A i \in 1 .. Len(q) : Append(q, packet)[i] = q[i]
        /\ Append(q, packet)[Len(q) + 1] = packet
      BY LenProperties
  <2> SUFFICES ASSUME NEW i \in 1 .. Len(Append(q, packet))
               PROVE  \/ \E k \in 1 .. Len(q) : Append(q, packet)[i] = q[k]
                      \/ Fresh(Append(q, packet)[i])
      OBVIOUS
  <2>2. CASE i = Len(q) + 1
      BY <1>2, <2>1, <2>2
  <2>3. CASE i \in 1 .. Len(q)
      BY <2>1, <2>3
  <2> QED
      BY <2>1, <2>2, <2>3
<1>4. wire \in Seq(PacketType) /\ out_messages \in Seq(PacketType)
    BY DEF SenderInv, SenderTyped
<1> QED
    BY <1>1, <1>3, <1>4

(* A step of the sender takes nothing from the broker, starts no run twice *)
(* and puts nothing on the wire that is not in paho's queue.               *)
LEMMA SenderMovesFacts ==
    ASSUME SenderInv, MainStep \/ OnPublish \/ Disconnect \/ OpenSocket \/ ConnAck
    PROVE  /\ accepted' = accepted
           /\ job \in Nat /\ job' \in Nat /\ job <= job'
           /\ overtaken \subseteq overtaken'
           /\ \A i \in 1 .. Len(out_messages') :
                 \/ \E k \in 1 .. Len(out_messages) : out_messages'[i] = out_messages[k]
                 \/ Fresh(out_messages'[i])
           /\ \A i \in 1 .. Len(wire') :
                 \/ \E k \in 1 .. Len(wire) : wire'[i] = wire[k]
                 \/ \E k \in 1 .. Len(out_messages) : wire'[i] = out_messages[k]
                 \/ Fresh(wire'[i])
<1> USE DEF globals, main, client, network, past
<1>1. /\ job \in Nat /\ wire \in Seq(PacketType) /\ out_messages \in Seq(PacketType)
      /\ Len(wire) \in Nat /\ Len(out_messages) \in Nat /\ last_mid \in Nat
      /\ chunk_num \in Nat
    BY QueuesTyped DEF SenderInv, SenderTyped
<1>2. Len(<<>>) = 0
    BY EmptySeq
<1>3. CASE Launch \/ LaunchMissing \/ LaunchFails
    BY <1>1, <1>2, <1>3 DEF Launch, LaunchMissing, LaunchFails, make_client
<1>4. CASE AssignMid \/ AckSeen \/ AckTimeout \/ PublishWaited \/ PublishTimeout
    BY <1>1, <1>4 DEF AssignMid, AckSeen, AckTimeout, PublishWaited, PublishTimeout
<1>5. CASE PublishChunkFails
    BY <1>1, <1>2, <1>5 DEF PublishChunkFails
<1>6. CASE PublishMetadata
  <2>1. job \in Jobs /\ last_mid = 0 /\ Len(Content[JobFile(job)]) \in Nat
      BY <1>6, JobsNumbered, ContentAssumption, LenProperties
      DEF PublishMetadata, SenderInv, Phases, Running
  <2>2. Metadata(filename, qos_level) = BodyOf(job, last_mid + 1)
      BY <2>1 DEF BodyOf, filename, qos_level
  <2>3. /\ accepted' = accepted /\ job' = job /\ Running
        /\ overtaken \subseteq overtaken'
      BY <1>6 DEF PublishMetadata, Publish, Running
  <2> QED
      BY <1>1, <1>6, <2>1, <2>2, <2>3, PublishIsGenuine DEF PublishMetadata
<1>7. CASE PublishChunk
  <2>1. job \in Jobs /\ last_mid = chunk_num + 1 /\ chunk_num < total_chunks
      BY <1>7 DEF PublishChunk, SenderInv, Phases, Running
  <2>2. total_chunks = Len(Content[JobFile(job)]) /\ total_chunks \in Nat
      BY <2>1, JobsNumbered, ContentAssumption, LenProperties DEF total_chunks, filename
  <2>3. last_mid <= Len(Content[JobFile(job)])
      BY <1>1, <2>1, <2>2
  <2>4. ChunkMessage(Content[filename][chunk_num + 1]) = BodyOf(job, last_mid + 1)
      BY <1>1, <2>1 DEF BodyOf, filename
  <2>5. /\ accepted' = accepted /\ job' = job /\ Running
        /\ overtaken \subseteq overtaken'
      BY <1>7 DEF PublishChunk, Publish, Running
  <2> QED
      BY <1>1, <1>7, <2>1, <2>3, <2>4, <2>5, PublishIsGenuine DEF PublishChunk
<1>8. CASE Finish
  <2>1. /\ Len(EarlierRuns) <= Len(wire) /\ EarlierRuns \in Seq(PacketType)
        /\ \A i \in 1 .. Len(EarlierRuns) : EarlierRuns[i] = wire[i]
      BY EarlierRunsFacts
  <2>2. \A i \in 1 .. Len(EarlierRuns) : i \in 1 .. Len(wire)
      BY <1>1, <2>1, LenProperties
  <2> QED
      BY <1>1, <1>2, <1>8, <2>1, <2>2 DEF Finish
<1>9. CASE OnPublish
  <2> DEFINE mid == Head(acks)
  <2>1. /\ out_messages' = Without(out_messages, mid) /\ wire' = wire
        /\ accepted' = accepted /\ job' = job /\ acks # <<>> /\ Running
        /\ overtaken' = overtaken
      BY <1>9 DEF OnPublish, Acknowledge
  <2>2. mid = acks[1] /\ 1 \in 1 .. Len(acks)
      BY <2>1, HeadTailProperties, EmptySeq, LenProperties DEF SenderInv, SenderTyped
  <2>3. <<job, mid>> \in Granted
      BY <2>2 DEF SenderInv, Owned, Granted
  <2> HIDE DEF mid
  <2>4. \A i \in 1 .. Len(Without(out_messages, mid)) :
            \E k \in 1 .. Len(out_messages) :
                Without(out_messages, mid)[i] = out_messages[k]
    <3>1. /\ \A i \in 1 .. Len(out_messages) : out_messages[i].job = job
          /\ Backed(out_messages, Granted) /\ Rising(out_messages)
        BY DEF SenderInv, Owned
    <3> QED
        BY <1>1, <2>3, <3>1, WithoutKeeps
  <2> QED
      BY <1>1, <2>1, <2>4
<1>10. CASE Disconnect
  <2>1. /\ Len(EarlierRuns) <= Len(wire) /\ EarlierRuns \in Seq(PacketType)
        /\ \A i \in 1 .. Len(EarlierRuns) : EarlierRuns[i] = wire[i]
      BY EarlierRunsFacts
  <2>2. \A i \in 1 .. Len(EarlierRuns) : i \in 1 .. Len(wire)
      BY <1>1, <2>1, LenProperties
  <2> QED
      BY <1>1, <1>10, <2>1, <2>2 DEF Disconnect
<1>11. CASE OpenSocket
    BY <1>1, <1>11 DEF OpenSocket
<1>12. CASE ConnAck
  <2> DEFINE waiting == SubSeq(out_messages, 1, unsent)
  <2>1. /\ wire' = wire \o waiting /\ out_messages' = out_messages
        /\ accepted' = accepted /\ job' = job /\ overtaken' = overtaken
      BY <1>12 DEF ConnAck
  <2>4. /\ waiting \in Seq(PacketType) /\ Len(waiting) = unsent
        /\ unsent \in 0 .. Len(out_messages)
        /\ \A i \in 1 .. unsent : waiting[i] = out_messages[i] /\ i \in 1 .. Len(out_messages)
    <3>1. /\ unsent \in 0 .. Len(out_messages)
          /\ \A i \in 1 .. Len(out_messages) : out_messages[i] \in PacketType
        BY <1>1, PacketFacts DEF SenderInv, SenderTyped
    <3> QED
        BY <1>1, <3>1, SubSeqProperties
  <2> HIDE DEF waiting
  <2>2. /\ Len(wire') = Len(wire) + Len(waiting)
        /\ \A i \in 1 .. Len(wire') :
             wire'[i] = IF i <= Len(wire) THEN wire[i] ELSE waiting[i - Len(wire)]
    <3>1. wire \in Seq(PacketType) /\ waiting \in Seq(PacketType)
        BY <1>1, <2>4
    <3>2. /\ Len(wire \o waiting) = Len(wire) + Len(waiting)
          /\ \A i \in 1 .. Len(wire) + Len(waiting) :
               (wire \o waiting)[i] = IF i <= Len(wire) THEN wire[i]
                                      ELSE waiting[i - Len(wire)]
        BY <3>1, ConcatProperties
    <3> QED
        BY <2>1, <3>2
  <2>3. ASSUME NEW i \in 1 .. Len(wire')
        PROVE  \/ \E k \in 1 .. Len(wire) : wire'[i] = wire[k]
               \/ \E k \in 1 .. Len(out_messages) : wire'[i] = out_messages[k]
    <3>1. CASE i <= Len(wire)
        BY <1>1, <2>2, <3>1
    <3>2. CASE ~(i <= Len(wire))
      <4>1. i - Len(wire) \in 1 .. unsent
          BY <1>1, <2>2, <2>4, <3>2
      <4> QED
          BY <2>2, <2>4, <3>2, <4>1
    <3> QED
        BY <3>1, <3>2
  <2>5. \A i \in 1 .. Len(out_messages') : \E k \in 1 .. Len(out_messages) :
            out_messages'[i] = out_messages[k]
      BY <2>1
  <2>6. job <= job'
      BY <1>1, <2>1
  <2> QED
      BY <1>1, <2>1, <2>3, <2>5, <2>6
<1> QED
    BY <1>3, <1>4, <1>5, <1>6, <1>7, <1>8, <1>9, <1>10, <1>11, <1>12 DEF MainStep

-----------------------------------------------------------------------------
(* What is on its way stays in order and genuine: first the sender's steps. *)
LEMMA SenderMovesFlow ==
    ASSUME Flow, SenderMoves
    PROVE  TransferTyped' /\ Carried' /\ InOrder'
<1> USE DEF Flow
<1>1. /\ MainStep \/ OnPublish \/ Disconnect \/ OpenSocket \/ ConnAck
      /\ subs' = subs /\ inbox' = inbox /\ faults' = faults
    BY DEF SenderMoves
<1>2. /\ accepted' = accepted /\ job \in Nat /\ job' \in Nat /\ job <= job'
      /\ \A i \in 1 .. Len(out_messages') :
            \/ \E k \in 1 .. Len(out_messages) : out_messages'[i] = out_messages[k]
            \/ Fresh(out_messages'[i])
      /\ \A i \in 1 .. Len(wire') :
            \/ \E k \in 1 .. Len(wire) : wire'[i] = wire[k]
            \/ \E k \in 1 .. Len(out_messages) : wire'[i] = out_messages[k]
            \/ Fresh(wire'[i])
    BY <1>1, SenderMovesFacts
<1>3. TransferTyped'
    BY <1>1 DEF TransferTyped
<1>4. Carried'
    BY <1>1, <1>2 DEF Carried, Fresh
<1>5. \A p \in accepted : p[1] \in Nat
  <2>1. \A p \in (Jobs \X (Nat \ {0})) : p[1] \in Jobs
      OBVIOUS
  <2> QED
      BY <2>1, JobsNumbered DEF SenderInv, SenderTyped
<1>6. InOrder'
  <2>1. \A i \in 1 .. Len(out_messages) : out_messages[i].job = job
      BY DEF SenderInv, Owned
  <2>2. ASSUME NEW p \in accepted', NEW i \in 1 .. Len(wire')
        PROVE  p[1] <= wire'[i].job
      BY <1>2, <2>1 DEF InOrder, Fresh
  <2>3. \A p \in accepted' : p[1] <= job'
      BY <1>2, <1>5 DEF InOrder
  <2> QED
      BY <1>1, <2>2, <2>3 DEF InOrder
<1> QED
    BY <1>3, <1>4, <1>6

(* The packet the broker takes.                                            *)
LEMMA BrokerAcceptFacts ==
    ASSUME SenderInv, BrokerAccept
    PROVE  /\ wire \in Seq(PacketType) /\ wire # <<>> /\ wire' = Tail(wire)
           /\ Len(wire) \in Nat \ {0} /\ 1 \in 1 .. Len(wire)
           /\ Head(wire) = wire[1] /\ Head(wire) \in PacketType
           /\ Len(wire') = Len(wire) - 1
           /\ \A i \in 1 .. Len(wire') : wire'[i] = wire[i + 1] /\ i + 1 \in 1 .. Len(wire)
           /\ accepted' = accepted \cup {<<Head(wire).job, Head(wire).mid>>}
           /\ UNCHANGED <<job, pc, last_mid, chunk_num, out_messages, published,
                          connected, unsent, overtaken>>
           /\ Head(wire).job \in overtaken \/
                 \A n \in 1 .. Head(wire).mid - 1 : <<Head(wire).job, n>> \in accepted
<1>1. wire \in Seq(PacketType) /\ wire # <<>> /\ wire' = Tail(wire)
    BY DEF SenderInv, SenderTyped, BrokerAccept
<1>2. /\ accepted' = accepted \cup {<<Head(wire).job, Head(wire).mid>>}
      /\ UNCHANGED <<job, pc, last_mid, chunk_num, out_messages, published,
                     connected, unsent, overtaken>>
    BY DEF BrokerAccept, main, globals, client, past
<1>3. /\ Len(wire) \in Nat \ {0} /\ 1 \in 1 .. Len(wire)
      /\ Head(wire) = wire[1] /\ Head(wire) \in PacketType
      /\ Len(wire') = Len(wire) - 1
      /\ \A i \in 1 .. Len(wire') : wire'[i] = wire[i + 1] /\ i + 1 \in 1 .. Len(wire)
    BY <1>1, TailFacts
<1>4. \A j, n : ~InFront(wire, 1, j, n)
    BY DEF InFront
<1>5. \/ wire[1].job \in overtaken
      \/ \A n \in 1 .. wire[1].mid - 1 : <<wire[1].job, n>> \in accepted
    BY <1>3, <1>4 DEF SenderInv, Queued, Backed, Granted
<1> QED
    BY <1>1, <1>2, <1>3, <1>5

(* The receiver's queue when a packet joins it.                            *)
LEMMA InboxAppend ==
    ASSUME NEW q \in Seq(PacketType), NEW p \in PacketType
    PROVE  /\ Append(q, p) \in Seq(PacketType)
           /\ Len(q) \in Nat /\ Len(Append(q, p)) = Len(q) + 1
           /\ \A i \in 1 .. Len(q) : Append(q, p)[i] = q[i]
           /\ Append(q, p)[Len(q) + 1] = p
  BY LenProperties, AppendProperties

(* The broker's step.                                                      *)
LEMMA BrokerRoutesFlow ==
    ASSUME Flow, BrokerRoutes
    PROVE  TransferTyped' /\ Carried' /\ InOrder'
<1> USE DEF Flow
<1> DEFINE p == Head(wire)
<1>1. BrokerAccept /\ subs' = subs /\ faults' = faults
    BY DEF BrokerRoutes
<1>2. /\ p = wire[1] /\ p \in PacketType /\ 1 \in 1 .. Len(wire)
      /\ Len(wire) \in Nat \ {0} /\ Len(wire') = Len(wire) - 1
      /\ \A i \in 1 .. Len(wire') : wire'[i] = wire[i + 1] /\ i + 1 \in 1 .. Len(wire)
      /\ accepted' = accepted \cup {<<p.job, p.mid>>}
      /\ job' = job /\ out_messages' = out_messages
    BY <1>1, BrokerAcceptFacts
<1>3. inbox' = inbox \/ inbox' = Append(inbox, p)
    BY DEF BrokerRoutes
<1>4. p.job \in Nat /\ p.mid \in Nat \ {0} /\ p.body \in Message /\ Genuine(p)
    BY <1>2, JobsNumbered DEF PacketType, Carried
<1> HIDE DEF p
<1>5. /\ Len(inbox) \in Nat
      /\ \A i \in 1 .. Len(inbox) : inbox[i].job \in Nat
    BY PacketFacts DEF TransferTyped
<1>6. \A i \in 1 .. Len(inbox) : inbox[i].job <= p.job
  <2>1. \A i \in 1 .. Len(inbox) : <<inbox[i].job, inbox[i].mid>> \in accepted
      BY DEF Carried
  <2> QED
      BY <1>2, <2>1 DEF InOrder
<1>7. TransferTyped'
    BY <1>1, <1>2, <1>3, InboxAppend DEF TransferTyped
<1>8. /\ \A i \in 1 .. Len(inbox') : \/ i \in 1 .. Len(inbox) /\ inbox'[i] = inbox[i]
                                     \/ i = Len(inbox) + 1 /\ inbox'[i] = p
    BY <1>2, <1>3, <1>5, InboxAppend DEF TransferTyped
<1>9. Carried'
  <2>1. \A i \in 1 .. Len(wire') : Genuine(wire'[i])
      BY <1>2 DEF Carried
  <2>2. \A i \in 1 .. Len(inbox') :
            Genuine(inbox'[i]) /\ <<inbox'[i].job, inbox'[i].mid>> \in accepted'
      BY <1>2, <1>4, <1>8 DEF Carried
  <2> QED
      BY <1>2, <2>1, <2>2 DEF Carried
<1>10. InOrder'
  <2>1. ASSUME NEW i \in 1 .. Len(inbox'), NEW k \in 1 .. Len(inbox'), i <= k
        PROVE  inbox'[i].job <= inbox'[k].job
      BY <1>4, <1>5, <1>6, <1>8, <2>1 DEF InOrder
  <2>2. \A i \in 1 .. Len(wire') : p.job <= wire'[i].job
    <3>1. \A i \in 1 .. Len(wire') : 1 <= i + 1
        BY <1>2
    <3> QED
        BY <1>2, <3>1 DEF SenderInv, Queued
  <2>3. p.job <= job
      BY <1>2 DEF SenderInv, Queued
  <2>4. \A i \in 1 .. Len(wire') : \A a \in accepted : a[1] <= wire'[i].job
      BY <1>2 DEF InOrder
  <2> QED
      BY <1>2, <2>1, <2>2, <2>3, <2>4 DEF InOrder
<1> QED
    BY <1>7, <1>9, <1>10

(* The receiver's queue when its head is delivered.                        *)
LEMMA InboxTail ==
    ASSUME Flow, Deliver
    PROVE  /\ svars' = svars /\ faults' = faults
           /\ inbox # <<>> /\ OnMessage(Head(inbox).body)
           /\ Head(inbox).body \in Message /\ Head(inbox).body = inbox[1].body
           /\ Len(inbox) \in Nat \ {0} /\ 1 \in 1 .. Len(inbox)
           /\ inbox[1].job \in Jobs /\ inbox[1].mid \in Nat \ {0}
           /\ Genuine(inbox[1])
           /\ inbox' \in Seq(PacketType)
           /\ alive' => /\ inbox' = Tail(inbox) /\ subs' = subs
                        /\ Len(inbox') = Len(inbox) - 1
                        /\ \A i \in 1 .. Len(inbox') :
                              inbox'[i] = inbox[i + 1] /\ i + 1 \in 1 .. Len(inbox)
           /\ ~alive' => inbox' = <<>> /\ subs' = {}
<1>1. inbox \in Seq(PacketType) /\ inbox # <<>>
    BY DEF Flow, TransferTyped, Deliver
<1>2. /\ Len(inbox) \in Nat \ {0} /\ 1 \in 1 .. Len(inbox)
      /\ Head(inbox) = inbox[1] /\ Head(inbox) \in PacketType
      /\ Tail(inbox) \in Seq(PacketType) /\ Len(Tail(inbox)) = Len(inbox) - 1
      /\ \A i \in 1 .. Len(Tail(inbox)) :
            Tail(inbox)[i] = inbox[i + 1] /\ i + 1 \in 1 .. Len(inbox)
    BY <1>1, TailFacts
<1>3. /\ svars' = svars /\ faults' = faults /\ OnMessage(Head(inbox).body)
      /\ alive' => inbox' = Tail(inbox) /\ subs' = subs
      /\ ~alive' => inbox' = <<>> /\ subs' = {}
    BY DEF Deliver, SessionEnds
<1>4. Genuine(inbox[1])
    BY <1>2 DEF Flow, Carried
<1>5. /\ inbox[1].job \in Jobs /\ inbox[1].mid \in Nat \ {0}
      /\ Head(inbox).body \in Message
    BY <1>2 DEF PacketType
<1>6. inbox' \in Seq(PacketType)
    BY <1>2, <1>3, EmptySeq
<1> QED
    BY <1>1, <1>2, <1>3, <1>4, <1>5, <1>6

LEMMA DeliverFlow ==
    ASSUME Flow, Deliver
    PROVE  TransferTyped' /\ Carried' /\ InOrder'
<1> USE DEF Flow
<1>1. /\ svars' = svars /\ faults' = faults
      /\ Len(inbox) \in Nat \ {0} /\ inbox' \in Seq(PacketType)
      /\ alive' => /\ subs' = subs /\ Len(inbox') = Len(inbox) - 1
                   /\ \A i \in 1 .. Len(inbox') :
                         inbox'[i] = inbox[i + 1] /\ i + 1 \in 1 .. Len(inbox)
      /\ ~alive' => inbox' = <<>> /\ subs' = {}
    BY InboxTail
<1>2. wire' = wire /\ out_messages' = out_messages /\ accepted' = accepted /\ job' = job
    BY <1>1 DEF svars, main, client, network, past
<1>3. TransferTyped'
    BY <1>1 DEF TransferTyped
<1>4. Carried' /\ InOrder'
  <2>1. CASE alive'
    <3>1. \A i, k \in 1 .. Len(inbox') : i <= k => i + 1 <= k + 1
        BY <1>1, <2>1
    <3> QED
        BY <1>1, <1>2, <2>1, <3>1 DEF Carried, InOrder
  <2>2. CASE ~alive'
      BY <1>1, <1>2, <2>2, EmptySeq DEF Carried, InOrder
  <2> QED
      BY <2>1, <2>2
<1> QED
    BY <1>3, <1>4

(* Every step of the composition keeps what is on its way in order.        *)
LEMMA FlowKeeps == Flow /\ [TransferNext]_tvars => Flow'
<1> SUFFICES ASSUME Flow, [TransferNext]_tvars PROVE Flow'
    OBVIOUS
<1>1. SenderInv' /\ IInv'
    BY SenderKeeps, ReceiverKeeps DEF Flow
<1>2. TransferTyped' /\ Carried' /\ InOrder'
  <2>1. CASE SenderMoves
      BY <2>1, SenderMovesFlow
  <2>2. CASE BrokerRoutes
      BY <2>2, BrokerRoutesFlow
  <2>3. CASE Deliver
      BY <2>3, DeliverFlow
  <2>4. CASE /\ svars' = svars /\ inbox' = inbox /\ faults' = faults
             /\ subs' \subseteq Topics
      BY <2>4 DEF Flow, TransferTyped, Carried, InOrder, svars, main, client, network, past
  <2>5. CASE ReceiverDisconnect \/ ReceiverKill
    <3>1. /\ svars' = svars /\ inbox' = <<>> /\ subs' = {} /\ faults' = faults + 1
        BY <2>5 DEF ReceiverDisconnect, ReceiverKill, SessionEnds
    <3> QED
        BY <3>1, EmptySeq
        DEF Flow, TransferTyped, Carried, InOrder, svars, main, client, network, past
  <2>6. CASE SubscribeCtrl \/ SubscribeData
    <3>1. /\ svars' = svars /\ inbox' = inbox /\ faults' = faults
          /\ subs' \subseteq Topics
        BY <2>6 DEF SubscribeCtrl, SubscribeData, Topics, Flow, TransferTyped
    <3> QED
        BY <2>4, <3>1
  <2>7. CASE ReceiverRestart \/ UNCHANGED tvars
    <3>1. /\ svars' = svars /\ inbox' = inbox /\ faults' = faults /\ subs' = subs
        BY <2>7 DEF ReceiverRestart, session, tvars
    <3> QED
        BY <2>4, <3>1 DEF Flow, TransferTyped
  <2> QED
      BY <2>1, <2>2, <2>3, <2>5, <2>6, <2>7 DEF TransferNext
<1> QED
    BY <1>1, <1>2 DEF Flow

LEMMA InitFlow == TransferInit => Flow
<1> SUFFICES ASSUME TransferInit PROVE Flow
    OBVIOUS
<1>1. SenderInv /\ IInv
    BY InitSenderInv, InitIInv DEF TransferInit
<1>2. Len(<<>>) = 0 /\ <<>> \in Seq(PacketType)
    BY EmptySeq
<1>3. /\ wire = <<>> /\ out_messages = <<>> /\ inbox = <<>> /\ accepted = {}
      /\ subs = {} /\ faults = 0
    BY DEF TransferInit, SenderInit
<1> QED
    BY <1>1, <1>2, <1>3 DEF Flow, TransferTyped, Carried, InOrder

-----------------------------------------------------------------------------
(* What a delivered packet does to the receiver, one formula per outcome:  *)
(* metadata opens its file or ends the process; a chunk is written, or     *)
(* completes the transfer, or finds no file open.                          *)
Opens(j) ==
    /\ alive'
    /\ current_file_handle' = JobFile(j) /\ current_qos' = JobQos(j)
    /\ received_chunks' = 0 /\ Output' = <<>>
    /\ rows' = rows

Dies(j) ==
    /\ ~alive' /\ current_file_handle' = None
    /\ JobFile(j) \in Unwritable
    /\ rows' = rows

Takes(c) ==
    /\ alive' /\ current_file_handle # None
    /\ UNCHANGED <<current_file_handle, current_qos, rows>>
    /\ received_chunks' = received_chunks + 1
    /\ received_chunks + 1 # Len(Content[current_file_handle])
    /\ Output' = Append(Output, c)

Completes(c) ==
    /\ alive' /\ current_file_handle # None /\ current_file_handle' = None
    /\ received_chunks + 1 = Len(Content[current_file_handle])
    /\ \E row \in Row :
          /\ rows' = Append(rows, row)
          /\ row.file = current_file_handle /\ row.qos = current_qos
          /\ row.integrity_ok => Append(Output, c) = Content[current_file_handle]
          /\ Append(Output, c) = Content[current_file_handle] /\ ~Small(c) =>
                row.integrity_ok

Ignores ==
    /\ alive' /\ current_file_handle = None /\ current_file_handle' = None
    /\ rows' = rows

(* The chunk in a packet.                                                  *)
ChunkOf(p) == Content[JobFile(p.job)][p.mid - 1]

LEMMA GenuineBody ==
    ASSUME NEW p \in PacketType, Genuine(p)
    PROVE  /\ p.mid = 1 => p.body = Metadata(JobFile(p.job), JobQos(p.job))
           /\ p.mid # 1 => p.body = ChunkMessage(ChunkOf(p))
  BY DEF Genuine, BodyOf, ChunkOf

LEMMA OpenStep ==
    ASSUME IInv, NEW j \in Jobs, NEW m \in Message, m = Metadata(JobFile(j), JobQos(j)),
           OnMetadata(m)
    PROVE  Opens(j)
<1>1. JobFile(j) \in File
    BY JobsNumbered
<1>2. /\ m.filename = JobFile(j) /\ m.qos = JobQos(j)
    BY DEF Metadata
<1>3. /\ disk' = [DiskAfterClose EXCEPT ![JobFile(j)] = <<>>]
      /\ buffer' = <<>> /\ current_file_handle' = JobFile(j)
      /\ current_qos' = JobQos(j) /\ received_chunks' = 0
      /\ alive' = alive /\ alive /\ rows' = rows
    BY <1>2 DEF OnMetadata, TakeMetadata, Describe, ResetCounters
<1>4. disk'[JobFile(j)] = <<>>
    BY <1>1, <1>3, CloseTyped DEF IInv
<1>5. Output' = <<>>
    BY <1>1, <1>3, <1>4, NoneAssumption DEF Output
<1> QED
    BY <1>3, <1>5 DEF Opens

LEMMA TakeStep ==
    ASSUME IInv, NEW m \in Message, OnChunk(m)
    PROVE  Takes(m.payload)
<1>1. /\ m.payload \in Chunk /\ current_file_handle # None
      /\ current_file_handle \in File
      /\ received_chunks + 1 # expected_chunks
    BY MessageCases DEF OnChunk, IInv, TypeOK
<1>2. /\ Written(current_file_handle, m.payload) \o Kept(buffer, m.payload)
           = Append(Output, m.payload)
      /\ Written(current_file_handle, m.payload) \in Seq(Chunk)
    BY <1>1, WriteAppends
<1>3. /\ disk' = [disk EXCEPT ![current_file_handle] =
                      Written(current_file_handle, m.payload)]
      /\ buffer' = Kept(buffer, m.payload) /\ alive /\ alive' = alive
      /\ UNCHANGED <<current_file_handle, current_qos, rows>>
      /\ received_chunks' = received_chunks + 1
    BY DEF OnChunk, TakeChunk
<1>4. disk'[current_file_handle] = Written(current_file_handle, m.payload)
    BY <1>1, <1>3 DEF IInv, TypeOK
<1>5. Output' = Append(Output, m.payload)
    BY <1>1, <1>2, <1>3, <1>4 DEF Output
<1> QED
    BY <1>1, <1>3, <1>5, OutputCounted DEF Takes

LEMMA CompleteStep ==
    ASSUME IInv, NEW m \in Message, OnLastChunk(m)
    PROVE  Completes(m.payload)
<1> DEFINE h == current_file_handle
           c == m.payload
           row == Last(rows')
<1>1. /\ h \in File /\ h # None /\ c \in Chunk
      /\ rows' = Append(rows, row) /\ row \in Row
      /\ row.file = h /\ row.qos = current_qos
      /\ row.integrity_ok = (Sha256(Content[h]) = Sha256(Written(h, c)))
      /\ Written(h, c) \in Seq(Chunk) /\ Kept(buffer, c) \in Seq(Chunk)
      /\ Len(Written(h, c)) + Len(Kept(buffer, c)) = Len(Content[h])
      /\ Written(h, c) \o Kept(buffer, c) = Append(Output, c)
      /\ current_file_handle' = None
    BY LastChunkFacts
<1>2. alive' /\ received_chunks + 1 = Len(Content[h])
  <2>1. received_chunks + 1 = expected_chunks /\ alive /\ alive' = alive
      BY DEF OnLastChunk, TakeChunk, CloseFile
  <2> QED
      BY <1>1, <2>1, OutputCounted
<1>3. ASSUME row.integrity_ok PROVE Append(Output, c) = Content[h]
  <2>1. Content[h] = Written(h, c) /\ Content[h] \in Seq(Chunk)
      BY <1>1, <1>3, ContentTyped DEF Sha256
  <2> QED
      BY <1>1, <2>1, FullPrefix
<1>4. ASSUME Append(Output, c) = Content[h], ~Small(c) PROVE row.integrity_ok
  <2>1. Kept(buffer, c) = <<>>
      BY <1>4 DEF Kept
  <2>2. Content[h] = Written(h, c)
      BY <1>1, <1>4, <2>1, ConcatEmptySeq
  <2> QED
      BY <1>1, <2>2
<1> HIDE DEF row
<1> QED
    BY <1>1, <1>2, <1>3, <1>4 DEF Completes

LEMMA DeliverOutcome ==
    ASSUME Flow, Deliver
    PROVE  \/ inbox[1].mid = 1 /\ (Opens(inbox[1].job) \/ Dies(inbox[1].job))
           \/ /\ inbox[1].mid > 1
              /\ Takes(ChunkOf(inbox[1])) \/ Completes(ChunkOf(inbox[1])) \/ Ignores
<1> DEFINE p == inbox[1]
           m == Head(inbox).body
<1>1. /\ OnMessage(m) /\ m \in Message /\ m = p.body /\ Genuine(p)
      /\ p.job \in Jobs /\ p.mid \in Nat \ {0} /\ p \in PacketType
  <2>1. p \in PacketType
      BY InboxTail, PacketFacts DEF Flow, TransferTyped
  <2> QED
      BY <2>1, InboxTail
<1> HIDE DEF p, m
<1>2. IInv
    BY DEF Flow
<1>3. CASE p.mid = 1
  <2>1. m = Metadata(JobFile(p.job), JobQos(p.job))
      BY <1>1, <1>3, GenuineBody
  <2>2. m.topic # TOPIC_DATA /\ m.filename = JobFile(p.job)
      BY <2>1 DEF Metadata, TOPIC_DATA, TOPIC_CTRL
  <2>3. OnMetadata(m) \/ OnMetadataOpenFails(m)
      BY <1>1, <2>2 DEF OnMessage, OnChunk, OnLastChunk, OnStrayChunk
  <2>4. OnMetadataOpenFails(m) => Dies(p.job)
      BY <2>2 DEF OnMetadataOpenFails, Dies
  <2>5. OnMetadata(m) => Opens(p.job)
      BY <1>1, <1>2, <2>1, OpenStep
  <2> QED
      BY <1>3, <2>3, <2>4, <2>5 DEF p
<1>4. CASE p.mid # 1
  <2>1. m = ChunkMessage(ChunkOf(p)) /\ p.mid > 1
      BY <1>1, <1>4, GenuineBody
  <2>2. m.topic # TOPIC_CTRL /\ m.payload = ChunkOf(p)
      BY <2>1 DEF ChunkMessage, TOPIC_DATA, TOPIC_CTRL
  <2>3. OnChunk(m) \/ OnLastChunk(m) \/ OnStrayChunk(m)
      BY <1>1, <2>2 DEF OnMessage, OnMetadata, OnMetadataOpenFails
  <2>4. OnStrayChunk(m) => Ignores
      BY DEF OnStrayChunk, Ignores
  <2> QED
      BY <1>1, <1>2, <2>1, <2>2, <2>3, <2>4, TakeStep, CompleteStep DEF p
<1> QED
    BY <1>3, <1>4

-----------------------------------------------------------------------------
(* While nobody disturbs the receiver: it hears of a run before it gets    *)
(* the run's chunks.                                                       *)

(* on_connect's order: before the control topic is subscribed to, nothing  *)
(* comes.                                                                  *)
CtrlFirst ==
    TOPIC_CTRL \notin subs =>
        subs = {} /\ inbox = <<>> /\ current_file_handle = None

(* Run r is the last whose metadata reached the receiver, or the receiver  *)
(* has no file open and waits for a run after r.  A chunk that waits is of *)
(* that run or comes behind its own run's metadata; and a run the broker   *)
(* knows is not after r, or its metadata waits.  None of this is said of   *)
(* the messages of runs that overtook one another.                         *)
ReceivingRun(r) ==
    /\ current_file_handle # None =>
          /\ r \in Jobs
          /\ current_file_handle = JobFile(r) /\ current_qos = JobQos(r)
    /\ r <= job
    /\ \A i \in 1 .. Len(wire) : r <= wire[i].job
    /\ \A i \in 1 .. Len(inbox) : r <= inbox[i].job
    /\ \A i \in 1 .. Len(inbox) :
          inbox[i].mid > 1 =>
              \/ inbox[i].job = r \/ inbox[i].job \in overtaken
              \/ InFront(inbox, i, inbox[i].job, 1)
    /\ \A p \in accepted :
          p[1] <= r \/ p[1] \in overtaken \/ InFront(inbox, Len(inbox) + 1, p[1], 1)

Unmixed ==
    current_file_handle # None =>
        ToSet(Output) \subseteq ToSet(Content[current_file_handle])
            \cup UNION {ToSet(Content[JobFile(j)]) : j \in overtaken}

Quiet ==
    /\ CtrlFirst
    /\ Unmixed
    /\ \E r \in Nat : ReceivingRun(r)

(* A run no later than all that are on their way, and no earlier than all  *)
(* the broker knows.                                                       *)
Foremost(r) ==
    /\ r <= job
    /\ \A i \in 1 .. Len(wire) : r <= wire[i].job
    /\ \A p \in accepted : p[1] <= r

LEMMA FrontRun ==
    ASSUME Flow
    PROVE  \E r \in Nat : Foremost(r)
<1> USE DEF Foremost
<1>1. wire \in Seq(PacketType) /\ job \in Nat
    BY QueuesTyped DEF Flow, SenderInv, SenderTyped
<1>2. /\ Len(wire) \in Nat
      /\ \A i \in 1 .. Len(wire) : wire[i].job \in Nat
    BY <1>1, PacketFacts
<1>3. CASE Len(wire) = 0
    BY <1>1, <1>3 DEF Flow, InOrder
<1>4. CASE Len(wire) # 0
  <2>1. 1 \in 1 .. Len(wire) /\ \A i \in 1 .. Len(wire) : 1 <= i
      BY <1>2, <1>4
  <2> QED
      BY <1>2, <2>1 DEF Flow, InOrder, SenderInv, Queued
<1> QED
    BY <1>3, <1>4

(* With no file open and nothing waiting, the receiver waits for the run   *)
(* at the front.                                                           *)
LEMMA QuietWhenClosed ==
    ASSUME Flow, inbox = <<>>, current_file_handle = None,
           TOPIC_CTRL \notin subs => subs = {}
    PROVE  Quiet
<1>1. Len(inbox) = 0
    BY EmptySeq
<1> QED
    BY <1>1, FrontRun DEF Foremost, Quiet, CtrlFirst, Unmixed, ReceivingRun

LEMMA SenderMovesQuiet ==
    ASSUME Flow, Quiet, SenderMoves
    PROVE  Quiet'
<1>1. /\ MainStep \/ OnPublish \/ Disconnect \/ OpenSocket \/ ConnAck
      /\ subs' = subs /\ inbox' = inbox
      /\ UNCHANGED <<current_file_handle, current_qos, disk, buffer>>
    BY DEF SenderMoves, vars, transfer
<1>2. /\ accepted' = accepted /\ job \in Nat /\ job' \in Nat /\ job <= job'
      /\ overtaken \subseteq overtaken'
      /\ \A i \in 1 .. Len(wire') :
            \/ \E k \in 1 .. Len(wire) : wire'[i] = wire[k]
            \/ \E k \in 1 .. Len(out_messages) : wire'[i] = out_messages[k]
            \/ Fresh(wire'[i])
    BY <1>1, SenderMovesFacts DEF Flow
<1>3. CtrlFirst' /\ Unmixed'
  <2>1. CtrlFirst' /\ Output' = Output
      BY <1>1 DEF Quiet, CtrlFirst, Output
  <2> QED
      BY <1>1, <1>2, <2>1 DEF Quiet, Unmixed
<1>4. PICK r \in Nat : ReceivingRun(r)
    BY DEF Quiet
<1>5. \A i \in 1 .. Len(wire') : r <= wire'[i].job
  <2>1. \A i \in 1 .. Len(out_messages) : out_messages[i].job = job
      BY DEF Flow, SenderInv, Owned
  <2> QED
      BY <1>2, <1>4, <2>1 DEF ReceivingRun, Fresh
<1>6. ReceivingRun(r)'
    BY <1>1, <1>2, <1>4, <1>5 DEF ReceivingRun
<1> QED
    BY <1>3, <1>6 DEF Quiet

(* The broker knows a run by its metadata first.                           *)
LEMMA BrokerRoutesQuiet ==
    ASSUME Flow, Quiet, BrokerRoutes,
           \E r \in Nat : Foremost(r)'
    PROVE  Quiet'
<1> DEFINE p == Head(wire)
<1>1. BrokerAccept /\ subs' = subs
      /\ UNCHANGED <<current_file_handle, current_qos, disk, buffer>>
    BY DEF BrokerRoutes, vars, transfer
<1>2. /\ p = wire[1] /\ p \in PacketType /\ 1 \in 1 .. Len(wire)
      /\ \A i \in 1 .. Len(wire') : wire'[i] = wire[i + 1] /\ i + 1 \in 1 .. Len(wire)
      /\ accepted' = accepted \cup {<<p.job, p.mid>>}
      /\ job' = job /\ overtaken' = overtaken
      /\ p.job \in overtaken \/ \A n \in 1 .. p.mid - 1 : <<p.job, n>> \in accepted
    BY <1>1, BrokerAcceptFacts DEF Flow
<1>3. p.job \in Nat /\ p.job \in Jobs /\ p.mid \in Nat \ {0} /\ Genuine(p)
    BY <1>2, JobsNumbered DEF PacketType, Flow, Carried
<1>4. \/ p.body.topic \in subs /\ inbox' = Append(inbox, p)
      \/ p.body.topic \notin subs /\ inbox' = inbox
    BY DEF BrokerRoutes
<1>5. /\ p.mid = 1 => p.body.topic = TOPIC_CTRL
      /\ p.mid # 1 => p.body.topic = TOPIC_DATA
  <2>1. /\ p.mid = 1 => p.body = Metadata(JobFile(p.job), JobQos(p.job))
        /\ p.mid # 1 => p.body = ChunkMessage(ChunkOf(p))
    <3> HIDE DEF p
    <3> QED
        BY <1>2, <1>3, GenuineBody
  <2> HIDE DEF p
  <2> QED
      BY <2>1 DEF Metadata, ChunkMessage
<1> HIDE DEF p
<1>6. p.mid > 1 => p.job \in overtaken \/ <<p.job, 1>> \in accepted
    BY <1>2, <1>3
<1>7. CASE p.mid = 1 /\ inbox' = inbox /\ TOPIC_CTRL \notin subs
  <2>1. /\ inbox' = <<>> /\ current_file_handle' = None
        /\ TOPIC_CTRL \notin subs' => subs' = {}
      BY <1>1, <1>7 DEF Quiet, CtrlFirst
  <2>2. Len(inbox') = 0
      BY <2>1, EmptySeq
  <2>3. PICK r \in Nat : Foremost(r)'
      OBVIOUS
  <2> QED
      BY <2>1, <2>2, <2>3 DEF Foremost, Quiet, CtrlFirst, Unmixed, ReceivingRun
<1>8. CASE ~(p.mid = 1 /\ inbox' = inbox)
  <2>1. PICK r \in Nat : ReceivingRun(r)
      BY DEF Quiet
  <2>2. TOPIC_CTRL \notin subs => inbox' = inbox
      BY <1>4 DEF Quiet, CtrlFirst
  <2>3. CtrlFirst' /\ Unmixed'
      BY <1>1, <1>2, <2>2 DEF Quiet, CtrlFirst, Unmixed, Output
  <2>4. /\ Len(inbox) \in Nat
        /\ \A i \in 1 .. Len(inbox) : inbox[i].job \in Nat
        /\ \A i \in 1 .. Len(inbox') : \/ i \in 1 .. Len(inbox) /\ inbox'[i] = inbox[i]
                                       \/ i = Len(inbox) + 1 /\ inbox'[i] = p
        /\ \A i \in 1 .. Len(inbox) : inbox'[i] = inbox[i]
        /\ Len(inbox') \in {Len(inbox), Len(inbox) + 1}
    <3>1. inbox \in Seq(PacketType)
        BY DEF Flow, TransferTyped
    <3>2. CASE inbox' = inbox
        BY <3>1, <3>2, PacketFacts
    <3>3. CASE inbox' = Append(inbox, p)
        BY <1>2, <3>1, <3>3, PacketFacts, InboxAppend
    <3> QED
        BY <1>4, <3>2, <3>3
  <2>5. \A i \in 1 .. Len(inbox) + 1 : \A j, n :
            InFront(inbox, i, j, n) => InFront(inbox', i, j, n)
      BY <2>4 DEF InFront
  <2>6. \A j : InFront(inbox, Len(inbox) + 1, j, 1) => InFront(inbox', Len(inbox') + 1, j, 1)
      BY <2>4 DEF InFront
  <2>7. r <= p.job
      BY <1>2, <2>1 DEF ReceivingRun
  <2>8. p.mid > 1 => \/ p.job = r \/ p.job \in overtaken
                     \/ InFront(inbox, Len(inbox) + 1, p.job, 1)
    <3> SUFFICES ASSUME p.mid > 1, ~InFront(inbox, Len(inbox) + 1, p.job, 1),
                        p.job \notin overtaken
                 PROVE  p.job = r
        OBVIOUS
    <3>1. <<p.job, 1>>[1] <= r
        BY <1>6, <2>1 DEF ReceivingRun
    <3> QED
        BY <1>3, <2>7, <3>1
  <2>9. p.job <= r \/ p.job \in overtaken \/ InFront(inbox', Len(inbox') + 1, p.job, 1)
    <3>1. CASE p.mid = 1
      <4>1. Len(inbox') = Len(inbox) + 1 /\ inbox'[Len(inbox) + 1] = p
        <5>1. inbox \in Seq(PacketType) /\ inbox' = Append(inbox, p)
            BY <1>4, <1>8, <3>1 DEF Flow, TransferTyped
        <5> QED
            BY <1>2, <5>1, InboxAppend
      <4> QED
          BY <2>4, <3>1, <4>1 DEF InFront
    <3>2. CASE p.mid > 1
      <4>1. p.job <= r \/ p.job \in overtaken \/ InFront(inbox, Len(inbox) + 1, p.job, 1)
        <5>1. <<p.job, 1>>[1] = p.job
            OBVIOUS
        <5> QED
            BY <1>6, <2>1, <3>2, <5>1 DEF ReceivingRun
      <4> QED
          BY <2>6, <4>1
    <3> QED
        BY <1>3, <3>1, <3>2
  <2>10. ASSUME NEW i \in 1 .. Len(inbox'), inbox'[i].mid > 1
         PROVE  \/ inbox'[i].job = r \/ inbox'[i].job \in overtaken
                \/ InFront(inbox', i, inbox'[i].job, 1)
    <3>1. CASE i \in 1 .. Len(inbox) /\ inbox'[i] = inbox[i]
        BY <2>1, <2>4, <2>5, <2>10, <3>1 DEF ReceivingRun
    <3>2. CASE i = Len(inbox) + 1 /\ inbox'[i] = p
        BY <2>4, <2>5, <2>8, <2>10, <3>2
    <3> QED
        BY <2>4, <3>1, <3>2
  <2>11. ReceivingRun(r)'
    <3>1. \A i \in 1 .. Len(wire') : r <= wire'[i].job
        BY <1>2, <2>1 DEF ReceivingRun
    <3>2. \A i \in 1 .. Len(inbox') : r <= inbox'[i].job
        BY <2>1, <2>4, <2>7 DEF ReceivingRun
    <3>3. \A a \in accepted' :
              a[1] <= r \/ a[1] \in overtaken \/ InFront(inbox', Len(inbox') + 1, a[1], 1)
      <4>1. \A a \in accepted :
                a[1] <= r \/ a[1] \in overtaken \/ InFront(inbox', Len(inbox') + 1, a[1], 1)
          BY <2>1, <2>6 DEF ReceivingRun
      <4>2. <<p.job, p.mid>>[1] = p.job
          OBVIOUS
      <4> QED
          BY <1>2, <2>9, <4>1, <4>2
    <3> QED
        BY <1>1, <1>2, <2>1, <2>10, <3>1, <3>2, <3>3 DEF ReceivingRun
  <2> QED
      BY <2>3, <2>11 DEF Quiet
<1> QED
    BY <1>4, <1>5, <1>7, <1>8

(* A chunk at the head of the queue is of the run whose file is open, or of *)
(* one whose messages overtook one another.                                *)
LEMMA HeadIsCurrent ==
    ASSUME Flow, Deliver, NEW r \in Nat, ReceivingRun(r), inbox[1].mid > 1
    PROVE  inbox[1].job = r \/ inbox[1].job \in overtaken
<1>1. \A j, n : ~InFront(inbox, 1, j, n)
    BY DEF InFront
<1> QED
    BY <1>1, InboxTail DEF ReceivingRun

(* Delivery: metadata opens the file of its run, and a chunk that is       *)
(* written is of the run whose file is open.                               *)
LEMMA DeliverQuiet ==
    ASSUME Flow, Quiet, Deliver,
           \E r \in Nat : Foremost(r)'
    PROVE  Quiet'
<1> DEFINE p == inbox[1]
<1>1. /\ Len(inbox) \in Nat \ {0} /\ 1 \in 1 .. Len(inbox)
      /\ p.job \in Jobs /\ p.mid \in Nat \ {0} /\ Genuine(p)
      /\ inbox # <<>>
      /\ alive' => /\ subs' = subs /\ Len(inbox') = Len(inbox) - 1
                   /\ \A i \in 1 .. Len(inbox') :
                         inbox'[i] = inbox[i + 1] /\ i + 1 \in 1 .. Len(inbox)
      /\ ~alive' => inbox' = <<>> /\ subs' = {}
    BY InboxTail
<1>2. wire' = wire /\ accepted' = accepted /\ job' = job /\ overtaken' = overtaken
    BY InboxTail DEF svars, main, network, past
<1>3. PICK r \in Nat : ReceivingRun(r)
    BY DEF Quiet
<1>4. CASE Dies(p.job)
  <2>1. Len(<<>>) = 0
      BY EmptySeq
  <2> QED
      BY <1>1, <1>4, <2>1 DEF Foremost, Dies, Quiet, CtrlFirst, Unmixed, ReceivingRun
<1>5. ASSUME alive', NEW s \in Nat, r <= s, s <= p.job,
             p.mid = 1 => s = p.job,
             current_file_handle' # None =>
                 /\ s \in Jobs
                 /\ current_file_handle' = JobFile(s) /\ current_qos' = JobQos(s)
      PROVE  ReceivingRun(s)'
  <2>1. /\ \A i \in 1 .. Len(inbox) : inbox[i].job \in Nat /\ p.job <= inbox[i].job
        /\ \A i \in 1 .. Len(wire) : p.job <= wire[i].job
        /\ p.job <= job /\ p.job \in Nat
    <3>1. \A i \in 1 .. Len(inbox) : inbox[i].job \in Nat /\ 1 <= i
        BY PacketFacts DEF Flow, TransferTyped
    <3>2. <<p.job, p.mid>> \in accepted
        BY <1>1 DEF Flow, Carried
    <3>3. <<p.job, p.mid>>[1] = p.job
        OBVIOUS
    <3> QED
        BY <1>1, <3>1, <3>2, <3>3 DEF Flow, InOrder
  <2>2. /\ job \in Nat
        /\ \A i \in 1 .. Len(wire) : wire[i].job \in Nat
      BY QueuesTyped DEF Flow, SenderInv
  <2> HIDE DEF p
  <2>3. s <= job /\ \A i \in 1 .. Len(wire) : s <= wire[i].job
      BY <1>5, <2>1, <2>2
  <2>4. \A i \in 1 .. Len(inbox) : s <= inbox[i].job
      BY <1>5, <2>1
  <2>5. ASSUME NEW i \in 1 .. Len(inbox), NEW j, InFront(inbox, i + 1, j, 1)
        PROVE  j = s \/ InFront(inbox', i, j, 1)
    <3>1. PICK k \in 1 .. i : inbox[k].job = j /\ inbox[k].mid = 1
        BY <1>1, <2>5 DEF InFront
    <3>2. CASE k = 1
        BY <1>5, <3>1, <3>2 DEF p
    <3>3. CASE k # 1
      <4>1. /\ k - 1 \in 1 .. i - 1 /\ k - 1 \in 1 .. Len(inbox')
            /\ (k - 1) + 1 = k
          BY <1>1, <1>5, <3>3
      <4>2. inbox'[k - 1] = inbox[k]
          BY <1>1, <1>5, <4>1
      <4> QED
          BY <3>1, <4>1, <4>2 DEF InFront
    <3> QED
        BY <3>2, <3>3
  <2>6. ASSUME NEW i \in 1 .. Len(inbox'), inbox'[i].mid > 1
        PROVE  \/ inbox'[i].job = s \/ inbox'[i].job \in overtaken
               \/ InFront(inbox', i, inbox'[i].job, 1)
    <3>1. inbox'[i] = inbox[i + 1] /\ i + 1 \in 1 .. Len(inbox) /\ i \in 1 .. Len(inbox)
        BY <1>1, <1>5, <2>6
    <3>2. CASE inbox[i + 1].job = r
      <4>1. p.job <= inbox[i + 1].job /\ inbox[i + 1].job \in Nat
          BY <2>1, <3>1
      <4> QED
          BY <1>5, <2>1, <3>1, <3>2, <4>1
    <3>3. CASE InFront(inbox, i + 1, inbox[i + 1].job, 1)
        BY <2>5, <3>1, <3>3
    <3> QED
        BY <1>3, <2>6, <3>1, <3>2, <3>3 DEF ReceivingRun
  <2>7. \A a \in accepted :
            a[1] <= s \/ a[1] \in overtaken \/ InFront(inbox', Len(inbox') + 1, a[1], 1)
    <3> SUFFICES ASSUME NEW a \in accepted, a[1] \notin overtaken
                 PROVE  a[1] <= s \/ InFront(inbox', Len(inbox') + 1, a[1], 1)
        OBVIOUS
    <3>1. a[1] \in Nat
      <4>1. \A b \in (Jobs \X (Nat \ {0})) : b[1] \in Jobs
          OBVIOUS
      <4> QED
          BY <4>1, JobsNumbered DEF Flow, SenderInv, SenderTyped
    <3>2. CASE a[1] <= r
        BY <1>5, <3>1, <3>2
    <3>3. CASE InFront(inbox, Len(inbox) + 1, a[1], 1)
      <4>1. Len(inbox') + 1 = Len(inbox) /\ Len(inbox) \in 1 .. Len(inbox)
          BY <1>1, <1>5
      <4>2. a[1] = s \/ InFront(inbox', Len(inbox') + 1, a[1], 1)
          BY <2>5, <3>3, <4>1
      <4> QED
          BY <3>1, <4>2
    <3> QED
        BY <1>3, <3>2, <3>3 DEF ReceivingRun
  <2> QED
      BY <1>1, <1>2, <1>5, <2>3, <2>4, <2>6, <2>7 DEF ReceivingRun
<1>6. CtrlFirst' \/ ~alive'
    BY <1>1 DEF Quiet, CtrlFirst
<1>7. r <= p.job /\ p.job \in Nat
    BY <1>1, <1>3, JobsNumbered DEF ReceivingRun
<1>8. CASE p.mid = 1 /\ Opens(p.job)
  <2> PICK j \in Nat : j = p.job
      BY <1>7
  <2>1. ReceivingRun(j)'
      BY <1>1, <1>5, <1>7, <1>8 DEF Opens
  <2>2. Unmixed'
    <3>1. ToSet(<<>>) = {}
        BY EmptySeq DEF ToSet
    <3> QED
        BY <1>8, <3>1 DEF Unmixed, Opens
  <2> QED
      BY <1>6, <1>7, <1>8, <2>1, <2>2 DEF Quiet, Opens
<1>9. CASE p.mid > 1 /\ Takes(ChunkOf(p))
  <2>1. p.job = r \/ p.job \in overtaken
      BY <1>3, <1>9, HeadIsCurrent
  <2>2. /\ current_file_handle = JobFile(r) /\ current_file_handle' = JobFile(r)
        /\ current_qos' = JobQos(r) /\ r \in Jobs /\ current_file_handle # None
        /\ Output' = Append(Output, ChunkOf(p)) /\ alive'
      BY <1>3, <1>9 DEF ReceivingRun, Takes
  <2>3. ReceivingRun(r)'
      BY <1>1, <1>5, <1>7, <1>9, <2>1, <2>2
  <2>4. Unmixed'
    <3>1. /\ Output \in Seq(Chunk)
          /\ ToSet(Output) \subseteq ToSet(Content[JobFile(r)])
                 \cup UNION {ToSet(Content[JobFile(j)]) : j \in overtaken}
        BY <2>2, OutputCounted DEF Flow, Quiet, Unmixed
    <3>2. Content[JobFile(p.job)] \in Seq(Chunk) /\ Len(Content[JobFile(p.job)]) \in Nat
        BY <1>1, JobsNumbered, ContentTyped
    <3>3. ChunkOf(p) = Content[JobFile(p.job)][p.mid - 1]
          /\ p.mid - 1 \in 1 .. Len(Content[JobFile(p.job)])
        BY <1>1, <1>9, <3>2 DEF ChunkOf, Genuine
    <3>4. ChunkOf(p) \in ToSet(Content[JobFile(p.job)]) /\ ChunkOf(p) \in Chunk
        BY <3>2, <3>3, ElementOfSeq DEF ToSet
    <3> HIDE DEF p
    <3>5. ToSet(Append(Output, ChunkOf(p))) \subseteq ToSet(Output) \cup {ChunkOf(p)}
        BY <3>1, <3>4, AppendProperties DEF ToSet
    <3>6. ChunkOf(p) \in ToSet(Content[JobFile(r)])
              \cup UNION {ToSet(Content[JobFile(j)]) : j \in overtaken}
        BY <2>1, <3>4
    <3> QED
        BY <1>2, <2>2, <3>1, <3>5, <3>6 DEF Unmixed
  <2> QED
      BY <1>6, <2>2, <2>3, <2>4 DEF Quiet
<1>10. CASE p.mid > 1 /\ (Completes(ChunkOf(p)) \/ Ignores)
  <2>1. current_file_handle' = None /\ alive'
      BY <1>10 DEF Completes, Ignores
  <2>2. ReceivingRun(r)'
      BY <1>5, <1>7, <1>10, <2>1
  <2> QED
      BY <1>6, <2>1, <2>2 DEF Quiet, Unmixed
<1> QED
    BY <1>4, <1>8, <1>9, <1>10, DeliverOutcome

LEMMA FrontRunAfter == Flow' => \E r \in Nat : Foremost(r)'
<1> DEFINE HasFront == \E r \in Nat : Foremost(r)
<1>1. Flow => HasFront
    BY FrontRun
<1> HIDE DEF HasFront
<1>2. Flow' => HasFront'
    BY <1>1, PTL
<1> QED
    BY <1>2 DEF HasFront

(* While nobody disturbs the receiver, all of this is kept.                *)
LEMMA QuietKeeps ==
    ASSUME Flow, Flow', Quiet, [TransferNext]_tvars, faults' = 0
    PROVE  Quiet'
<1>1. CASE SenderMoves
    BY <1>1, SenderMovesQuiet
<1>2. CASE BrokerRoutes
    BY <1>2, BrokerRoutesQuiet, FrontRunAfter
<1>3. CASE Deliver
    BY <1>3, DeliverQuiet, FrontRunAfter
<1>4. CASE ReceiverDisconnect \/ ReceiverKill
  <2>1. faults' = faults + 1 /\ faults \in Nat
      BY <1>4 DEF ReceiverDisconnect, ReceiverKill, Flow, TransferTyped
  <2> QED
      BY <2>1
<1>5. CASE SubscribeCtrl \/ SubscribeData \/ UNCHANGED tvars
  <2>1. /\ UNCHANGED <<svars, inbox, vars>>
        /\ TOPIC_CTRL \in subs' \/ subs' = subs
      BY <1>5 DEF SubscribeCtrl, SubscribeData, tvars, session
  <2>2. /\ UNCHANGED <<job, wire, accepted, overtaken, current_file_handle,
                       current_qos, inbox>>
        /\ Output' = Output
      BY <2>1 DEF Output, svars, vars, transfer, main, network, past
  <2> QED
      BY <2>1, <2>2 DEF Quiet, CtrlFirst, Unmixed, ReceivingRun
<1>6. CASE ReceiverRestart
  <2>1. /\ UNCHANGED <<svars, inbox, subs>> /\ ~alive
        /\ current_file_handle' = None
      BY <1>6 DEF ReceiverRestart, Restart, session
  <2> QED
      BY <2>1 DEF Quiet, CtrlFirst, Unmixed, ReceivingRun, svars, main, network, past
<1> QED
    BY <1>1, <1>2, <1>3, <1>4, <1>5, <1>6 DEF TransferNext

(* The invariant of the composition.                                       *)
TransferInv == Flow /\ (faults = 0 => Quiet)

LEMMA FaultsGrow ==
    ASSUME Flow, [TransferNext]_tvars, faults' = 0
    PROVE  faults = 0
  BY DEF Flow, TransferTyped, TransferNext, SenderMoves, BrokerRoutes,
         SubscribeCtrl, SubscribeData, Deliver, SessionEnds, ReceiverDisconnect,
         ReceiverKill, ReceiverRestart, session, tvars

LEMMA NextTransferInv == TransferInv /\ [TransferNext]_tvars => TransferInv'
<1> SUFFICES ASSUME TransferInv, [TransferNext]_tvars PROVE TransferInv'
    OBVIOUS
<1>1. Flow'
    BY FlowKeeps DEF TransferInv
<1>2. faults' = 0 => faults = 0
    BY FaultsGrow DEF TransferInv
<1> QED
    BY <1>1, <1>2, QuietKeeps DEF TransferInv

LEMMA InitTransferInv == TransferInit => TransferInv
<1> SUFFICES ASSUME TransferInit PROVE TransferInv
    OBVIOUS
<1>1. Flow /\ inbox = <<>> /\ subs = {} /\ current_file_handle = None
    BY InitFlow DEF TransferInit, Init
<1> QED
    BY <1>1, QuietWhenClosed DEF TransferInv

(* The invariant of the MQTT benchmark, for every list of files and any    *)
(* number of lost connections: what is on its way is genuine and its runs  *)
(* are in order, and an undisturbed receiver hears of a run before it gets *)
(* its chunks, unless they overtook their metadata at the sender.          *)
THEOREM TransferInductive == TransferSpec => []TransferInv
<1> QED
    BY InitTransferInv, NextTransferInv, PTL DEF TransferSpec

(* client_b.py writes no chunk into the file of another run, although data *)
(* messages name no file, as long as nobody disturbs the receiver: but for *)
(* the chunks of runs whose messages overtook one another at the sender.   *)
THEOREM NeverMixed == TransferSpec => []NoMixing
<1>1. TransferInv => NoMixing
    BY DEF TransferInv, Quiet, Unmixed, NoMixing
<1> QED
    BY <1>1, TransferInductive, PTL

-----------------------------------------------------------------------------
(* Two numbers with the same quotient and the same remainder.              *)
LEMMA SameQuotient ==
    ASSUME NEW a \in Nat, NEW b \in Nat, NEW n \in Nat \ {0},
           a % n = b % n, a \div n = b \div n
    PROVE  a = b
  OBVIOUS

(* A run is known by its file and its level.                               *)
LEMMA JobsDistinct ==
    ASSUME NEW j \in Jobs, NEW k \in Jobs,
           JobFile(j) = JobFile(k), JobQos(j) = JobQos(k)
    PROVE  j = k
<1> DEFINE n == Len(Files)
           a == j - 1
           b == k - 1
<1>1. n \in Nat \ {0} /\ a \in Nat /\ b \in Nat /\ j = a + 1 /\ k = b + 1
    BY JobsNumbered
<1> HIDE DEF n, a, b
<1>2. a % n \in 0 .. n - 1 /\ b % n \in 0 .. n - 1
    BY <1>1
<1>3. (a % n) + 1 \in 1 .. n /\ (b % n) + 1 \in 1 .. n
    BY <1>1, <1>2
<1>4. Files[(a % n) + 1] = Files[(b % n) + 1]
    BY DEF JobFile, n, a, b
<1>5. (a % n) + 1 = (b % n) + 1
    BY <1>3, <1>4, DistinctAssumption DEF n
<1>6. a % n = b % n
    BY <1>2, <1>5
<1>7. (a \div n) + 1 = (b \div n) + 1
    BY DEF JobQos, n, a, b
<1>8. a \div n \in Int /\ b \div n \in Int
    BY <1>1
<1>9. a \div n = b \div n
    BY <1>7, <1>8
<1>10. a = b
    BY <1>1, <1>6, <1>9, SameQuotient
<1> QED
    BY <1>1, <1>10

(* The broker forgets nothing it has taken, and the history no run.        *)
LEMMA AcceptedGrows ==
    ASSUME Flow, [TransferNext]_tvars
    PROVE  accepted \subseteq accepted' /\ overtaken \subseteq overtaken'
<1>1. CASE SenderMoves
    BY <1>1, SenderMovesFacts DEF SenderMoves, Flow
<1>2. CASE BrokerRoutes
    BY <1>2, BrokerAcceptFacts DEF BrokerRoutes, Flow
<1>3. CASE UNCHANGED svars
    BY <1>3 DEF svars, network, past
<1> QED
    BY <1>1, <1>2, <1>3
    DEF TransferNext, SubscribeCtrl, SubscribeData, Deliver, ReceiverDisconnect,
        ReceiverKill, ReceiverRestart, tvars

(* Rows are written on delivery only.                                      *)
LEMMA RowsOnDelivery ==
    ASSUME [TransferNext]_tvars, rows' # rows
    PROVE  Deliver
  BY DEF TransferNext, SenderMoves, BrokerRoutes, SubscribeCtrl, SubscribeData,
         ReceiverDisconnect, ReceiverKill, ReceiverRestart, Kill, Restart, vars,
         tvars

(* If the broker has a message of a run, it has all those before it,       *)
(* unless they overtook one another.                                       *)
LEMMA BrokerHasPrefix ==
    ASSUME SenderInv, NEW j \in Jobs, j \notin overtaken,
           NEW m \in Nat, <<j, m>> \in accepted
    PROVE  \A n \in 1 .. m : <<j, n>> \in accepted
<1>1. j \in Nat /\ <<j, m>> \in Granted
    BY JobsNumbered DEF Granted
<1>2. \A n \in 1 .. m : <<j, n>> \in Granted
    BY <1>1 DEF SenderInv, Queued, Closed
<1> QED
    BY <1>2 DEF Granted

(* What makes a file's last chunk recognisable: no other chunk of the file *)
(* is like it.  Without this a duplicate of an equal chunk can complete a  *)
(* file early, and its bytes are right all the same.                       *)
LastChunkDistinct ==
    \A f \in File : \A i \in 1 .. Len(Content[f]) :
        Content[f][i] = Content[f][Len(Content[f])] => i = Len(Content[f])

(* No message of run r or of a later one overtook earlier ones.            *)
Straight(r) == \A k \in overtaken : k < r

Earned ==
    \A i \in 1 .. Len(rows) : rows[i].integrity_ok =>
        \E r \in Jobs : /\ rows[i].file = JobFile(r) /\ rows[i].qos = JobQos(r)
                        /\ Straight(r) => PacketsOf(r) \subseteq accepted

(* The row of a delivery that says OK is about a run the broker has whole, *)
(* if nothing overtook anything.                                           *)
LEMMA DeliverEarns ==
    ASSUME LastChunkDistinct, Flow, Quiet, Deliver, Completes(ChunkOf(inbox[1])),
           inbox[1].mid > 1, NEW row \in Row, rows' = Append(rows, row),
           row.file = current_file_handle, row.qos = current_qos,
           row.integrity_ok =>
               Append(Output, ChunkOf(inbox[1])) = Content[current_file_handle],
           row.integrity_ok
    PROVE  \E r \in Jobs : /\ row.file = JobFile(r) /\ row.qos = JobQos(r)
                           /\ Straight(r) => PacketsOf(r) \subseteq accepted
<1> DEFINE p == inbox[1]
           c == ChunkOf(p)
<1>1. PICK r \in Nat : ReceivingRun(r)
    BY DEF Quiet
<1>3. /\ r \in Jobs /\ current_file_handle = JobFile(r) /\ current_qos = JobQos(r)
      /\ current_file_handle # None
    BY <1>1 DEF ReceivingRun, Completes
<1>4. /\ p.mid \in Nat \ {0} /\ Genuine(p) /\ 1 \in 1 .. Len(inbox)
    BY InboxTail
<1> SUFFICES ASSUME Straight(r) PROVE PacketsOf(r) \subseteq accepted
    BY <1>3
<1>2. p.job = r /\ r \notin overtaken
  <2>1. p.job = r \/ p.job \in overtaken
      BY <1>1, HeadIsCurrent
  <2>2. r <= p.job
      BY <1>1, <1>4 DEF ReceivingRun
  <2>3. \A k \in overtaken : k \in Nat
      BY JobsNumbered DEF Flow, SenderInv, SenderTyped
  <2> QED
      BY <2>1, <2>2, <2>3 DEF Straight
<1> DEFINE content == Content[JobFile(r)]
<1>5. content \in Seq(Chunk) /\ Len(content) \in Nat /\ JobFile(r) \in File
    BY <1>3, JobsNumbered, ContentTyped
<1>6. p.mid - 1 \in 1 .. Len(content) /\ c = content[p.mid - 1]
    BY <1>2, <1>4, <1>5 DEF Genuine, ChunkOf
<1>7. c \in Chunk
    BY <1>5, <1>6, ElementOfSeq
<1>8. Output \in Seq(Chunk) /\ Append(Output, c) = content
    BY <1>3, OutputCounted DEF Flow
<1> HIDE DEF c, content, p
<1>9. content[Len(content)] = c
    BY <1>7, <1>8, AppendProperties
<1>10. p.mid - 1 = Len(content)
    BY <1>5, <1>6, <1>9 DEF LastChunkDistinct, content
<1>11. <<r, Len(content) + 1>> \in accepted
  <2>1. <<p.job, p.mid>> \in accepted
      BY <1>4 DEF Flow, Carried, p
  <2>2. p.mid = Len(content) + 1
      BY <1>4, <1>5, <1>10
  <2> QED
      BY <1>2, <2>1, <2>2
<1>12. PacketsOf(r) \subseteq accepted
  <2>1. Len(content) + 1 \in Nat
      BY <1>5
  <2>2. \A n \in 1 .. Len(content) + 1 : <<r, n>> \in accepted
      BY <1>2, <1>3, <1>11, <2>1, BrokerHasPrefix DEF Flow
  <2> QED
      BY <2>2 DEF PacketsOf, content
<1> QED
    BY <1>12

LEMMA EarnedKeeps ==
    ASSUME LastChunkDistinct, Flow, Quiet, Earned, [TransferNext]_tvars
    PROVE  Earned'
<1>1. accepted \subseteq accepted' /\ \A r \in Jobs : Straight(r)' => Straight(r)
  <2>1. accepted \subseteq accepted' /\ overtaken \subseteq overtaken'
      BY AcceptedGrows
  <2> QED
      BY <2>1 DEF Straight
<1>2. CASE rows' = rows
    BY <1>1, <1>2 DEF Earned, PacketsOf
<1>3. CASE rows' # rows
  <2>1. Deliver
      BY <1>3, RowsOnDelivery
  <2>2. inbox[1].mid > 1 /\ Completes(ChunkOf(inbox[1]))
      BY <1>3, <2>1, DeliverOutcome DEF Opens, Dies, Takes, Ignores
  <2>3. PICK row \in Row :
            /\ rows' = Append(rows, row)
            /\ row.file = current_file_handle /\ row.qos = current_qos
            /\ row.integrity_ok =>
                  Append(Output, ChunkOf(inbox[1])) = Content[current_file_handle]
      BY <2>2 DEF Completes
  <2>4. row.integrity_ok =>
            \E r \in Jobs : /\ row.file = JobFile(r) /\ row.qos = JobQos(r)
                            /\ Straight(r) => PacketsOf(r) \subseteq accepted
      BY <2>1, <2>2, <2>3, DeliverEarns
  <2>5. /\ Len(rows) \in Nat /\ Len(rows') = Len(rows) + 1
        /\ \A i \in 1 .. Len(rows) : rows'[i] = rows[i]
        /\ rows'[Len(rows) + 1] = row
      BY <2>3, AppendProperties, LenProperties DEF Flow, IInv, TypeOK
  <2> QED
      BY <1>1, <2>4, <2>5 DEF Earned, PacketsOf
<1> QED
    BY <1>2, <1>3

(* "OK" in the row of a run (client_b.py:43-49) means that the broker has  *)
(* taken all of that run's messages, if no message of the run or of a later *)
(* one overtook earlier ones, for every set of files each of which ends in *)
(* a chunk of its own.                                                     *)
THEOREM OkIsWholeRun ==
    ASSUME LastChunkDistinct
    PROVE  TransferSpec => []OkMeansWholeRun
<1> DEFINE EarnedInv == TransferInv /\ (faults = 0 => Earned)
<1>1. TransferInit => EarnedInv
    BY InitTransferInv, EmptySeq DEF TransferInit, Init, Earned
<1>2. EarnedInv /\ [TransferNext]_tvars => EarnedInv'
  <2>1. ASSUME TransferInv, [TransferNext]_tvars, faults' = 0 PROVE faults = 0
      BY <2>1, FaultsGrow DEF TransferInv
  <2> QED
      BY <2>1, NextTransferInv, EarnedKeeps DEF TransferInv
<1>3. EarnedInv => OkMeansWholeRun
  <2> SUFFICES ASSUME EarnedInv, faults = 0, NEW j \in Reportable, NEW i \in RowsOf(j),
                      rows[i].integrity_ok, Straight(j)
               PROVE  PacketsOf(j) \subseteq accepted
      BY DEF OkMeansWholeRun, Straight
  <2>1. /\ j \in Jobs /\ i \in 1 .. Len(rows)
        /\ rows[i].file = JobFile(j) /\ rows[i].qos = JobQos(j)
      BY LenProperties DEF Reportable, RowsOf, TransferInv, Flow, IInv, TypeOK
  <2>2. PICK r \in Jobs : /\ rows[i].file = JobFile(r) /\ rows[i].qos = JobQos(r)
                          /\ Straight(r) => PacketsOf(r) \subseteq accepted
      BY <2>1 DEF Earned
  <2> QED
      BY <2>1, <2>2, JobsDistinct
<1> QED
    BY <1>1, <1>2, <1>3, PTL DEF TransferSpec

-----------------------------------------------------------------------------
(* Runs that nothing disturbs.  Their packets are once each and in order   *)
(* with the receiver, in its queue, on the wire, or not sent yet.          *)

(* Of run j the queue q has the messages after lo and up to hi.            *)
Span(q, j, lo, hi) ==
    /\ \A i \in 1 .. Len(q) : q[i].job = j => q[i].mid \in lo + 1 .. hi
    /\ \A m \in lo + 1 .. hi : \E i \in 1 .. Len(q) : q[i].job = j /\ q[i].mid = m
    /\ \A i, k \in 1 .. Len(q) :
          i < k /\ q[i].job = j /\ q[k].job = j => q[i].mid < q[k].mid

(* Two queues with the same packets of run j in the same places.           *)
SameOf(q, r, j) ==
    /\ \A i \in 1 .. Len(q) : q[i].job = j => i \in 1 .. Len(r) /\ r[i] = q[i]
    /\ \A i \in 1 .. Len(r) : r[i].job = j => i \in 1 .. Len(q) /\ r[i] = q[i]

LEMMA SpanSame ==
    ASSUME NEW q, NEW r, NEW j, NEW lo, NEW hi, Span(q, j, lo, hi), SameOf(q, r, j)
    PROVE  Span(r, j, lo, hi)
  BY DEF Span, SameOf

LEMMA SpanEmpty ==
    ASSUME NEW j, NEW lo \in Nat
    PROVE  Span(<<>>, j, lo, lo)
<1>1. Len(<<>>) = 0
    BY EmptySeq
<1> QED
    BY <1>1 DEF Span

LEMMA SpanNothing ==
    ASSUME NEW q, NEW j, NEW lo \in Nat, NEW hi \in Nat, lo <= hi,
           Span(q, j, lo, hi), \A i \in 1 .. Len(q) : q[i].job # j
    PROVE  lo = hi
<1> SUFFICES ASSUME lo # hi PROVE FALSE
    OBVIOUS
<1>1. hi \in lo + 1 .. hi
    OBVIOUS
<1> QED
    BY <1>1 DEF Span

LEMMA SpanAppend ==
    ASSUME NEW q \in Seq(PacketType), NEW p \in PacketType,
           NEW lo \in Nat, NEW hi \in Nat, lo <= hi, p.mid = hi + 1,
           Span(q, p.job, lo, hi)
    PROVE  Span(Append(q, p), p.job, lo, hi + 1)
<1> DEFINE r == Append(q, p)
<1>1. /\ Len(q) \in Nat /\ Len(r) = Len(q) + 1
      /\ \A i \in 1 .. Len(q) : r[i] = q[i]
      /\ r[Len(q) + 1] = p
    BY InboxAppend
<1> HIDE DEF r
<1>2. ASSUME NEW i \in 1 .. Len(r), r[i].job = p.job
      PROVE  r[i].mid \in lo + 1 .. hi + 1
    BY <1>1, <1>2 DEF Span
<1>3. ASSUME NEW m \in lo + 1 .. hi + 1
      PROVE  \E i \in 1 .. Len(r) : r[i].job = p.job /\ r[i].mid = m
  <2>1. CASE m = hi + 1
      BY <1>1, <2>1
  <2>2. CASE m # hi + 1
    <3>1. m \in lo + 1 .. hi
        BY <2>2
    <3>2. PICK i \in 1 .. Len(q) : q[i].job = p.job /\ q[i].mid = m
        BY <3>1 DEF Span
    <3> QED
        BY <1>1, <3>2
  <2> QED
      BY <2>1, <2>2
<1>4. ASSUME NEW i \in 1 .. Len(r), NEW k \in 1 .. Len(r), i < k,
             r[i].job = p.job, r[k].job = p.job
      PROVE  r[i].mid < r[k].mid
  <2>1. i \in 1 .. Len(q) /\ r[i] = q[i] /\ q[i].mid \in lo + 1 .. hi
      BY <1>1, <1>4 DEF Span
  <2>2. CASE k \in 1 .. Len(q)
      BY <1>1, <1>4, <2>1, <2>2 DEF Span
  <2>3. CASE k = Len(q) + 1
      BY <1>1, <2>1, <2>3
  <2> QED
      BY <1>1, <2>2, <2>3
<1> QED
    BY <1>2, <1>3, <1>4 DEF Span, r

(* The head of a queue, if it is of run j, is j's next message.            *)
LEMMA SpanTail ==
    ASSUME NEW q, NEW r, NEW j, NEW lo \in Nat, NEW hi \in Nat, lo <= hi,
           Span(q, j, lo, hi), Len(q) \in Nat \ {0}, Len(r) = Len(q) - 1,
           \A i \in 1 .. Len(r) : r[i] = q[i + 1] /\ i + 1 \in 1 .. Len(q)
    PROVE  /\ q[1].job = j => /\ q[1].mid = lo + 1 /\ lo + 1 <= hi
                              /\ Span(r, j, lo + 1, hi)
           /\ q[1].job # j => Span(r, j, lo, hi)
<1>1. ASSUME NEW k \in 1 .. Len(q), k # 1
      PROVE  \E i \in 1 .. Len(r) : i + 1 = k /\ r[i] = q[k]
  <2>1. k - 1 \in 1 .. Len(r) /\ (k - 1) + 1 = k
      BY <1>1
  <2> QED
      BY <2>1
<1>2. \A i, k \in 1 .. Len(r) : i < k /\ r[i].job = j /\ r[k].job = j =>
          r[i].mid < r[k].mid
  <2> SUFFICES ASSUME NEW i \in 1 .. Len(r), NEW k \in 1 .. Len(r), i < k,
                      r[i].job = j, r[k].job = j
               PROVE  r[i].mid < r[k].mid
      OBVIOUS
  <2>1. /\ i + 1 \in 1 .. Len(q) /\ k + 1 \in 1 .. Len(q)
        /\ r[i] = q[i + 1] /\ r[k] = q[k + 1]
      OBVIOUS
  <2>2. i \in Nat /\ k \in Nat
      OBVIOUS
  <2>3. i + 1 < k + 1
      BY <2>2
  <2> QED
      BY <2>1, <2>3 DEF Span
<1>3. CASE q[1].job = j
  <2>1. 1 \in 1 .. Len(q) /\ q[1].mid \in lo + 1 .. hi
      BY <1>3 DEF Span
  <2>2. q[1].mid = lo + 1
    <3>1. PICK k \in 1 .. Len(q) : q[k].job = j /\ q[k].mid = lo + 1
        BY <2>1 DEF Span
    <3>2. k # 1 => q[1].mid < q[k].mid
        BY <1>3, <2>1, <3>1 DEF Span
    <3> QED
        BY <2>1, <3>1, <3>2
  <2>3. ASSUME NEW i \in 1 .. Len(r), r[i].job = j
        PROVE  r[i].mid \in lo + 2 .. hi
    <3>1. /\ i + 1 \in 1 .. Len(q) /\ r[i] = q[i + 1] /\ 1 < i + 1
        OBVIOUS
    <3>2. q[1].mid < q[i + 1].mid /\ q[i + 1].mid \in lo + 1 .. hi
        BY <1>3, <2>1, <2>3, <3>1 DEF Span
    <3> QED
        BY <2>2, <3>1, <3>2
  <2>4. ASSUME NEW m \in lo + 2 .. hi
        PROVE  \E i \in 1 .. Len(r) : r[i].job = j /\ r[i].mid = m
    <3>1. m \in lo + 1 .. hi /\ m # lo + 1
        OBVIOUS
    <3>2. PICK k \in 1 .. Len(q) : q[k].job = j /\ q[k].mid = m
        BY <3>1 DEF Span
    <3>3. k # 1
        BY <2>2, <3>1, <3>2
    <3> QED
        BY <1>1, <3>2, <3>3
  <2>5. (lo + 1) + 1 = lo + 2
      OBVIOUS
  <2> QED
      BY <1>2, <1>3, <2>1, <2>2, <2>3, <2>4, <2>5 DEF Span
<1>4. CASE q[1].job # j
  <2>1. \A m \in lo + 1 .. hi : \E i \in 1 .. Len(r) : r[i].job = j /\ r[i].mid = m
    <3> SUFFICES ASSUME NEW m \in lo + 1 .. hi
                 PROVE  \E i \in 1 .. Len(r) : r[i].job = j /\ r[i].mid = m
        OBVIOUS
    <3>1. PICK k \in 1 .. Len(q) : q[k].job = j /\ q[k].mid = m
        BY DEF Span
    <3> QED
        BY <1>1, <1>4, <3>1
  <2>2. \A i \in 1 .. Len(r) : r[i].job = j => r[i].mid \in lo + 1 .. hi
      BY DEF Span
  <2> QED
      BY <1>2, <1>4, <2>1, <2>2 DEF Span
<1> QED
    BY <1>3, <1>4

(* The id of the last message run j has sent, with no connection lost.     *)
Whole(j) == Len(Content[JobFile(j)]) + 1
Sent(j) == IF j < job THEN Whole(j) ELSE IF j = job /\ Running THEN last_mid ELSE 0

(* The receiver is at run j. *)
Open(j) == current_file_handle = JobFile(j) /\ current_qos = JobQos(j)

(* The broker has the messages of run j up to a, and the receiver those up *)
(* to d.                                                                   *)
OnWay(j, d, a) ==
    /\ d <= a /\ a <= Sent(j)
    /\ \A m \in Nat : <<j, m>> \in accepted <=> m \in 1 .. a
    /\ Span(inbox, j, d, a)
    /\ Span(wire, j, a, Sent(j))

(* What the receiver has done with the first d messages of run j.          *)
Reached(j, d) ==
    /\ Open(j) <=> d \in 1 .. Len(Content[JobFile(j)])
    /\ Open(j) => Output = SubSeq(Content[JobFile(j)], 1, d - 1)
    /\ d <= Len(Content[JobFile(j)]) => RowsOf(j) = {}
    /\ d = Whole(j) =>
          \E i \in 1 .. Len(rows) :
              /\ RowsOf(j) = {i}
              /\ ~Small(Last(Content[JobFile(j)])) => rows[i].integrity_ok
    /\ d > 0 => \A i \in 1 .. Len(inbox) : j <= inbox[i].job

Progress(j) == \E d, a \in Nat : OnWay(j, d, a) /\ Reached(j, d)

(* The runs nothing disturbed. *)
Undisturbed == Reportable \ (lost \cup resent)

(* A run without a connection, or that waits for a CONNACK, is one that    *)
(* lost its connection, and so are those that overtook themselves.         *)
Linked ==
    /\ pc = "failed" \/ (Running /\ ~Up) => job \in resent
    /\ overtaken \subseteq resent

(* What the facts about a run are made of.                                 *)
LEMMA RunFacts ==
    ASSUME Flow, NEW j \in Jobs
    PROVE  /\ JobFile(j) \in File /\ Content[JobFile(j)] \in Seq(Chunk)
           /\ Len(Content[JobFile(j)]) \in Nat /\ Whole(j) \in Nat \ {0}
           /\ j \in Nat \ {0} /\ job \in Nat \ {0}
           /\ Sent(j) \in Nat /\ Sent(j) <= Whole(j)
           /\ j > job => Sent(j) = 0
           /\ JobFile(j) # None
<1>1. /\ JobFile(j) \in File /\ j \in Nat \ {0} /\ Content[JobFile(j)] \in Seq(Chunk)
      /\ Len(Content[JobFile(j)]) \in Nat
    BY JobsNumbered, ContentTyped
<1>2. job \in Nat \ {0} /\ last_mid \in Nat /\ chunk_num \in Nat
    BY QueuesTyped DEF Flow, SenderInv, SenderTyped
<1>3. Running /\ j = job => last_mid <= Whole(j)
    BY <1>1, <1>2
    DEF Flow, SenderInv, Phases, Running, Whole, total_chunks, filename
<1> QED
    BY <1>1, <1>2, <1>3, NoneAssumption DEF Sent, Whole

(* A packet of another run may join a queue, and all that follows a run's  *)
(* packets may be cut off.                                                 *)
LEMMA SameAppend ==
    ASSUME NEW q \in Seq(PacketType), NEW p \in PacketType, NEW j, p.job # j
    PROVE  SameOf(q, Append(q, p), j)
  BY InboxAppend DEF SameOf

LEMMA SameItself ==
    ASSUME NEW q, NEW j
    PROVE  SameOf(q, q, j)
  BY DEF SameOf

LEMMA SameEarlierRuns ==
    ASSUME SenderInv, NEW j, j # job
    PROVE  SameOf(wire, EarlierRuns, j)
<1>1. /\ wire \in Seq(PacketType) /\ Len(wire) \in Nat /\ job \in Nat
      /\ \A i \in 1 .. Len(wire) : wire[i].job \in Nat /\ wire[i].job <= job
      /\ \A i, k \in 1 .. Len(wire) : i <= k => wire[i].job <= wire[k].job
    BY QueuesTyped DEF SenderInv, SenderTyped, Queued
<1>2. PICK n \in 0 .. Len(wire) :
          /\ EarlierRuns = SubSeq(wire, 1, n)
          /\ n < Len(wire) => wire[n + 1].job = job
    BY <1>1, EarlierRunsPlace
<1>3. /\ Len(EarlierRuns) = n
      /\ \A i \in 1 .. n : EarlierRuns[i] = wire[i]
    BY <1>1, <1>2, PacketFacts, SubSeqProperties
<1>4. ASSUME NEW i \in 1 .. Len(wire), wire[i].job = j PROVE i \in 1 .. n
  <2>1. n + 1 <= i => n + 1 \in 1 .. Len(wire) /\ n < Len(wire)
      BY <1>1
  <2>2. n + 1 <= i => wire[i].job = job
      BY <1>1, <1>2, <2>1
  <2> QED
      BY <1>1, <1>4, <2>2
<1>5. \A i \in 1 .. n : i \in 1 .. Len(wire)
    BY <1>1
<1> QED
    BY <1>3, <1>4, <1>5 DEF SameOf

LEMMA SameResent ==
    ASSUME SenderInv, NEW n \in 0 .. Len(out_messages), NEW j, j # job
    PROVE  SameOf(wire, wire \o SubSeq(out_messages, 1, n), j)
<1> DEFINE s == SubSeq(out_messages, 1, n)
           r == wire \o s
<1>1. /\ wire \in Seq(PacketType) /\ Len(wire) \in Nat /\ Len(out_messages) \in Nat
      /\ \A i \in 1 .. Len(out_messages) :
            out_messages[i] \in PacketType /\ out_messages[i].job = job
    BY QueuesTyped DEF SenderInv, SenderTyped, Owned
<1>5. /\ s \in Seq(PacketType) /\ Len(s) = n
      /\ \A i \in 1 .. n : s[i] = out_messages[i] /\ i \in 1 .. Len(out_messages)
    BY <1>1, SubSeqProperties
<1> HIDE DEF s
<1>2. /\ Len(r) = Len(wire) + Len(s)
      /\ \A i \in 1 .. Len(wire) + Len(s) :
            r[i] = IF i <= Len(wire) THEN wire[i] ELSE s[i - Len(wire)]
    BY <1>1, <1>5, ConcatProperties
<1> HIDE DEF r
<1>3. ASSUME NEW i \in 1 .. Len(r), r[i].job = j PROVE i \in 1 .. Len(wire)
  <2>1. ~(i <= Len(wire)) => i - Len(wire) \in 1 .. n
      BY <1>1, <1>2, <1>5
  <2>2. ~(i <= Len(wire)) => r[i].job = job
      BY <1>1, <1>2, <1>5, <2>1
  <2> QED
      BY <1>1, <1>3, <2>2
<1>4. \A i \in 1 .. Len(wire) : i \in 1 .. Len(r) /\ r[i] = wire[i]
    BY <1>1, <1>2, <1>5
<1> QED
    BY <1>3, <1>4 DEF SameOf, r, s

(* Of a run that nothing disturbs, a step of the sender puts on the wire   *)
(* the next message or nothing.                                            *)
LEMMA SenderMovesSpan ==
    ASSUME Flow, Linked, SenderMoves, NEW j \in Reportable,
           j \notin lost', j \notin resent', NEW a \in Nat, a <= Sent(j),
           Span(wire, j, a, Sent(j))
    PROVE  a <= Sent(j)' /\ Span(wire', j, a, Sent(j)')
<1> USE DEF globals, main, client, network, past
<1>1. /\ MainStep \/ OnPublish \/ Disconnect \/ OpenSocket \/ ConnAck
      /\ job' # job /\ wire' # wire => job \in lost'
      /\ disconnects' # disconnects => job \in resent'
      /\ j \notin lost /\ j \notin resent
    BY DEF SenderMoves
<1>2. /\ SenderInv /\ job \in Nat /\ last_mid \in Nat /\ chunk_num \in Nat
      /\ wire \in Seq(PacketType) /\ disconnects \in Nat
    BY QueuesTyped DEF Flow, SenderInv, SenderTyped
<1>3. j \in Jobs /\ j \in Nat /\ JobFile(j) \notin Missing /\ Sent(j) \in Nat
    BY RunFacts DEF Reportable
<1>4. CASE Sent(j)' = Sent(j) /\ SameOf(wire, wire', j)
    BY <1>4, SpanSame
<1>5. CASE wire' = wire /\ Sent(j)' = Sent(j)
    BY <1>4, <1>5, SameItself
<1>6. ASSUME job' = job, Running = Running', j # job \/ last_mid' = last_mid
      PROVE  Sent(j)' = Sent(j)
    BY <1>6 DEF Sent, Whole
<1>7. ASSUME Running, ~Up PROVE j # job
    BY <1>1, <1>7 DEF Linked
<1>8. ASSUME NEW body, Publish(body), connected, j = job, Running, Running',
             job' = job, body \in Message
      PROVE  a <= Sent(j)' /\ Span(wire', j, a, Sent(j)')
  <2> DEFINE packet == Packet(job, last_mid + 1, body)
  <2>1. packet \in PacketType /\ packet.job = j /\ packet.mid = last_mid + 1
      BY <1>2, <1>3, <1>8 DEF Packet, PacketType
  <2>2. wire' = Append(wire, packet) /\ last_mid' = last_mid + 1
      BY <1>8 DEF Publish
  <2>3. Sent(j) = last_mid /\ Sent(j)' = last_mid + 1
      BY <1>2, <1>8, <2>2 DEF Sent
  <2> HIDE DEF packet
  <2> QED
      BY <1>2, <2>1, <2>2, <2>3, SpanAppend
<1>9. ASSUME NEW body, Publish(body), j # job, body \in Message, job \in Jobs
      PROVE  SameOf(wire, wire', j)
  <2> DEFINE packet == Packet(job, last_mid + 1, body)
  <2>1. packet \in PacketType /\ packet.job # j
      BY <1>2, <1>9 DEF Packet, PacketType
  <2>2. wire' = wire \/ wire' = Append(wire, packet)
      BY <1>9 DEF Publish
  <2> HIDE DEF packet
  <2> QED
      BY <1>2, <2>1, <2>2, SameAppend, SameItself
<1>10. CASE Launch
  <2>1. /\ wire' = wire /\ job' = job /\ last_mid' = 0 /\ ~Running
      BY <1>10 DEF Launch, make_client, Running
  <2>2. Sent(j)' = Sent(j)
      BY <2>1 DEF Sent, Whole
  <2> QED
      BY <1>5, <2>1, <2>2
<1>11. CASE LaunchMissing
  <2>1. /\ wire' = wire /\ job' = job + 1 /\ ~Running /\ ~Running' /\ j # job
      BY <1>3, <1>11 DEF LaunchMissing, filename, Running
  <2>2. Sent(j)' = Sent(j)
      BY <1>2, <1>3, <2>1 DEF Sent, Whole
  <2> QED
      BY <1>5, <2>1, <2>2
<1>12. CASE LaunchFails
  <2>1. /\ wire' = wire /\ job' = job /\ ~Running /\ ~Running'
      BY <1>12 DEF LaunchFails, Running
  <2>2. Sent(j)' = Sent(j)
      BY <2>1 DEF Sent, Whole
  <2> QED
      BY <1>5, <2>1, <2>2
<1>13. CASE AssignMid \/ AckSeen \/ AckTimeout \/ PublishWaited \/ PublishTimeout
  <2>1. /\ wire' = wire /\ job' = job /\ last_mid' = last_mid /\ Running /\ Running'
      BY <1>13
      DEF AssignMid, AckSeen, AckTimeout, PublishWaited, PublishTimeout, Running
  <2> QED
      BY <1>5, <1>6, <2>1
<1>14. CASE OnPublish
  <2>1. /\ wire' = wire /\ job' = job /\ last_mid' = last_mid /\ pc' = pc
      BY <1>14 DEF OnPublish
  <2> QED
      BY <1>5, <1>6, <2>1 DEF Running
<1>15. CASE PublishMetadata
  <2>1. /\ Publish(Metadata(filename, qos_level)) /\ Running /\ Running' /\ job' = job
      BY <1>15 DEF PublishMetadata, Running
  <2>2. job \in Jobs /\ Metadata(filename, qos_level) \in Message
    <3>1. job \in Jobs
        BY <1>2, <2>1 DEF SenderInv, Phases
    <3>2. filename \in File /\ qos_level \in Qos
        BY <3>1, JobsNumbered, QosAssumption DEF filename, qos_level, Levels
    <3> QED
        BY <3>1, <3>2 DEF Message
  <2>3. CASE j = job
      BY <1>7, <1>8, <2>1, <2>2, <2>3 DEF Up
  <2>4. CASE j # job
      BY <1>4, <1>6, <1>9, <2>1, <2>2, <2>4
  <2> QED
      BY <2>3, <2>4
<1>16. CASE PublishChunk
  <2> DEFINE c == Content[filename][chunk_num + 1]
  <2>1. /\ Publish(ChunkMessage(c)) /\ Running /\ Running' /\ job' = job /\ connected
        /\ chunk_num < total_chunks
      BY <1>16 DEF PublishChunk, Running
  <2>2. job \in Jobs /\ ChunkMessage(c) \in Message
    <3>1. job \in Jobs
        BY <1>2, <2>1 DEF SenderInv, Phases
    <3>2. Content[filename] \in Seq(Chunk) /\ total_chunks = Len(Content[filename])
        BY <3>1, RunFacts DEF filename, total_chunks
    <3>3. chunk_num + 1 \in 1 .. Len(Content[filename])
        BY <1>2, <2>1, <3>2, LenProperties
    <3> QED
        BY <3>1, <3>2, <3>3, ElementOfSeq DEF Message
  <2> HIDE DEF c
  <2>3. CASE j = job
      BY <1>8, <2>1, <2>2, <2>3
  <2>4. CASE j # job
      BY <1>4, <1>6, <1>9, <2>1, <2>2, <2>4
  <2> QED
      BY <2>3, <2>4
<1>17. CASE PublishChunkFails
  <2>1. /\ wire' = wire /\ job' = job /\ Running /\ ~connected
      BY <1>17 DEF PublishChunkFails, Running
  <2>2. Sent(j)' = Sent(j)
      BY <1>7, <2>1 DEF Sent, Whole, Up
  <2> QED
      BY <1>5, <2>1, <2>2
<1>18. CASE Finish
  <2>1. /\ job' = job + 1 /\ ~Running' /\ Running /\ pc = "chunks"
        /\ chunk_num = total_chunks /\ wire' \in {wire, EarlierRuns}
      BY <1>18 DEF Finish, Running
  <2>2. CASE j = job
    <3>1. wire' = wire
        BY <1>1, <1>2, <2>1, <2>2, j \notin lost'
    <3>2. last_mid = Whole(j)
      <4>1. last_mid = chunk_num + 1 /\ total_chunks = Len(Content[JobFile(job)])
          BY <1>2, <2>1 DEF SenderInv, Phases, total_chunks, filename
      <4> QED
          BY <2>1, <2>2, <4>1 DEF Whole
    <3>3. Sent(j)' = Sent(j)
        BY <1>2, <2>1, <2>2, <3>2 DEF Sent, Whole
    <3> QED
        BY <1>5, <3>1, <3>3
  <2>3. CASE j # job
    <3>1. SameOf(wire, wire', j)
        BY <1>2, <2>1, <2>3, SameItself, SameEarlierRuns
    <3>2. Sent(j)' = Sent(j)
        BY <1>2, <1>3, <2>1, <2>3 DEF Sent, Whole
    <3> QED
        BY <1>4, <3>1, <3>2
  <2> QED
      BY <2>2, <2>3
<1>19. CASE Disconnect
  <2>1. /\ wire' = EarlierRuns /\ job' = job /\ last_mid' = last_mid /\ pc' = pc
        /\ disconnects' = disconnects + 1
      BY <1>19 DEF Disconnect
  <2>2. j # job
      BY <1>1, <1>2, <2>1
  <2> QED
      BY <1>2, <1>4, <1>6, <2>1, <2>2, SameEarlierRuns DEF Running
<1>20. CASE OpenSocket
  <2>1. /\ wire' = wire /\ job' = job /\ last_mid' = last_mid /\ pc' = pc
      BY <1>20 DEF OpenSocket
  <2> QED
      BY <1>5, <1>6, <2>1 DEF Running
<1>21. CASE ConnAck
  <2>1. /\ wire' = wire \o SubSeq(out_messages, 1, unsent)
        /\ job' = job /\ last_mid' = last_mid /\ pc' = pc /\ Running /\ unsent > 0
      BY <1>21 DEF ConnAck
  <2>2. j # job /\ unsent \in 0 .. Len(out_messages)
      BY <1>2, <1>7, <2>1 DEF SenderInv, SenderTyped, Up
  <2>3. SameOf(wire, wire', j)
      BY <1>2, <2>1, <2>2, SameResent
  <2> QED
      BY <1>4, <1>6, <2>1, <2>3 DEF Running
<1> QED
    BY <1>1, <1>10, <1>11, <1>12, <1>13, <1>14, <1>15, <1>16, <1>17, <1>18, <1>19,
       <1>20, <1>21 DEF MainStep

(* A run is where it was if a step leaves the receiver and its queue alone. *)
LEMMA ReachedSame ==
    ASSUME NEW j, NEW d, Reached(j, d), inbox' = inbox, rows' = rows,
           Open(j)' <=> Open(j), Open(j) => Output' = Output
    PROVE  Reached(j, d)'
  BY DEF Reached, RowsOf, Whole

LEMMA SenderMovesProgress ==
    ASSUME Flow, Linked, SenderMoves, NEW j \in Reportable,
           j \notin lost', j \notin resent', Progress(j)
    PROVE  Progress(j)'
<1>1. PICK d, a \in Nat : OnWay(j, d, a) /\ Reached(j, d)
    BY DEF Progress
<1>2. /\ inbox' = inbox /\ accepted' = accepted
      /\ UNCHANGED <<current_file_handle, current_qos, disk, buffer, rows>>
    BY SenderMovesFacts DEF SenderMoves, vars, transfer, Flow
<1>3. Reached(j, d)'
    BY <1>1, <1>2, ReachedSame DEF Open, Output
<1>4. OnWay(j, d, a)'
    BY <1>1, <1>2, SenderMovesSpan DEF OnWay
<1> QED
    BY <1>3, <1>4 DEF Progress

(* The broker takes the message that is next in its run.                   *)
LEMMA BrokerRoutesProgress ==
    ASSUME Flow, BrokerRoutes, NEW j \in Reportable, j \notin lost', Progress(j)
    PROVE  Progress(j)'
<1>1. PICK d, a \in Nat : OnWay(j, d, a) /\ Reached(j, d)
    BY DEF Progress
<1> DEFINE p == Head(wire)
<1>2. /\ p = wire[1] /\ p \in PacketType /\ 1 \in 1 .. Len(wire)
      /\ Len(wire) \in Nat \ {0} /\ Len(wire') = Len(wire) - 1
      /\ \A i \in 1 .. Len(wire') : wire'[i] = wire[i + 1] /\ i + 1 \in 1 .. Len(wire)
      /\ accepted' = accepted \cup {<<p.job, p.mid>>}
      /\ UNCHANGED <<job, pc, last_mid>>
    BY BrokerAcceptFacts DEF BrokerRoutes, Flow
<1>3. /\ inbox' = Append(inbox, p) \/ (inbox' = inbox /\ p.job \in lost')
      /\ UNCHANGED <<current_file_handle, current_qos, disk, buffer, rows>>
    BY DEF BrokerRoutes, vars, transfer
<1>4. /\ j \in Jobs /\ j \in Nat /\ Sent(j) \in Nat
      /\ inbox \in Seq(PacketType) /\ Len(inbox) \in Nat
      /\ Whole(j) \in Nat
    BY RunFacts, PacketFacts DEF Reportable, Flow, TransferTyped
<1>5. Sent(j)' = Sent(j)
    BY <1>2 DEF Sent, Running, Whole
<1> HIDE DEF p
<1>6. /\ p.job = j => /\ p.mid = a + 1 /\ a + 1 <= Sent(j)
                      /\ Span(wire', j, a + 1, Sent(j))
      /\ p.job # j => Span(wire', j, a, Sent(j))
    BY <1>1, <1>2, <1>4, SpanTail DEF OnWay
<1>7. p.job \in Nat /\ p.mid \in Nat \ {0}
    BY <1>2, JobsNumbered DEF PacketType
<1>8. CASE p.job = j
  <2>1. inbox' = Append(inbox, p)
      BY <1>3, <1>8
  <2>2. Span(inbox', j, d, a + 1)
      BY <1>1, <1>2, <1>4, <1>6, <1>8, <2>1, SpanAppend DEF OnWay
  <2>3. \A m \in Nat : <<j, m>> \in accepted' <=> m \in 1 .. a + 1
    <3> SUFFICES ASSUME NEW m \in Nat
                 PROVE  <<j, m>> \in accepted' <=> m \in 1 .. a + 1
        OBVIOUS
    <3>1. <<j, m>> \in accepted' <=> <<j, m>> \in accepted \/ m = a + 1
        BY <1>2, <1>6, <1>8
    <3> QED
        BY <1>1, <3>1 DEF OnWay
  <2>4. OnWay(j, d, a + 1)'
      BY <1>1, <1>5, <1>6, <1>8, <2>2, <2>3 DEF OnWay
  <2>5. \A i \in 1 .. Len(inbox') : \/ i \in 1 .. Len(inbox) /\ inbox'[i] = inbox[i]
                                    \/ inbox'[i] = p
      BY <1>2, <1>4, <2>1, InboxAppend
  <2>6. d > 0 => \A i \in 1 .. Len(inbox') : j <= inbox'[i].job
      BY <1>1, <1>4, <1>8, <2>5 DEF Reached
  <2>7. Reached(j, d)'
      BY <1>1, <1>3, <2>6 DEF Reached, RowsOf, Open, Output, Whole
  <2> QED
      BY <2>4, <2>7 DEF Progress
<1>9. CASE p.job # j
  <2>1. SameOf(inbox, inbox', j)
      BY <1>2, <1>3, <1>4, <1>9, SameAppend, SameItself
  <2>2. Span(inbox', j, d, a)
      BY <1>1, <2>1, SpanSame DEF OnWay
  <2>3. \A m \in Nat : <<j, m>> \in accepted' <=> <<j, m>> \in accepted
      BY <1>2, <1>9
  <2>4. OnWay(j, d, a)'
      BY <1>1, <1>5, <1>6, <1>9, <2>2, <2>3 DEF OnWay
  <2>5. \A i \in 1 .. Len(inbox') : \/ i \in 1 .. Len(inbox) /\ inbox'[i] = inbox[i]
                                    \/ inbox'[i] = p
    <3>1. CASE inbox' = Append(inbox, p)
        BY <1>2, <1>4, <3>1, InboxAppend
    <3>2. CASE inbox' = inbox
        BY <3>2
    <3> QED
        BY <1>3, <3>1, <3>2
  <2>6. d > 0 => j <= p.job
    <3>1. d > 0 => <<j, 1>> \in accepted
        BY <1>1 DEF OnWay
    <3>2. <<j, 1>>[1] = j
        OBVIOUS
    <3> QED
        BY <1>2, <3>1, <3>2 DEF Flow, InOrder
  <2>7. d > 0 => \A i \in 1 .. Len(inbox') : j <= inbox'[i].job
      BY <1>1, <2>5, <2>6 DEF Reached
  <2>8. Reached(j, d)'
      BY <1>1, <1>3, <2>7 DEF Reached, RowsOf, Open, Output, Whole
  <2> QED
      BY <2>4, <2>8 DEF Progress
<1> QED
    BY <1>8, <1>9

(* When a message of a later run is next, nothing of a run is on its way.  *)
LEMMA LaterRun ==
    ASSUME Flow, NEW j \in Jobs, Len(inbox) \in Nat \ {0}, j < inbox[1].job
    PROVE  /\ j < job
           /\ \A i \in 1 .. Len(wire) : wire[i].job # j
           /\ \A i \in 1 .. Len(inbox) : inbox[i].job # j
<1> DEFINE k == inbox[1].job
<1>1. /\ 1 \in 1 .. Len(inbox) /\ inbox \in Seq(PacketType)
      /\ \A i \in 1 .. Len(inbox) : 1 <= i /\ inbox[i].job \in Nat
    BY PacketFacts DEF Flow, TransferTyped
<1>2. <<k, inbox[1].mid>> \in accepted /\ <<k, inbox[1].mid>>[1] = k /\ k \in Nat
    BY <1>1 DEF Flow, Carried
<1>3. j \in Nat /\ job \in Nat
    BY RunFacts
<1>4. \A i \in 1 .. Len(wire) : wire[i].job \in Nat
    BY QueuesTyped DEF Flow, SenderInv
<1>5. \A i \in 1 .. Len(wire) : k <= wire[i].job
    BY <1>2 DEF Flow, InOrder
<1>6. \A i \in 1 .. Len(inbox) : k <= inbox[i].job
    BY <1>1 DEF Flow, InOrder
<1>7. k <= job
    BY <1>2 DEF Flow, InOrder
<1> HIDE DEF k
<1>8. j < k
    BY DEF k
<1>9. \A i \in 1 .. Len(wire) : wire[i].job # j
    BY <1>2, <1>3, <1>4, <1>5, <1>8
<1>10. ASSUME NEW i \in 1 .. Len(inbox) PROVE inbox[i].job # j
  <2>1. k <= inbox[i].job /\ inbox[i].job \in Nat
      BY <1>1, <1>6
  <2> QED
      BY <1>2, <1>3, <1>8, <2>1
<1> QED
    BY <1>2, <1>3, <1>7, <1>8, <1>9, <1>10

(* It is all sent and received, if nothing disturbed it.                   *)
LEMMA LaterRunWaits ==
    ASSUME Flow, NEW j \in Jobs, NEW d \in Nat, NEW a \in Nat, OnWay(j, d, a),
           Len(inbox) \in Nat \ {0}, j < inbox[1].job
    PROVE  d = Whole(j) /\ a = Whole(j)
<1>1. /\ Sent(j) \in Nat /\ Sent(j) = Whole(j)
    BY LaterRun, RunFacts DEF Sent
<1>2. a = Sent(j)
    BY <1>1, LaterRun, SpanNothing DEF OnWay
<1>3. d = a
    BY LaterRun, SpanNothing DEF OnWay
<1> QED
    BY <1>1, <1>2, <1>3

(* While the receiver is at a run, that run's messages are next.           *)
LEMMA OnlyItself ==
    ASSUME Flow, NEW j \in Jobs, NEW d \in Nat, NEW a \in Nat, OnWay(j, d, a),
           Reached(j, d), Len(inbox) \in Nat \ {0},
           d \in 1 .. Len(Content[JobFile(j)])
    PROVE  inbox[1].job = j
<1>1. 1 \in 1 .. Len(inbox) /\ inbox[1].job \in Nat /\ j \in Nat
      /\ Len(Content[JobFile(j)]) \in Nat
    BY PacketFacts, RunFacts DEF Flow, TransferTyped
<1>2. j <= inbox[1].job
    BY <1>1 DEF Reached
<1>3. d # Whole(j)
    BY <1>1 DEF Whole
<1>4. ~(j < inbox[1].job)
    BY <1>3, LaterRunWaits
<1> QED
    BY <1>1, <1>2, <1>4

(* A run whose messages are all gone from the receiver's queue, and none   *)
(* of which was dropped.                                                   *)
LEMMA QueueGone ==
    ASSUME Flow, NEW j \in Jobs, NEW d \in Nat, NEW a \in Nat, OnWay(j, d, a),
           j \notin Waiting
    PROVE  d = a /\ Span(<<>>, j, d, d)
<1>1. \A i \in 1 .. Len(inbox) : inbox[i].job # j
    BY DEF Waiting
<1>2. d = a
    BY <1>1, SpanNothing DEF OnWay
<1> QED
    BY <1>2, SpanEmpty

(* The session ends, with the connection or with the process.              *)
LEMMA SessionEndsProgress ==
    ASSUME Flow, NEW j \in Reportable, j \notin Waiting, Progress(j),
           UNCHANGED svars, inbox' = <<>>, rows' = rows,
           \/ UNCHANGED <<current_file_handle, current_qos, disk, buffer>>
           \/ ~Open(j) /\ current_file_handle' = None
    PROVE  Progress(j)'
<1>1. PICK d, a \in Nat : OnWay(j, d, a) /\ Reached(j, d)
    BY DEF Progress
<1>2. j \in Jobs /\ JobFile(j) # None
    BY RunFacts DEF Reportable
<1>3. d = a /\ Span(inbox', j, d, a)
    BY <1>1, <1>2, QueueGone
<1>4. OnWay(j, d, a)'
  <2>1. UNCHANGED <<job, pc, last_mid, wire, accepted>>
      BY DEF svars, main, client, network, past
  <2>2. Sent(j)' = Sent(j)
      BY <2>1 DEF Sent, Running, Whole
  <2> QED
      BY <1>1, <1>3, <2>1, <2>2 DEF OnWay
<1>5. Len(inbox') = 0
    BY EmptySeq
<1>6. (Open(j)' <=> Open(j)) /\ (Open(j)' => Output' = Output)
    BY <1>2 DEF Open, Output
<1>7. Reached(j, d)'
    BY <1>1, <1>5, <1>6 DEF Reached, RowsOf, Whole
<1> QED
    BY <1>4, <1>7 DEF Progress

(* A beginning of a sequence, and the element that follows.                *)
LEMMA NextPrefix ==
    ASSUME NEW s \in Seq(Chunk), NEW d \in 1 .. Len(s)
    PROVE  /\ Len(SubSeq(s, 1, d - 1)) = d - 1
           /\ Append(SubSeq(s, 1, d - 1), s[d]) = SubSeq(s, 1, d)
<1>1. Len(s) \in Nat /\ \A i \in 1 .. Len(s) : s[i] \in Chunk
    BY LenProperties, ElementOfSeq
<1> DEFINE t == SubSeq(s, 1, d - 1)
           u == SubSeq(s, 1, d)
<1>2. /\ t \in Seq(Chunk) /\ Len(t) = d - 1
      /\ \A i \in 1 .. d - 1 : t[i] = s[i]
    BY <1>1, SubSeqProperties
<1>3. /\ u \in Seq(Chunk) /\ Len(u) = d
      /\ \A i \in 1 .. d : u[i] = s[i]
    BY <1>1, SubSeqProperties
<1> HIDE DEF t, u
<1> DEFINE v == Append(t, s[d])
<1>4. /\ v \in Seq(Chunk) /\ Len(v) = Len(t) + 1
      /\ \A i \in 1 .. Len(t) : v[i] = t[i]
      /\ v[Len(t) + 1] = s[d]
    BY <1>1, <1>2, AppendProperties
<1> HIDE DEF v
<1>5. Len(v) = Len(u)
    BY <1>2, <1>3, <1>4
<1>6. \A i \in 1 .. Len(v) : v[i] = u[i]
    BY <1>2, <1>3, <1>4
<1>7. v = u
    BY <1>3, <1>4, <1>5, <1>6, SeqEqual
<1> QED
    BY <1>2, <1>7 DEF t, u, v

(* The rows of a run when a row is added.                                  *)
LEMMA RowsOfAppend ==
    ASSUME rows \in Seq(Row), NEW row \in Row, rows' = Append(rows, row), NEW j
    PROVE  /\ Len(rows) \in Nat /\ Len(rows') = Len(rows) + 1
           /\ \A i \in 1 .. Len(rows) : rows'[i] = rows[i]
           /\ rows'[Len(rows) + 1] = row
           /\ RowsOf(j) \subseteq 1 .. Len(rows)
           /\ row.file = JobFile(j) /\ row.qos = JobQos(j) =>
                  RowsOf(j)' = RowsOf(j) \cup {Len(rows) + 1}
           /\ ~(row.file = JobFile(j) /\ row.qos = JobQos(j)) => RowsOf(j)' = RowsOf(j)
<1>1. /\ Len(rows) \in Nat /\ Len(rows') = Len(rows) + 1
      /\ DOMAIN rows = 1 .. Len(rows) /\ DOMAIN rows' = 1 .. Len(rows')
      /\ \A i \in 1 .. Len(rows) : rows'[i] = rows[i]
      /\ rows'[Len(rows) + 1] = row
    BY AppendProperties, LenProperties
<1> QED
    BY <1>1 DEF RowsOf

(* A message of another run is delivered: not while j's file is open.      *)
LEMMA DeliverOther ==
    ASSUME Flow, Deliver, alive', NEW j \in Reportable, inbox[1].job # j,
           NEW d \in Nat, NEW a \in Nat, OnWay(j, d, a), Reached(j, d)
    PROVE  Reached(j, d)'
<1>1. /\ Len(inbox) \in Nat \ {0} /\ inbox[1].job \in Jobs
      /\ \A i \in 1 .. Len(inbox') : inbox'[i] = inbox[i + 1] /\ i + 1 \in 1 .. Len(inbox)
    BY InboxTail
<1>2. j \in Jobs /\ JobFile(j) # None /\ Len(Content[JobFile(j)]) \in Nat
    BY RunFacts DEF Reportable
<1>3. d \notin 1 .. Len(Content[JobFile(j)]) /\ ~Open(j)
    BY <1>1, <1>2, OnlyItself DEF Reached
<1>4. ~Open(j)'
  <2>1. Opens(inbox[1].job) => ~Open(j)'
    <3>1. JobFile(inbox[1].job) # JobFile(j) \/ JobQos(inbox[1].job) # JobQos(j)
        BY <1>1, <1>2, JobsDistinct
    <3> QED
        BY <3>1 DEF Opens, Open
  <2>2. Takes(ChunkOf(inbox[1])) => ~Open(j)'
      BY <1>3 DEF Takes, Open
  <2>3. Completes(ChunkOf(inbox[1])) \/ Ignores => ~Open(j)'
      BY <1>2 DEF Completes, Ignores, Open
  <2> QED
      BY <2>1, <2>2, <2>3, DeliverOutcome DEF Dies
<1>5. d > 0 => \A i \in 1 .. Len(inbox') : j <= inbox'[i].job
    BY <1>1 DEF Reached
<1>6. CASE rows' = rows
    BY <1>3, <1>4, <1>5, <1>6 DEF Reached, RowsOf, Whole
<1>7. CASE rows' # rows
  <2>1. Completes(ChunkOf(inbox[1]))
      BY <1>7, DeliverOutcome DEF Opens, Dies, Takes, Ignores
  <2>2. PICK row \in Row : /\ rows' = Append(rows, row)
                           /\ row.file = current_file_handle /\ row.qos = current_qos
      BY <2>1 DEF Completes
  <2>3. /\ RowsOf(j)' = RowsOf(j) /\ Len(rows) \in Nat /\ Len(rows') = Len(rows) + 1
        /\ \A i \in 1 .. Len(rows) : rows'[i] = rows[i]
      BY <1>3, <2>2, RowsOfAppend DEF Open, Flow, IInv, TypeOK
  <2> QED
      BY <1>3, <1>4, <1>5, <2>3 DEF Reached, Whole
<1> QED
    BY <1>6, <1>7

(* A message of run j is delivered: it is j's next.                        *)
LEMMA DeliverOwn ==
    ASSUME Flow, Deliver, alive', NEW j \in Reportable, inbox[1].job = j,
           NEW d \in Nat, inbox[1].mid = d + 1, d < Whole(j), Reached(j, d)
    PROVE  Reached(j, d + 1)'
<1> DEFINE content == Content[JobFile(j)]
           n == Len(content)
           c == ChunkOf(inbox[1])
<1>1. /\ Len(inbox) \in Nat \ {0} /\ inbox \in Seq(PacketType)
      /\ \A i \in 1 .. Len(inbox') : inbox'[i] = inbox[i + 1] /\ i + 1 \in 1 .. Len(inbox)
    BY InboxTail DEF Flow, TransferTyped
<1>2. /\ j \in Jobs /\ j \in Nat /\ JobFile(j) # None /\ n \in Nat /\ content \in Seq(Chunk)
      /\ Whole(j) = n + 1
    BY RunFacts DEF Reportable, Whole
<1>3. n # 0
    BY <1>2, EmptySeq DEF Reportable
<1>4. \A i \in 1 .. Len(inbox') : j <= inbox'[i].job
  <2>1. \A i \in 1 .. Len(inbox) : inbox[1].job <= inbox[i].job
    <3>1. 1 \in 1 .. Len(inbox) /\ \A i \in 1 .. Len(inbox) : 1 <= i
        BY <1>1
    <3> QED
        BY <3>1 DEF Flow, InOrder
  <2> QED
      BY <1>1, <2>1
<1>5. CASE d = 0
  <2>1. Opens(j)
      BY <1>5, DeliverOutcome DEF Dies
  <2>2. SubSeq(content, 1, 0) = <<>>
      BY <1>2, EmptySeq, SubSeqEmpty
  <2>3. /\ Open(j)' /\ Output' = SubSeq(content, 1, (d + 1) - 1) /\ rows' = rows
        /\ d + 1 \in 1 .. n /\ d + 1 # Whole(j) /\ d <= n
      BY <1>2, <1>3, <1>5, <2>1, <2>2 DEF Opens, Open
  <2> QED
      BY <1>4, <2>3 DEF Reached, RowsOf, Whole
<1>6. CASE d # 0
  <2>1. d \in 1 .. n /\ d <= n
      BY <1>2, <1>6
  <2>2. /\ Open(j) /\ Output = SubSeq(content, 1, d - 1) /\ RowsOf(j) = {}
        /\ current_file_handle # None
      BY <1>2, <2>1 DEF Reached, Open
  <2>3. c = content[d]
      BY <1>2, <2>1 DEF ChunkOf
  <2> HIDE DEF c
  <2>4. Append(Output, c) = SubSeq(content, 1, d) /\ Len(Output) = d - 1
      BY <1>2, <2>1, <2>2, <2>3, NextPrefix
  <2>5. received_chunks = d - 1
      BY <2>2, <2>4, OutputCounted DEF Flow
  <2>6. Takes(c) \/ Completes(c)
      BY <2>1, <2>2, DeliverOutcome DEF Ignores, c
  <2>7. CASE Takes(c)
    <3>1. d # n
        BY <2>1, <2>2, <2>5, <2>7 DEF Takes, Open
    <3>2. /\ Open(j)' /\ Output' = SubSeq(content, 1, (d + 1) - 1) /\ rows' = rows
          /\ d + 1 \in 1 .. n /\ d + 1 # Whole(j)
        BY <1>2, <2>1, <2>2, <2>4, <2>7, <3>1 DEF Takes, Open
    <3> QED
        BY <1>4, <2>1, <2>2, <3>2 DEF Reached, RowsOf, Whole
  <2>8. CASE Completes(c)
    <3>1. d = n
        BY <2>1, <2>2, <2>5, <2>8 DEF Completes, Open
    <3>2. PICK row \in Row :
              /\ rows' = Append(rows, row)
              /\ row.file = current_file_handle /\ row.qos = current_qos
              /\ Append(Output, c) = Content[current_file_handle] /\ ~Small(c) =>
                    row.integrity_ok
        BY <2>8 DEF Completes
    <3>3. Append(Output, c) = Content[current_file_handle] /\ c = Last(content)
      <4>1. SubSeq(content, 1, n) = content
          BY <1>2, SubSeqFull
      <4> QED
          BY <2>2, <2>3, <2>4, <3>1, <4>1 DEF Open, Last
    <3>4. /\ RowsOf(j)' = {Len(rows) + 1} /\ rows'[Len(rows) + 1] = row
          /\ Len(rows) + 1 \in 1 .. Len(rows')
        BY <2>2, <3>2, RowsOfAppend DEF Open, Flow, IInv, TypeOK
    <3>5. \E i \in 1 .. Len(rows') :
              RowsOf(j)' = {i} /\ (~Small(Last(content)) => rows'[i].integrity_ok)
        BY <3>2, <3>3, <3>4
    <3>6. ~Open(j)' /\ d + 1 \notin 1 .. n /\ ~(d + 1 <= n)
        BY <1>2, <2>8, <3>1 DEF Completes, Open
    <3> QED
        BY <1>4, <3>5, <3>6 DEF Reached
  <2> QED
      BY <2>6, <2>7, <2>8
<1> QED
    BY <1>5, <1>6

LEMMA DeliverProgress ==
    ASSUME Flow, Deliver, NEW j \in Reportable, j \notin lost', Progress(j)
    PROVE  Progress(j)'
<1>1. PICK d, a \in Nat : OnWay(j, d, a) /\ Reached(j, d)
    BY DEF Progress
<1>2. /\ j \in Jobs /\ JobFile(j) # None /\ Whole(j) \in Nat
      /\ Sent(j) \in Nat /\ Sent(j) <= Whole(j)
    BY RunFacts DEF Reportable
<1>3. /\ svars' = svars /\ Len(inbox) \in Nat \ {0} /\ 1 \in 1 .. Len(inbox)
      /\ ~alive' => inbox' = <<>>
      /\ alive' => /\ Len(inbox') = Len(inbox) - 1
                   /\ \A i \in 1 .. Len(inbox') :
                         inbox'[i] = inbox[i + 1] /\ i + 1 \in 1 .. Len(inbox)
    BY InboxTail
<1>4. UNCHANGED <<job, pc, last_mid, wire, accepted>>
    BY <1>3 DEF svars, main, client, network, past
<1>5. Sent(j)' = Sent(j)
    BY <1>4 DEF Sent, Running, Whole
<1>6. CASE ~alive'
  <2>1. j \notin Waiting
      BY <1>6 DEF Deliver, SessionEnds
  <2>2. inbox[1].job # j
      BY <1>3, <2>1 DEF Waiting
  <2>3. ~Open(j)
      BY <1>1, <1>2, <1>3, <2>2, OnlyItself DEF Reached
  <2>4. rows' = rows /\ current_file_handle' = None
      BY <1>6, DeliverOutcome DEF Opens, Dies, Takes, Completes, Ignores
  <2> QED
      BY <1>3, <1>6, <2>1, <2>3, <2>4, SessionEndsProgress
<1>7. CASE alive' /\ inbox[1].job # j
  <2>1. Span(inbox', j, d, a)
      BY <1>1, <1>3, <1>7, SpanTail DEF OnWay
  <2>2. OnWay(j, d, a)'
      BY <1>1, <1>4, <1>5, <2>1 DEF OnWay
  <2> QED
      BY <1>1, <1>7, <2>2, DeliverOther DEF Progress
<1>8. CASE alive' /\ inbox[1].job = j
  <2>1. inbox[1].mid = d + 1 /\ d + 1 <= a /\ Span(inbox', j, d + 1, a)
      BY <1>1, <1>3, <1>8, SpanTail DEF OnWay
  <2>2. OnWay(j, d + 1, a)'
      BY <1>1, <1>4, <1>5, <2>1 DEF OnWay
  <2>3. d < Whole(j)
      BY <1>1, <1>2, <2>1 DEF OnWay
  <2>4. Reached(j, d + 1)'
      BY <1>1, <1>8, <2>1, <2>3, DeliverOwn
  <2>5. d + 1 \in Nat
      OBVIOUS
  <2> QED
      BY <2>2, <2>4, <2>5 DEF Progress
<1> QED
    BY <1>6, <1>7, <1>8

(* What a step leaves alone entirely.                                      *)
LEMMA SameProgress ==
    ASSUME NEW j, Progress(j), UNCHANGED svars, inbox' = inbox, rows' = rows,
           UNCHANGED <<current_file_handle, current_qos, disk, buffer>>
    PROVE  Progress(j)'
<1>1. PICK d, a \in Nat : OnWay(j, d, a) /\ Reached(j, d)
    BY DEF Progress
<1>2. UNCHANGED <<job, pc, last_mid, wire, accepted>>
    BY DEF svars, main, client, network, past
<1>3. OnWay(j, d, a)' /\ Reached(j, d)'
    BY <1>1, <1>2, ReachedSame DEF OnWay, Sent, Running, Whole, Open, Output
<1> QED
    BY <1>3 DEF Progress

LEMMA ProgressKeeps ==
    ASSUME Flow, Linked, [TransferNext]_tvars, NEW j \in Reportable,
           j \notin lost', j \notin resent', Progress(j)
    PROVE  Progress(j)'
<1>1. CASE SenderMoves
    BY <1>1, SenderMovesProgress
<1>2. CASE BrokerRoutes
    BY <1>2, BrokerRoutesProgress
<1>3. CASE Deliver
    BY <1>3, DeliverProgress
<1>4. CASE ReceiverDisconnect
  <2>1. /\ UNCHANGED <<svars, vars>> /\ inbox' = <<>> /\ j \notin Waiting
      BY <1>4 DEF ReceiverDisconnect, SessionEnds
  <2> QED
      BY <2>1, SessionEndsProgress DEF vars, transfer
<1>5. CASE ReceiverKill
  <2>1. /\ UNCHANGED svars /\ inbox' = <<>> /\ j \notin Waiting /\ j \notin Receiving
        /\ rows' = rows /\ current_file_handle' = None
      BY <1>5 DEF ReceiverKill, SessionEnds, Kill
  <2>2. ~Open(j)
      BY <2>1 DEF Open, Receiving, Reportable
  <2> QED
      BY <2>1, <2>2, SessionEndsProgress
<1>6. CASE ReceiverRestart
  <2>1. /\ UNCHANGED svars /\ inbox' = inbox /\ rows' = rows
        /\ current_file_handle' = None /\ ~alive
      BY <1>6 DEF ReceiverRestart, session, Restart
  <2>2. current_file_handle = None
      BY <2>1 DEF Flow, IInv, GlobalsDescribeHandle
  <2>3. JobFile(j) # None
      BY RunFacts DEF Reportable
  <2>4. PICK d, a \in Nat : OnWay(j, d, a) /\ Reached(j, d)
      BY DEF Progress
  <2>5. UNCHANGED <<job, pc, last_mid, wire, accepted>>
      BY <2>1 DEF svars, main, client, network, past
  <2>6. OnWay(j, d, a)' /\ Reached(j, d)'
      BY <2>1, <2>2, <2>3, <2>4, <2>5, ReachedSame
      DEF OnWay, Sent, Running, Whole, Open
  <2> QED
      BY <2>6 DEF Progress
<1>7. CASE SubscribeCtrl \/ SubscribeData \/ UNCHANGED tvars
  <2>1. UNCHANGED <<svars, vars, inbox>>
      BY <1>7 DEF SubscribeCtrl, SubscribeData, tvars, session
  <2> QED
      BY <2>1, SameProgress DEF vars, transfer
<1> QED
    BY <1>1, <1>2, <1>3, <1>4, <1>5, <1>6, <1>7 DEF TransferNext

LEMMA LinkedKeeps ==
    ASSUME Flow, Linked, [TransferNext]_tvars
    PROVE  Linked'
<1> USE DEF Linked, Running, globals, main, client, network, past, Up
<1>1. disconnects \in Nat
    BY DEF Flow, SenderInv, SenderTyped
<1>2. CASE SenderMoves
  <2>1. /\ MainStep \/ OnPublish \/ Disconnect \/ OpenSocket \/ ConnAck
        /\ resent' = IF disconnects' # disconnects THEN resent \cup {job} ELSE resent
      BY <1>2 DEF SenderMoves
  <2>2. CASE Launch \/ LaunchMissing \/ Finish
      BY <2>1, <2>2 DEF Launch, LaunchMissing, Finish, make_client
  <2>3. CASE LaunchFails \/ Disconnect
      BY <1>1, <2>1, <2>3 DEF LaunchFails, Disconnect
  <2>4. CASE \/ AssignMid \/ AckSeen \/ AckTimeout \/ PublishChunkFails
             \/ PublishWaited \/ PublishTimeout \/ OnPublish
      BY <2>1, <2>4
      DEF AssignMid, AckSeen, AckTimeout, PublishChunkFails, PublishWaited,
          PublishTimeout, OnPublish
  <2>5. ASSUME NEW body, Publish(body), Running, Running', job' = job
        PROVE  Linked'
    <3>1. /\ overtaken' \subseteq overtaken \cup {job}
          /\ Up => overtaken' = overtaken
          /\ UNCHANGED <<connected, unsent, disconnects>>
        BY <2>5 DEF Publish
    <3> QED
        BY <2>1, <2>5, <3>1
  <2>6. CASE PublishMetadata \/ PublishChunk
      BY <2>5, <2>6 DEF PublishMetadata, PublishChunk
  <2>7. CASE OpenSocket \/ ConnAck
    <3>1. /\ Running /\ ~Up /\ overtaken' = overtaken /\ disconnects' = disconnects
          /\ job' = job
        BY <2>7 DEF OpenSocket, ConnAck
    <3> QED
        BY <2>1, <3>1
  <2> QED
      BY <2>1, <2>2, <2>3, <2>4, <2>6, <2>7 DEF MainStep
<1>3. CASE UNCHANGED <<job, pc, connected, unsent, overtaken, resent>>
    BY <1>3
<1> QED
    BY <1>2, <1>3
    DEF TransferNext, BrokerRoutes, BrokerAccept, SubscribeCtrl, SubscribeData,
        Deliver, SessionEnds, ReceiverDisconnect, ReceiverKill, ReceiverRestart,
        svars, tvars, session

(* What is disturbed stays so.                                             *)
LEMMA DisturbedGrows ==
    ASSUME [TransferNext]_tvars
    PROVE  lost \subseteq lost' /\ resent \subseteq resent'
  BY DEF TransferNext, SenderMoves, BrokerRoutes, SubscribeCtrl, SubscribeData,
         Deliver, SessionEnds, ReceiverDisconnect, ReceiverKill, ReceiverRestart,
         session, tvars

(* The invariant of the runs that nothing disturbs.                        *)
RunsInv == Flow /\ Linked /\ \A j \in Undisturbed : Progress(j)

LEMMA InitRunsInv == TransferInit => RunsInv
<1> SUFFICES ASSUME TransferInit PROVE RunsInv
    OBVIOUS
<1>1. Flow /\ Linked
    BY InitFlow DEF TransferInit, SenderInit, Linked, Running, Up
<1>2. ASSUME NEW j \in Reportable PROVE Progress(j)
  <2>1. /\ inbox = <<>> /\ wire = <<>> /\ accepted = {} /\ rows = <<>>
        /\ job = 1 /\ pc = "manager" /\ current_file_handle = None
      BY DEF TransferInit, SenderInit, Init
  <2>2. /\ j \in Jobs /\ j \in Nat \ {0} /\ JobFile(j) # None
        /\ Len(Content[JobFile(j)]) \in Nat
      BY <1>1, RunFacts DEF Reportable
  <2>3. Sent(j) = 0
      BY <2>1, <2>2 DEF Sent, Running
  <2>4. Span(<<>>, j, 0, 0) /\ Len(<<>>) = 0
      BY SpanEmpty, EmptySeq
  <2>5. OnWay(j, 0, 0)
      BY <2>1, <2>3, <2>4 DEF OnWay
  <2>6. Reached(j, 0)
      BY <2>1, <2>2, <2>4 DEF Reached, Open, RowsOf, Whole
  <2> QED
      BY <2>5, <2>6 DEF Progress
<1> QED
    BY <1>1, <1>2 DEF RunsInv, Undisturbed

LEMMA NextRunsInv == RunsInv /\ [TransferNext]_tvars => RunsInv'
<1> SUFFICES ASSUME RunsInv, [TransferNext]_tvars PROVE RunsInv'
    OBVIOUS
<1>1. Flow' /\ Linked'
    BY FlowKeeps, LinkedKeeps DEF RunsInv
<1>2. ASSUME NEW j \in Reportable, j \notin lost', j \notin resent'
      PROVE  Progress(j)'
  <2>1. j \in Undisturbed
      BY <1>2, DisturbedGrows DEF Undisturbed
  <2> QED
      BY <1>2, <2>1, ProgressKeeps DEF RunsInv
<1> QED
    BY <1>1, <1>2 DEF RunsInv, Undisturbed

(* Files whose last chunk the receiver's writer does not keep in its       *)
(* buffer; of any other file a small last chunk makes the verdict wrong.   *)
LargeTails == \A j \in Reportable : ~Small(Last(Content[JobFile(j)]))

(* A run the broker has all of, and the receiver all the broker has of it, *)
(* was received to its end.                                                *)
LEMMA DrainedEnds ==
    ASSUME Flow, NEW j \in Reportable, Drained(j), Progress(j)
    PROVE  Reached(j, Whole(j))
<1>1. PICK d, a \in Nat : OnWay(j, d, a) /\ Reached(j, d)
    BY DEF Progress
<1>2. /\ j \in Jobs /\ Whole(j) \in Nat \ {0} /\ Sent(j) \in Nat /\ Sent(j) <= Whole(j)
    BY RunFacts DEF Reportable
<1>3. <<j, Whole(j)>> \in accepted
  <2>1. Whole(j) \in 1 .. Whole(j)
      BY <1>2
  <2>2. <<j, Whole(j)>> \in PacketsOf(j)
      BY <2>1 DEF PacketsOf, Whole
  <2> QED
      BY <2>2 DEF Drained
<1>4. Whole(j) \in 1 .. a
    BY <1>1, <1>2, <1>3 DEF OnWay
<1>5. a = Whole(j)
    BY <1>1, <1>2, <1>4 DEF OnWay
<1>6. d = a
    BY <1>1, <1>2, QueueGone DEF Drained
<1> QED
    BY <1>1, <1>5, <1>6

(* A run that nothing disturbed gets one row, and that row says the file   *)
(* is intact, whatever happened to other runs (client_a.py:84-110 and      *)
(* client_b.py:84-137 together), if no file ends in a small chunk.         *)
THEOREM UndisturbedIsOk ==
    ASSUME LargeTails
    PROVE  TransferSpec => []UndisturbedRunIsOk
<1>1. RunsInv => UndisturbedRunIsOk
  <2> SUFFICES ASSUME RunsInv, NEW j \in Reportable \ (lost \cup resent), Drained(j)
               PROVE  \E i \in RowsOf(j) : RowsOf(j) = {i} /\ rows[i].integrity_ok
      BY DEF UndisturbedRunIsOk
  <2>1. Reached(j, Whole(j))
      BY DrainedEnds DEF RunsInv, Undisturbed
  <2>2. ~Small(Last(Content[JobFile(j)]))
      BY DEF LargeTails
  <2> QED
      BY <2>1, <2>2 DEF Reached
<1> QED
    BY <1>1, InitRunsInv, NextRunsInv, PTL DEF TransferSpec

-----------------------------------------------------------------------------
(* The order of the rows, while nothing is disturbed.                      *)

(* Only files the sender has are ever sent.                                *)
Present ==
    /\ Running => filename \notin Missing
    /\ \A i \in 1 .. Len(out_messages) : JobFile(out_messages[i].job) \notin Missing
    /\ \A i \in 1 .. Len(wire) : JobFile(wire[i].job) \notin Missing
    /\ \A p \in accepted : JobFile(p[1]) \notin Missing

LEMMA PresentKeeps ==
    ASSUME Flow, Present, [TransferNext]_tvars
    PROVE  Present'
<1>1. CASE SenderMoves
  <2>1. MainStep \/ OnPublish \/ Disconnect \/ OpenSocket \/ ConnAck
      BY <1>1 DEF SenderMoves
  <2>2. /\ accepted' = accepted
        /\ \A i \in 1 .. Len(out_messages') :
              \/ \E k \in 1 .. Len(out_messages) : out_messages'[i] = out_messages[k]
              \/ Fresh(out_messages'[i])
        /\ \A i \in 1 .. Len(wire') :
              \/ \E k \in 1 .. Len(wire) : wire'[i] = wire[k]
              \/ \E k \in 1 .. Len(out_messages) : wire'[i] = out_messages[k]
              \/ Fresh(wire'[i])
      BY <2>1, SenderMovesFacts DEF Flow
  <2>3. \A p : Fresh(p) => JobFile(p.job) \notin Missing
      BY DEF Present, Fresh, filename
  <2>4. Running' => filename' \notin Missing
    <3>1. CASE Launch
        BY <3>1 DEF Launch, filename
    <3>2. CASE LaunchMissing \/ LaunchFails \/ Finish \/ PublishChunkFails
        BY <3>2 DEF LaunchMissing, LaunchFails, Finish, PublishChunkFails, Running
    <3>3. CASE \/ PublishMetadata \/ AssignMid \/ AckSeen \/ AckTimeout
               \/ PublishChunk \/ PublishWaited \/ PublishTimeout
               \/ OnPublish \/ Disconnect \/ OpenSocket \/ ConnAck
      <4>1. Running /\ job' = job
          BY <3>3
          DEF PublishMetadata, AssignMid, AckSeen, AckTimeout, PublishChunk,
              PublishWaited, PublishTimeout, OnPublish, Disconnect, OpenSocket,
              ConnAck, Running, main
      <4> QED
          BY <4>1 DEF Present, filename
    <3> QED
        BY <2>1, <3>1, <3>2, <3>3 DEF MainStep
  <2> QED
      BY <2>2, <2>3, <2>4 DEF Present
<1>2. CASE BrokerRoutes
  <2>1. /\ Head(wire) = wire[1] /\ 1 \in 1 .. Len(wire)
        /\ \A i \in 1 .. Len(wire') : wire'[i] = wire[i + 1] /\ i + 1 \in 1 .. Len(wire)
        /\ accepted' = accepted \cup {<<Head(wire).job, Head(wire).mid>>}
        /\ UNCHANGED <<job, pc, out_messages>>
      BY <1>2, BrokerAcceptFacts DEF BrokerRoutes, Flow
  <2>2. <<Head(wire).job, Head(wire).mid>>[1] = Head(wire).job
      OBVIOUS
  <2> QED
      BY <2>1, <2>2 DEF Present, Running, filename
<1>3. CASE UNCHANGED svars
    BY <1>3 DEF Present, Running, filename, svars, main, client, network, past
<1> QED
    BY <1>1, <1>2, <1>3
    DEF TransferNext, SubscribeCtrl, SubscribeData, Deliver, ReceiverDisconnect,
        ReceiverKill, ReceiverRestart, tvars

(* The runs that have a row. *)
Rowed == {k \in Reportable : RowsOf(k) # {}}

(* A row completes the run whose chunk was next, and the runs that have    *)
(* one are those before it.                                                *)
LEMMA RowIsNext ==
    ASSUME RunsInv, Present, lost = {}, resent = {}, [TransferNext]_tvars, rows' # rows
    PROVE  \E j \in Reportable : \E row \in Row :
               /\ rows' = Append(rows, row)
               /\ row.file = JobFile(j) /\ row.qos = JobQos(j)
               /\ Rowed = {k \in Reportable : k < j}
<1> USE DEF RunsInv
<1>1. Deliver
    BY RowsOnDelivery
<1> DEFINE j == inbox[1].job
<1>2. Completes(ChunkOf(inbox[1])) /\ inbox[1].mid > 1
    BY <1>1, DeliverOutcome DEF Opens, Dies, Takes, Ignores
<1>3. /\ Len(inbox) \in Nat \ {0} /\ 1 \in 1 .. Len(inbox) /\ j \in Jobs
      /\ inbox[1].mid \in Nat \ {0} /\ Genuine(inbox[1])
      /\ Len(inbox') = Len(inbox) - 1
      /\ \A i \in 1 .. Len(inbox') : inbox'[i] = inbox[i + 1] /\ i + 1 \in 1 .. Len(inbox)
    BY <1>1, <1>2, InboxTail DEF Completes
<1>4. j \in Reportable
  <2>1. <<j, inbox[1].mid>> \in accepted /\ <<j, inbox[1].mid>>[1] = j
      BY <1>3 DEF Flow, Carried
  <2>2. Content[JobFile(j)] # <<>>
      BY <1>2, <1>3, EmptySeq DEF Genuine
  <2> QED
      BY <1>3, <2>1, <2>2 DEF Reportable, Present
<1> HIDE DEF j
<1>5. PICK d, a \in Nat : OnWay(j, d, a) /\ Reached(j, d)
    BY <1>4 DEF Undisturbed, Progress
<1>6. /\ j \in Nat /\ Whole(j) \in Nat /\ Sent(j) <= Whole(j) /\ Sent(j) \in Nat
      /\ Whole(j) = Len(Content[JobFile(j)]) + 1
    BY <1>3, RunFacts DEF Whole
<1>7. inbox[1].mid = d + 1 /\ d + 1 <= a
    BY <1>3, <1>5, SpanTail DEF OnWay, j
<1>8. d \in 1 .. Len(Content[JobFile(j)])
    BY <1>2, <1>5, <1>6, <1>7 DEF OnWay
<1>9. Open(j) /\ RowsOf(j) = {}
    BY <1>5, <1>8 DEF Reached
<1>10. ASSUME NEW k \in Reportable
       PROVE  RowsOf(k) # {} <=> k < j
  <2>1. PICK e, b \in Nat : OnWay(k, e, b) /\ Reached(k, e)
      BY DEF Undisturbed, Progress
  <2>2. k \in Jobs /\ k \in Nat
      BY RunFacts DEF Reportable
  <2>3. CASE k < j
    <3>1. e = Whole(k)
        BY <1>3, <2>1, <2>2, <2>3, LaterRunWaits DEF j
    <3> QED
        BY <2>1, <2>3, <3>1 DEF Reached
  <2>4. CASE k > j
    <3>1. ~(e > 0)
        BY <1>3, <1>6, <2>1, <2>2, <2>4 DEF Reached, j
    <3>2. e <= Len(Content[JobFile(k)])
        BY <2>1, <2>2, <3>1, RunFacts
    <3> QED
        BY <1>6, <2>1, <2>2, <2>4, <3>2 DEF Reached
  <2>5. CASE k = j
      BY <1>6, <1>9, <2>5
  <2> QED
      BY <1>6, <2>2, <2>3, <2>4, <2>5
<1>11. PICK row \in Row : /\ rows' = Append(rows, row)
                          /\ row.file = current_file_handle /\ row.qos = current_qos
    BY <1>2 DEF Completes
<1> QED
    BY <1>4, <1>9, <1>10, <1>11 DEF Open, Rowed

LEMMA ReportableFinite == IsFiniteSet(Reportable)
<1>1. IsFiniteSet(Jobs)
    BY JobsNumbered, FS_Interval
<1> QED
    BY <1>1, FS_Subset DEF Reportable

(* While nothing is disturbed there are as many rows as runs that have one. *)
Counted ==
    lost \cup resent = {} => Cardinality(Rowed) = Len(rows) /\ RowsInOrder

LEMMA CountedKeeps ==
    ASSUME RunsInv, Present, Counted, [TransferNext]_tvars
    PROVE  Counted'
<1> SUFFICES ASSUME lost' = {}, resent' = {}
             PROVE  Cardinality(Rowed)' = Len(rows)' /\ RowsInOrder'
    BY DEF Counted
<1>1. lost = {} /\ resent = {}
    BY DisturbedGrows
<1>2. /\ Cardinality(Rowed) = Len(rows) /\ rows \in Seq(Row) /\ Len(rows) \in Nat
      /\ \A i \in 1 .. Len(rows) : \E j \in Reportable :
            /\ i \in RowsOf(j)
            /\ Cardinality({k \in Reportable : k < j}) = i - 1
  <2>1. rows \in Seq(Row) /\ Len(rows) \in Nat /\ DOMAIN rows = 1 .. Len(rows)
      BY LenProperties DEF RunsInv, Flow, IInv, TypeOK
  <2>2. Cardinality(Rowed) = Len(rows) /\ RowsInOrder
      BY <1>1 DEF Counted
  <2> QED
      BY <1>1, <2>1, <2>2 DEF RowsInOrder
<1>3. CASE rows' = rows
  <2>1. \A k : RowsOf(k)' = RowsOf(k)
      BY <1>3 DEF RowsOf
  <2>2. Rowed' = Rowed
      BY <2>1 DEF Rowed
  <2>3. DOMAIN rows' = 1 .. Len(rows)
      BY <1>2, <1>3, LenProperties
  <2>4. RowsInOrder'
      BY <1>2, <2>1, <2>3 DEF RowsInOrder
  <2> QED
      BY <1>2, <1>3, <2>2, <2>4
<1>4. CASE rows' # rows
  <2>1. PICK j \in Reportable, row \in Row :
            /\ rows' = Append(rows, row)
            /\ row.file = JobFile(j) /\ row.qos = JobQos(j)
            /\ Rowed = {k \in Reportable : k < j}
      BY <1>1, <1>4, RowIsNext
  <2>2. j \in Jobs /\ j \in Nat
      BY RunFacts DEF Reportable, RunsInv
  <2>3. /\ Len(rows') = Len(rows) + 1
        /\ RowsOf(j)' = RowsOf(j) \cup {Len(rows) + 1}
      BY <1>2, <2>1, RowsOfAppend
  <2>4. ASSUME NEW k \in Reportable, k # j PROVE RowsOf(k)' = RowsOf(k)
    <3>1. ~(row.file = JobFile(k) /\ row.qos = JobQos(k))
        BY <2>1, <2>2, <2>4, JobsDistinct DEF Reportable
    <3> QED
        BY <1>2, <2>1, <3>1, RowsOfAppend
  <2>5. Rowed' = Rowed \cup {j} /\ j \notin Rowed
    <3>1. \A k \in Reportable : RowsOf(k)' # {} <=> (k = j \/ RowsOf(k) # {})
        BY <2>3, <2>4
    <3>2. j \notin Rowed
        BY <2>1, <2>2
    <3> QED
        BY <3>1, <3>2 DEF Rowed
  <2>6. IsFiniteSet(Rowed)
      BY ReportableFinite, FS_Subset DEF Rowed
  <2>7. Cardinality(Rowed)' = Len(rows)'
    <3>1. Cardinality(Rowed \cup {j}) = Cardinality(Rowed) + 1
        BY <2>5, <2>6, FS_AddElement
    <3> QED
        BY <1>2, <2>3, <2>5, <3>1
  <2>8. ASSUME NEW i \in 1 .. Len(rows')
        PROVE  \E k \in Reportable :
                   /\ i \in RowsOf(k)'
                   /\ Cardinality({l \in Reportable : l < k}) = i - 1
    <3>1. CASE i \in 1 .. Len(rows)
      <4>1. PICK k \in Reportable :
                i \in RowsOf(k) /\ Cardinality({l \in Reportable : l < k}) = i - 1
          BY <1>2, <3>1
      <4>2. i \in RowsOf(k)'
          BY <2>3, <2>4, <4>1
      <4> QED
          BY <4>1, <4>2
    <3>2. CASE i = Len(rows) + 1
      <4>1. Cardinality({l \in Reportable : l < j}) = i - 1
          BY <1>2, <2>1, <3>2
      <4> QED
          BY <2>3, <3>2, <4>1
    <3>3. i \in 1 .. Len(rows) \/ i = Len(rows) + 1
        BY <1>2, <2>3
    <3> QED
        BY <3>1, <3>2, <3>3
  <2>9. RowsInOrder'
    <3>1. DOMAIN rows' = 1 .. Len(rows')
        BY <2>3, <1>2, <2>1, AppendProperties, LenProperties
    <3> QED
        BY <2>8, <3>1 DEF RowsInOrder
  <2> QED
      BY <2>7, <2>9
<1> QED
    BY <1>3, <1>4

(* As long as nothing is disturbed the log of client_b.py has its rows in  *)
(* the order of the runs of benchmark_manager.py, and misses none.         *)
THEOREM RowsFollowRuns == TransferSpec => []RowsInOrder
<1> DEFINE RowsInv == RunsInv /\ Present /\ Counted
<1>1. TransferInit => RowsInv
  <2> SUFFICES ASSUME TransferInit PROVE RowsInv
      OBVIOUS
  <2>1. /\ inbox = <<>> /\ wire = <<>> /\ out_messages = <<>> /\ accepted = {}
        /\ rows = <<>> /\ pc = "manager" /\ Len(<<>>) = 0
      BY EmptySeq DEF TransferInit, SenderInit, Init
  <2>2. Rowed = {} /\ \A i : i \notin DOMAIN rows
      BY <2>1 DEF Rowed, RowsOf
  <2> QED
      BY <2>1, <2>2, InitRunsInv, FS_EmptySet
      DEF Present, Running, Counted, RowsInOrder
<1>2. RowsInv /\ [TransferNext]_tvars => RowsInv'
    BY NextRunsInv, PresentKeeps, CountedKeeps DEF RunsInv
<1>3. RowsInv => RowsInOrder
    BY DEF Counted, RowsInOrder
<1> QED
    BY <1>1, <1>2, <1>3, PTL DEF TransferSpec

-----------------------------------------------------------------------------
(* Runs that are sent again.  Of a run none of whose messages overtook     *)
(* another, paho knows a beginning as acknowledged, the broker has taken a *)
(* longer one, and the rest is on the wire, in order, if there is a        *)
(* connection on which nothing waits; if not, the wire has nothing of it.  *)
Acked == last_mid - Len(out_messages)
Taken == Acked + Len(acks)

Linear ==
    Running /\ job \notin overtaken =>
        /\ Acked \in Nat /\ published = 1 .. Acked /\ Taken <= last_mid
        /\ \A i \in 1 .. Len(out_messages) : out_messages[i].mid = Acked + i
        /\ \A i \in 1 .. Len(acks) : acks[i] = Acked + i
        /\ Up => Span(wire, job, Taken, last_mid)
        /\ ~Up => Len(acks) = 0 /\ \A i \in 1 .. Len(wire) : wire[i].job # job

(* The types Linear needs. *)
LEMMA LinearTypes ==
    ASSUME SenderInv
    PROVE  /\ wire \in Seq(PacketType) /\ out_messages \in Seq(PacketType)
           /\ acks \in Seq(Nat \ {0}) /\ Len(acks) \in Nat
           /\ Len(wire) \in Nat /\ Len(out_messages) \in Nat
           /\ last_mid \in Nat /\ job \in Nat \ {0}
           /\ ~connected => Len(acks) = 0
           /\ Running => job \in Jobs
           /\ unsent \in 0 .. Len(out_messages)
  BY QueuesTyped, LenProperties, EmptySeq DEF SenderInv, SenderTyped, Phases

LEMMA SpanNone ==
    ASSUME NEW q, NEW j, NEW lo \in Nat, \A i \in 1 .. Len(q) : q[i].job # j
    PROVE  Span(q, j, lo, lo)
  BY DEF Span

(* A queue whose messages are numbered one after the other, behind one     *)
(* that has none of the run.                                               *)
LEMMA SpanConcat ==
    ASSUME NEW q \in Seq(PacketType), NEW s \in Seq(PacketType), NEW j, NEW lo \in Nat,
           \A i \in 1 .. Len(q) : q[i].job # j,
           \A i \in 1 .. Len(s) : s[i].job = j /\ s[i].mid = lo + i
    PROVE  Span(q \o s, j, lo, lo + Len(s))
<1> DEFINE r == q \o s
<1>1. /\ Len(q) \in Nat /\ Len(s) \in Nat /\ Len(r) = Len(q) + Len(s)
      /\ \A i \in 1 .. Len(r) : r[i] = IF i <= Len(q) THEN q[i] ELSE s[i - Len(q)]
    BY ConcatProperties, LenProperties
<1> HIDE DEF r
<1>2. ASSUME NEW i \in 1 .. Len(r), r[i].job = j
      PROVE  i - Len(q) \in 1 .. Len(s) /\ r[i].mid = lo + (i - Len(q))
  <2>1. ~(i <= Len(q))
      BY <1>1, <1>2
  <2>2. i - Len(q) \in 1 .. Len(s)
      BY <1>1, <2>1
  <2> QED
      BY <1>1, <2>1, <2>2
<1>3. \A i \in 1 .. Len(r) : r[i].job = j => r[i].mid \in lo + 1 .. lo + Len(s)
    BY <1>1, <1>2
<1>4. ASSUME NEW m \in lo + 1 .. lo + Len(s)
      PROVE  \E i \in 1 .. Len(r) : r[i].job = j /\ r[i].mid = m
  <2> DEFINE i == Len(q) + (m - lo)
  <2>1. /\ i \in 1 .. Len(r) /\ ~(i <= Len(q)) /\ i - Len(q) = m - lo
        /\ m - lo \in 1 .. Len(s) /\ lo + (m - lo) = m
      BY <1>1
  <2> HIDE DEF i
  <2>2. r[i] = s[m - lo]
      BY <1>1, <2>1
  <2> QED
      BY <2>1, <2>2
<1>5. ASSUME NEW i \in 1 .. Len(r), NEW k \in 1 .. Len(r), i < k,
             r[i].job = j, r[k].job = j
      PROVE  r[i].mid < r[k].mid
  <2>1. /\ i - Len(q) \in Int /\ r[i].mid = lo + (i - Len(q))
        /\ k - Len(q) \in Int /\ r[k].mid = lo + (k - Len(q))
      BY <1>2, <1>5
  <2> QED
      BY <1>1, <1>5, <2>1
<1> QED
    BY <1>3, <1>4, <1>5 DEF Span, r

(* paho's publish. *)
LEMMA PublishLinear ==
    ASSUME SenderInv, Linear, Running, Running', NEW body \in Message, Publish(body),
           job' = job
    PROVE  Linear'
<1> SUFFICES ASSUME job' \notin overtaken' PROVE Linear'
    BY DEF Linear
<1> DEFINE p == Packet(job, last_mid + 1, body)
<1>1. /\ wire \in Seq(PacketType) /\ out_messages \in Seq(PacketType)
      /\ Len(wire) \in Nat /\ Len(out_messages) \in Nat
      /\ last_mid \in Nat /\ job \in Jobs /\ Len(acks) \in Nat
      /\ unsent \in Nat
    BY LinearTypes
<1>2. /\ p \in PacketType /\ p.job = job /\ p.mid = last_mid + 1
    BY <1>1 DEF Packet, PacketType
<1>10. ~(connected /\ unsent > 0) /\ job \notin overtaken
    BY DEF Publish
<1>3. /\ last_mid' = last_mid + 1 /\ out_messages' = Append(out_messages, p)
      /\ wire' = IF Up THEN Append(wire, p) ELSE wire
      /\ Up' = Up
      /\ UNCHANGED <<published, acks>>
    BY <1>1, <1>10 DEF Publish, Up
<1> HIDE DEF p
<1>4. /\ Len(out_messages') = Len(out_messages) + 1
      /\ \A i \in 1 .. Len(out_messages) : out_messages'[i] = out_messages[i]
      /\ out_messages'[Len(out_messages) + 1] = p
    BY <1>1, <1>2, <1>3, InboxAppend
<1>5. Acked' = Acked /\ Taken' = Taken /\ Acked \in Nat /\ Taken <= last_mid
    BY <1>1, <1>3, <1>4, <1>10 DEF Acked, Taken, Linear
<1>6. ASSUME NEW i \in 1 .. Len(out_messages')
      PROVE  out_messages'[i].mid = Acked + i
  <2>1. CASE i = Len(out_messages) + 1
      BY <1>1, <1>2, <1>4, <2>1 DEF Acked
  <2>2. CASE i \in 1 .. Len(out_messages)
      BY <1>4, <1>10, <2>2 DEF Linear
  <2> QED
      BY <1>1, <1>4, <2>1, <2>2
<1>7. Up => Span(wire', job, Taken, last_mid')
  <2> SUFFICES ASSUME Up PROVE Span(wire', job, Taken, last_mid')
      OBVIOUS
  <2>1. Taken \in Nat /\ Span(wire, p.job, Taken, last_mid)
      BY <1>1, <1>2, <1>5, <1>10 DEF Taken, Linear
  <2> QED
      BY <1>1, <1>2, <1>3, <1>5, <2>1, SpanAppend
<1>8. ~Up => Len(acks') = 0 /\ \A i \in 1 .. Len(wire') : wire'[i].job # job
    BY <1>3, <1>10 DEF Linear
<1>9. Taken' <= last_mid'
    BY <1>1, <1>3, <1>5 DEF Taken
<1>11. published' = 1 .. Acked' /\ \A i \in 1 .. Len(acks') : acks'[i] = Acked' + i
    BY <1>3, <1>5, <1>10 DEF Linear
<1> QED
    BY <1>3, <1>5, <1>6, <1>7, <1>8, <1>9, <1>11 DEF Linear

(* An acknowledgement is that of paho's first message, which goes.         *)
LEMMA OnPublishLinear ==
    ASSUME SenderInv, Linear, OnPublish, job \notin overtaken
    PROVE  Linear' /\ Acked' = Acked + 1 /\ Taken' = Taken
<1> DEFINE mid == Head(acks)
           q == out_messages
<1>1. /\ wire \in Seq(PacketType) /\ q \in Seq(PacketType)
      /\ acks \in Seq(Nat \ {0}) /\ Len(acks) \in Nat /\ Len(q) \in Nat
      /\ last_mid \in Nat
    BY LinearTypes
<1>2. /\ Running /\ Up /\ Up' /\ acks # <<>> /\ acks' = Tail(acks)
      /\ out_messages' = Without(q, mid) /\ published' = published \cup {mid}
      /\ UNCHANGED <<pc, job, last_mid, wire>>
    BY DEF OnPublish, Acknowledge, main, Up
<1>3. /\ Len(acks) \in Nat \ {0} /\ 1 \in 1 .. Len(acks)
      /\ mid = acks[1] /\ Len(acks') = Len(acks) - 1
      /\ \A i \in 1 .. Len(acks') : acks'[i] = acks[i + 1] /\ i + 1 \in 1 .. Len(acks)
  <2>1. Len(acks) \in Nat \ {0}
      BY <1>1, <1>2, EmptySeq
  <2> QED
      BY <1>1, <1>2, <2>1, HeadTailProperties
<1>4. /\ Acked \in Nat /\ published = 1 .. Acked /\ Taken <= last_mid
      /\ \A i \in 1 .. Len(q) : q[i].mid = Acked + i
      /\ \A i \in 1 .. Len(acks) : acks[i] = Acked + i
      /\ Span(wire, job, Taken, last_mid)
    BY <1>2 DEF Linear
<1> HIDE DEF mid
<1>5. mid = Acked + 1
    BY <1>3, <1>4
<1>6. Len(q) \in Nat \ {0} /\ 1 \in 1 .. Len(q)
  <2>1. Acked = last_mid - Len(q) /\ Acked + Len(acks) <= last_mid
      BY <1>4 DEF Acked, Taken
  <2> QED
      BY <1>1, <1>3, <1>4, <2>1
<1>7. Without(q, mid) = RemoveAt(q, 1)
  <2>1. q[1].mid = mid
      BY <1>4, <1>5, <1>6
  <2>2. PICK k \in 1 .. Len(q) : q[k].mid = mid /\ Without(q, mid) = RemoveAt(q, k)
      BY <1>1, <1>6, <2>1, WithoutPlace
  <2>3. Acked + k = Acked + 1
      BY <1>4, <1>5, <2>2
  <2>4. k = 1
      BY <1>4, <2>3
  <2> QED
      BY <2>2, <2>4
<1>8. /\ Len(out_messages') = Len(q) - 1
      /\ \A i \in 1 .. Len(q) - 1 :
            out_messages'[i] = IF i < 1 THEN q[i] ELSE q[i + 1]
    BY <1>1, <1>2, <1>6, <1>7, RemovedPlace
<1>9. Acked' = Acked + 1 /\ Taken' = Taken
  <2>1. /\ last_mid' = last_mid /\ Len(out_messages') = Len(out_messages) - 1
        /\ Len(out_messages) \in Nat /\ Len(acks') = Len(acks) - 1
      BY <1>1, <1>2, <1>3, <1>8
  <2> QED
      BY <1>1, <2>1 DEF Acked, Taken
<1>10. ASSUME NEW i \in 1 .. Len(out_messages')
       PROVE  out_messages'[i].mid = (Acked + 1) + i
  <2>1. out_messages'[i] = q[i + 1] /\ i + 1 \in 1 .. Len(q)
      BY <1>1, <1>8
  <2>2. q[i + 1].mid = Acked + (i + 1)
      BY <1>4, <2>1
  <2> QED
      BY <1>4, <2>1, <2>2
<1>11. ASSUME NEW i \in 1 .. Len(acks') PROVE acks'[i] = (Acked + 1) + i
  <2>1. acks'[i] = acks[i + 1] /\ acks[i + 1] = Acked + (i + 1)
      BY <1>3, <1>4
  <2> QED
      BY <1>4, <2>1
<1>12. published' = 1 .. Acked + 1
    BY <1>2, <1>4, <1>5
<1> QED
    BY <1>2, <1>4, <1>9, <1>10, <1>11, <1>12 DEF Linear, Running

LEMMA DisconnectLinear ==
    ASSUME SenderInv, Linear, Disconnect, job \notin overtaken
    PROVE  /\ Linear' /\ Acked' = Acked /\ Taken' = Acked
           /\ \A i \in 1 .. Len(wire') : wire'[i].job # job
<1>1. /\ wire \in Seq(PacketType) /\ Len(wire) \in Nat /\ Len(acks) \in Nat
      /\ last_mid \in Nat /\ Len(out_messages) \in Nat
    BY LinearTypes
<1>2. /\ Running /\ ~Up' /\ wire' = EarlierRuns /\ acks' = <<>> /\ Len(<<>>) = 0
      /\ UNCHANGED <<pc, job, last_mid, out_messages, published>>
    BY EmptySeq DEF Disconnect, main, Up
<1>3. Acked' = Acked /\ Taken' = Acked
    BY <1>1, <1>2 DEF Acked, Taken
<1>4. \A i \in 1 .. Len(wire') : wire'[i].job # job
  <2>1. PICK n \in 0 .. Len(wire) : /\ EarlierRuns = SubSeq(wire, 1, n)
                                    /\ \A i \in 1 .. n : wire[i].job # job
      BY <1>1, EarlierRunsPlace
  <2>2. /\ Len(EarlierRuns) = n
        /\ \A i \in 1 .. n : EarlierRuns[i] = wire[i]
      BY <1>1, <2>1, PacketFacts, SubSeqProperties
  <2> QED
      BY <1>2, <2>1, <2>2
<1>5. Acked <= last_mid
    BY <1>1 DEF Acked
<1> QED
    BY <1>2, <1>3, <1>4, <1>5 DEF Linear, Running

(* The socket is there: what is not acknowledged waits, if there is any.   *)
LEMMA OpenSocketLinear ==
    ASSUME SenderInv, Linear, OpenSocket, job \notin overtaken
    PROVE  Linear' /\ Acked' = Acked /\ Taken' = Taken
<1>1. /\ last_mid \in Nat /\ Len(out_messages) \in Nat /\ Len(acks) \in Nat
    BY LinearTypes
<1>2. /\ Running /\ ~Up /\ Up' = (Len(out_messages) = 0)
      /\ UNCHANGED <<pc, job, last_mid, out_messages, published, wire, acks, overtaken>>
    BY DEF OpenSocket, main, network, past, Up
<1>3. Acked' = Acked /\ Taken' = Taken
    BY <1>2 DEF Acked, Taken
<1>4. /\ Acked \in Nat /\ published = 1 .. Acked /\ Taken <= last_mid
      /\ \A i \in 1 .. Len(out_messages) : out_messages[i].mid = Acked + i
      /\ \A i \in 1 .. Len(acks) : acks[i] = Acked + i
      /\ Len(acks) = 0 /\ \A i \in 1 .. Len(wire) : wire[i].job # job
    BY <1>2 DEF Linear
<1>5. Up' => Span(wire, job, Taken, last_mid)
  <2>1. Len(out_messages) = 0 => Taken = last_mid
      BY <1>1, <1>4 DEF Acked, Taken
  <2> QED
      BY <1>1, <1>2, <1>4, <2>1, SpanNone
<1> QED
    BY <1>2, <1>3, <1>4, <1>5 DEF Linear, Running

(* The CONNACK: what waited follows, in order.                             *)
LEMMA ConnAckLinear ==
    ASSUME SenderInv, Linear, ConnAck, job \notin overtaken
    PROVE  Linear' /\ Acked' = Acked /\ Taken' = Taken
<1>0. PICK waiting : waiting = SubSeq(out_messages, 1, unsent)
    OBVIOUS
<1>1. /\ wire \in Seq(PacketType) /\ out_messages \in Seq(PacketType)
      /\ last_mid \in Nat /\ Len(out_messages) \in Nat /\ Len(acks) \in Nat
    BY LinearTypes
<1>2. /\ Running /\ ~Up /\ Up' /\ unsent > 0 /\ wire' = wire \o waiting
      /\ UNCHANGED <<pc, job, last_mid, out_messages, published, acks, overtaken>>
    BY <1>0 DEF ConnAck, main, past, Up
<1>3. waiting = out_messages
  <2>1. unsent = Len(out_messages)
      BY <1>2 DEF SenderInv, Overtaking
  <2> QED
      BY <1>0, <1>1, <2>1, SubSeqFull
<1>4. /\ Acked \in Nat /\ published = 1 .. Acked /\ Taken <= last_mid
      /\ \A i \in 1 .. Len(out_messages) : out_messages[i].mid = Acked + i
      /\ \A i \in 1 .. Len(acks) : acks[i] = Acked + i
      /\ Len(acks) = 0 /\ \A i \in 1 .. Len(wire) : wire[i].job # job
    BY <1>2 DEF Linear
<1>5. Acked' = Acked /\ Taken' = Taken /\ Taken = Acked
    BY <1>1, <1>2, <1>4 DEF Acked, Taken
<1>6. \A i \in 1 .. Len(out_messages) : out_messages[i].job = job
    BY DEF SenderInv, Owned
<1>7. Span(wire', job, Acked, Acked + Len(out_messages))
    BY <1>1, <1>2, <1>3, <1>4, <1>6, SpanConcat
<1>8. Acked + Len(out_messages) = last_mid
    BY <1>1 DEF Acked
<1> QED
    BY <1>2, <1>4, <1>5, <1>7, <1>8 DEF Linear, Running

(* The broker takes the run's next message, or one of another run.         *)
LEMMA BrokerLinear ==
    ASSUME SenderInv, Linear, BrokerAccept, job \notin overtaken
    PROVE  /\ Linear' /\ Acked' = Acked
           /\ Running /\ Head(wire).job # job => Taken' = Taken
           /\ Running /\ Head(wire).job = job =>
                 Head(wire).mid = Taken + 1 /\ Taken' = Taken + 1
<1> DEFINE p == Head(wire)
<1>1. /\ acks \in Seq(Nat \ {0}) /\ Len(acks) \in Nat /\ job \in Nat
      /\ last_mid \in Nat /\ Len(out_messages) \in Nat
    BY LinearTypes
<1>2. /\ p = wire[1] /\ p \in PacketType /\ 1 \in 1 .. Len(wire)
      /\ Len(wire) \in Nat \ {0} /\ Len(wire') = Len(wire) - 1
      /\ \A i \in 1 .. Len(wire') : wire'[i] = wire[i + 1] /\ i + 1 \in 1 .. Len(wire)
      /\ UNCHANGED <<job, pc, last_mid, out_messages, published, overtaken>>
      /\ Up' = Up
    BY BrokerAcceptFacts DEF Up
<1>3. acks' = IF connected /\ p.job = job THEN Append(acks, p.mid) ELSE acks
    BY DEF BrokerAccept
<1>4. p.mid \in Nat \ {0}
    BY <1>2 DEF PacketType
<1> HIDE DEF p
<1>5. Acked' = Acked
    BY <1>2 DEF Acked
<1>6. CASE ~Running
    BY <1>2, <1>5, <1>6 DEF Linear, Running
<1>7. CASE Running /\ p.job # job
  <2>1. acks' = acks /\ Taken' = Taken
      BY <1>3, <1>5, <1>7 DEF Taken
  <2>2. Up => Span(wire', job, Taken, last_mid)
    <3>1. Up => Span(wire, job, Taken, last_mid)
        BY <1>7 DEF Linear
    <3>2. Taken \in Nat /\ Taken <= last_mid
        BY <1>1, <1>7 DEF Taken, Linear
    <3> QED
        BY <1>1, <1>2, <1>7, <3>1, <3>2, SpanTail
  <2>3. ~Up => Len(acks) = 0 /\ \A i \in 1 .. Len(wire') : wire'[i].job # job
      BY <1>2, <1>7 DEF Linear
  <2> QED
      BY <1>2, <1>5, <1>7, <2>1, <2>2, <2>3 DEF Linear, Running, p
<1>8. CASE Running /\ p.job = job
  <2>6. Up
      BY <1>2, <1>8 DEF Linear
  <2>1. Taken \in Nat /\ Taken <= last_mid /\ Span(wire, job, Taken, last_mid)
      BY <1>1, <1>8, <2>6 DEF Taken, Linear
  <2>2. p.mid = Taken + 1 /\ Taken + 1 <= last_mid /\ Span(wire', job, Taken + 1, last_mid)
    <3>1. /\ wire[1].job = job /\ wire[1].mid = p.mid /\ Len(wire) \in Nat \ {0}
          /\ Len(wire') = Len(wire) - 1
          /\ \A i \in 1 .. Len(wire') : wire'[i] = wire[i + 1] /\ i + 1 \in 1 .. Len(wire)
        BY <1>2, <1>8
    <3> QED
        BY <1>1, <2>1, <3>1, SpanTail
  <2>3. /\ Len(acks') = Len(acks) + 1
        /\ \A i \in 1 .. Len(acks) : acks'[i] = acks[i]
        /\ acks'[Len(acks) + 1] = p.mid
      BY <1>1, <1>3, <1>4, <1>8, <2>6, AppendProperties DEF Up
  <2>4. Taken' = Taken + 1 /\ Acked \in Nat
      BY <1>1, <1>5, <1>8, <2>3 DEF Taken, Linear
  <2>5. ASSUME NEW i \in 1 .. Len(acks') PROVE acks'[i] = Acked + i
    <3>1. CASE i = Len(acks) + 1
        BY <1>1, <2>2, <2>3, <2>4, <3>1 DEF Taken
    <3>2. CASE i \in 1 .. Len(acks)
        BY <1>8, <2>3, <3>2 DEF Linear
    <3> QED
        BY <1>1, <2>3, <3>1, <3>2
  <2> QED
      BY <1>2, <1>5, <1>8, <2>2, <2>4, <2>5, <2>6 DEF Linear, Running, p
<1> QED
    BY <1>6, <1>7, <1>8

LEMMA LinearKeeps ==
    ASSUME Flow, Linear, [TransferNext]_tvars
    PROVE  Linear'
<1> USE DEF Flow
<1>0. overtaken \subseteq overtaken'
    BY AcceptedGrows
<1> SUFFICES ASSUME job' \notin overtaken' PROVE Linear'
    BY DEF Linear
<1>1. CASE Launch
  <2>1. /\ Running' /\ job' = job /\ last_mid' = 0 /\ out_messages' = <<>>
        /\ published' = {} /\ Up' /\ wire' = wire /\ acks' = acks
        /\ pc = "manager" /\ ~connected /\ Len(acks) = 0 /\ Len(<<>>) = 0
    <3>1. ~Running
        BY <1>1 DEF Launch, Running
    <3>2. ~connected
        BY <3>1 DEF SenderInv, Phases
    <3> QED
        BY <1>1, <3>2, LinearTypes, EmptySeq DEF Launch, make_client, Running, network,
            Up
  <2>2. Acked' = 0 /\ Taken' = 0
    <3>1. last_mid' = 0 /\ Len(out_messages') = 0 /\ Len(acks') = 0
        BY <2>1
    <3> QED
        BY <3>1 DEF Acked, Taken
  <2>3. \A i \in 1 .. Len(wire) : wire[i].job # job
      BY <2>1, QueuesTyped DEF SenderInv, Queued
  <2>4. Span(wire, job, 0, 0)
      BY <2>3, SpanNone
  <2> QED
      BY <2>1, <2>2, <2>4 DEF Linear
<1>2. CASE LaunchMissing \/ LaunchFails \/ PublishChunkFails \/ Finish
    BY <1>2 DEF LaunchMissing, LaunchFails, PublishChunkFails, Finish, Linear, Running
<1>3. CASE AssignMid \/ AckSeen \/ AckTimeout \/ PublishWaited \/ PublishTimeout
  <2>1. /\ Running
        /\ UNCHANGED <<job, last_mid, out_messages, published, connected, unsent,
                       wire, acks, overtaken>>
      BY <1>3
      DEF AssignMid, AckSeen, AckTimeout, PublishWaited, PublishTimeout, Running,
          client, network, past
  <2> QED
      BY <2>1 DEF Linear, Acked, Taken, Up
<1>4. CASE PublishMetadata
  <2>1. /\ Running /\ Running' /\ job' = job
        /\ Publish(Metadata(filename, qos_level))
      BY <1>4 DEF PublishMetadata, Running
  <2>2. Metadata(filename, qos_level) \in Message
    <3>1. filename \in File /\ qos_level \in Qos
        BY <2>1, JobsNumbered, QosAssumption
        DEF SenderInv, Phases, filename, qos_level, Levels
    <3> QED
        BY <3>1 DEF Message
  <2> QED
      BY <2>1, <2>2, PublishLinear
<1>5. CASE PublishChunk
  <2> DEFINE c == Content[filename][chunk_num + 1]
  <2>1. /\ Running /\ Running' /\ job' = job /\ Publish(ChunkMessage(c))
        /\ chunk_num < total_chunks
      BY <1>5 DEF PublishChunk, Running
  <2>2. ChunkMessage(c) \in Message
    <3>1. Content[filename] \in Seq(Chunk) /\ total_chunks = Len(Content[filename])
        BY <2>1, RunFacts DEF filename, total_chunks, SenderInv, Phases
    <3>2. chunk_num + 1 \in 1 .. Len(Content[filename])
        BY <2>1, <3>1, LenProperties DEF SenderInv, SenderTyped
    <3> QED
        BY <3>1, <3>2, ElementOfSeq DEF Message
  <2> HIDE DEF c
  <2> QED
      BY <2>1, <2>2, PublishLinear
<1>6. CASE OnPublish \/ Disconnect \/ OpenSocket \/ ConnAck \/ BrokerAccept
  <2>1. job' = job
      BY <1>6 DEF OnPublish, Disconnect, OpenSocket, ConnAck, BrokerAccept, main
  <2> QED
      BY <1>0, <1>6, <2>1, OnPublishLinear, DisconnectLinear, OpenSocketLinear,
         ConnAckLinear, BrokerLinear
<1>7. CASE UNCHANGED svars
  <2>1. UNCHANGED <<pc, job, last_mid, out_messages, published, connected, unsent,
                    wire, acks, overtaken>>
      BY <1>7 DEF svars, main, client, network, past
  <2> QED
      BY <2>1 DEF Linear, Acked, Taken, Running, Up
<1> QED
    BY <1>1, <1>2, <1>3, <1>4, <1>5, <1>6, <1>7
    DEF TransferNext, SenderMoves, MainStep, BrokerRoutes, SubscribeCtrl,
        SubscribeData, Deliver, ReceiverDisconnect, ReceiverKill, ReceiverRestart,
        tvars

-----------------------------------------------------------------------------
(* The receiver and a run that is sent again: how far it is in the run, at *)
(* least, is the number of messages since the last metadata.               *)
Level(j) == IF Open(j) THEN received_chunks + 1 ELSE 0

(* Of places s to i - 1, one has message n of run j. *)
Since(q, s, i, j, n) == \E k \in s .. i - 1 : q[k].job = j /\ q[k].mid = n

(* Behind the first i - 1 messages of the queue, message m of run j is no  *)
(* further than the receiver's next, whichever metadata came last.         *)
Ready(q, i, j, x, m) ==
    m > 1 =>
        /\ m <= x + 1 \/ Since(q, 1, i, j, m - 1)
        /\ \A s \in 1 .. i - 1 :
              q[s].job = j /\ q[s].mid = 1 => Since(q, s, i, j, m - 1)

Follows(q, j, x) ==
    \A i \in 1 .. Len(q) : q[i].job = j => Ready(q, i, j, x, q[i].mid)

LEMMA ReadyFirst ==
    ASSUME NEW q, NEW i, NEW j, NEW x
    PROVE  Ready(q, i, j, x, 1)
  BY DEF Ready

(* What joins a queue changes nothing for what is in front of it ... *)
LEMMA ReadyInFront ==
    ASSUME NEW q, NEW r, NEW i \in Nat, NEW j, NEW x, NEW m,
           \A k \in 1 .. i - 1 : r[k] = q[k],
           Ready(q, i, j, x, m)
    PROVE  Ready(r, i, j, x, m)
<1>1. ASSUME NEW s \in 1 .. i, NEW n, Since(q, s, i, j, n) PROVE Since(r, s, i, j, n)
    BY <1>1 DEF Since
<1> SUFFICES ASSUME m > 1 PROVE Ready(r, i, j, x, m)
    BY DEF Ready
<1>2. m <= x + 1 \/ Since(r, 1, i, j, m - 1)
  <2>1. CASE Since(q, 1, i, j, m - 1)
    <3>1. 1 \in 1 .. i
        BY <2>1 DEF Since
    <3> QED
        BY <1>1, <2>1, <3>1
  <2> QED
      BY <2>1 DEF Ready
<1>3. ASSUME NEW s \in 1 .. i - 1, r[s].job = j, r[s].mid = 1
      PROVE  Since(r, s, i, j, m - 1)
  <2>1. q[s].job = j /\ q[s].mid = 1 /\ s \in 1 .. i
      BY <1>3
  <2>2. Since(q, s, i, j, m - 1)
      BY <2>1 DEF Ready
  <2> QED
      BY <1>1, <2>1, <2>2
<1> QED
    BY <1>2, <1>3 DEF Ready

(* ... makes its own successor ready, and unless it is metadata leaves     *)
(* ready what was.                                                         *)
LEMMA ReadyAppend ==
    ASSUME NEW q \in Seq(PacketType), NEW p \in PacketType, NEW j, NEW x \in Nat,
           NEW m \in Nat,
           \/ Ready(q, Len(q) + 1, j, x, m) /\ (p.job = j /\ p.mid = 1 => m = 1)
           \/ p.job = j /\ m = p.mid + 1
    PROVE  Ready(Append(q, p), Len(q) + 2, j, x, m)
<1> DEFINE r == Append(q, p)
           n == Len(q)
<1>1. /\ n \in Nat /\ \A k \in 1 .. n : r[k] = q[k]
      /\ r[n + 1] = p /\ p.mid \in Nat \ {0}
    BY InboxAppend DEF PacketType
<1> HIDE DEF r, n
<1> SUFFICES ASSUME m > 1 PROVE Ready(r, n + 2, j, x, m)
    BY DEF Ready, r, n
<1>2. CASE p.job = j /\ m = p.mid + 1
  <2>1. \A s \in 1 .. n + 1 : Since(r, s, n + 2, j, m - 1)
      BY <1>1, <1>2 DEF Since
  <2> QED
      BY <1>1, <2>1 DEF Ready
<1>3. CASE Ready(q, n + 1, j, x, m) /\ ~(p.job = j /\ p.mid = 1)
  <2>1. \A s \in 1 .. n + 1 : Since(q, s, n + 1, j, m - 1) => Since(r, s, n + 2, j, m - 1)
      BY <1>1 DEF Since
  <2>2. m <= x + 1 \/ Since(r, 1, n + 2, j, m - 1)
      BY <1>1, <1>3, <2>1 DEF Ready
  <2>3. ASSUME NEW s \in 1 .. n + 1, r[s].job = j, r[s].mid = 1
        PROVE  Since(r, s, n + 2, j, m - 1)
    <3>1. s \in 1 .. n /\ q[s].job = j /\ q[s].mid = 1
        BY <1>1, <1>3, <2>3
    <3> QED
        BY <1>1, <1>3, <2>1, <3>1 DEF Ready
  <2> QED
      BY <1>1, <2>2, <2>3 DEF Ready
<1> QED
    BY <1>2, <1>3 DEF n

(* The head of a queue is delivered: metadata of j takes the receiver back *)
(* to 1, a message of j no further than it may go.                         *)
LEMMA ReadyTail ==
    ASSUME NEW q \in Seq(PacketType), NEW r, NEW j, NEW x \in Nat, NEW y \in Nat,
           Len(q) \in Nat \ {0}, Len(r) = Len(q) - 1,
           \A i \in 1 .. Len(r) : r[i] = q[i + 1] /\ i + 1 \in 1 .. Len(q),
           q[1].job = j => q[1].mid <= y,
           x <= y \/ (q[1].job = j /\ q[1].mid = 1),
           NEW i \in 1 .. Len(q), NEW m \in Nat, Ready(q, i + 1, j, x, m)
    PROVE  Ready(r, i, j, y, m)
<1> SUFFICES ASSUME m > 1 PROVE Ready(r, i, j, y, m)
    BY DEF Ready
<1>1. /\ Len(r) \in Nat /\ 1 \in 1 .. Len(q)
      /\ q[1].job = j => q[1].mid \in Nat
    BY PacketFacts
<1>2. ASSUME NEW s \in 1 .. i, NEW n, Since(q, s, i + 1, j, n)
      PROVE  \/ s = 1 /\ q[1].job = j /\ q[1].mid = n
             \/ Since(r, s - 1, i, j, n) /\ s - 1 \in 1 .. i
             \/ s = 1 /\ Since(r, 1, i, j, n)
  <2>1. PICK k \in s .. i : q[k].job = j /\ q[k].mid = n
      BY <1>2 DEF Since
  <2>2. CASE k = 1
      BY <2>1, <2>2
  <2>3. CASE k # 1
    <3>1. k - 1 \in 1 .. i - 1 /\ k - 1 \in 1 .. Len(r) /\ (k - 1) + 1 = k
          /\ k - 1 >= s - 1
      <4>1. k \in Nat /\ s \in Nat /\ i \in Nat /\ s <= k /\ k <= i /\ 1 <= s
          OBVIOUS
      <4>2. 1 < k /\ i <= Len(q)
          BY <2>3, <4>1
      <4>3. k - 1 \in Nat /\ 1 <= k - 1 /\ k - 1 <= i - 1 /\ k - 1 <= Len(r)
          BY <4>1, <4>2
      <4> QED
          BY <1>1, <4>1, <4>3
    <3>2. r[k - 1] = q[k]
        BY <3>1
    <3>3. CASE s = 1
        BY <2>1, <3>1, <3>2, <3>3 DEF Since
    <3>4. CASE s # 1
      <4>1. s - 1 \in 1 .. i /\ k - 1 \in s - 1 .. i - 1
          BY <2>1, <3>1, <3>4
      <4> QED
          BY <2>1, <3>2, <4>1 DEF Since
    <3> QED
        BY <3>3, <3>4
  <2> QED
      BY <2>2, <2>3
<1>3. m <= y + 1 \/ Since(r, 1, i, j, m - 1)
  <2>1. CASE Since(q, 1, i + 1, j, m - 1)
    <3>1. 1 \in 1 .. i
        OBVIOUS
    <3>2. \/ q[1].job = j /\ q[1].mid = m - 1
          \/ Since(r, 1, i, j, m - 1)
          \/ 1 - 1 \in 1 .. i
        BY <1>2, <2>1, <3>1
    <3> QED
        BY <3>2
  <2>2. CASE q[1].job = j /\ q[1].mid = 1
    <3>1. Since(q, 1, i + 1, j, m - 1)
      <4>1. 1 \in 1 .. (i + 1) - 1
          OBVIOUS
      <4> QED
          BY <2>2, <4>1 DEF Ready
    <3> QED
        BY <2>1, <3>1
  <2>3. CASE x <= y /\ m <= x + 1
      BY <2>3
  <2> QED
      BY <2>1, <2>2, <2>3 DEF Ready
<1>4. ASSUME NEW s \in 1 .. i - 1, r[s].job = j, r[s].mid = 1
      PROVE  Since(r, s, i, j, m - 1)
  <2>1. /\ s \in 1 .. Len(r) /\ s + 1 \in 1 .. i /\ s + 1 \in 1 .. (i + 1) - 1
        /\ (s + 1) - 1 = s /\ s + 1 # 1
      BY <1>1
  <2>2. q[s + 1].job = j /\ q[s + 1].mid = 1
      BY <1>4, <2>1
  <2>3. Since(q, s + 1, i + 1, j, m - 1)
      BY <2>1, <2>2 DEF Ready
  <2>4. \/ Since(r, (s + 1) - 1, i, j, m - 1)
        \/ s + 1 = 1
      BY <1>2, <2>1, <2>3
  <2> QED
      BY <2>1, <2>4
<1> QED
    BY <1>3, <1>4 DEF Ready

(* Without a message of the run in the queue only the receiver counts.     *)
LEMMA ReadyNothing ==
    ASSUME NEW q, NEW j, NEW x, NEW m, \A i \in 1 .. Len(q) : q[i].job # j,
           Len(q) \in Nat, Ready(q, Len(q) + 1, j, x, m)
    PROVE  Ready(<<>>, 1, j, x, m)
<1>1. \A n : ~Since(q, 1, Len(q) + 1, j, n)
    BY DEF Since
<1> QED
    BY <1>1 DEF Ready

(* The run whose file is open is one the broker knows of, and no earlier   *)
(* run's messages are waiting.                                             *)
OpenKnown ==
    \A j \in Jobs : Open(j) =>
        <<j, 1>> \in accepted /\ \A i \in 1 .. Len(inbox) : j <= inbox[i].job

LEMMA OpenKnownKeeps ==
    ASSUME Flow, OpenKnown, [TransferNext]_tvars
    PROVE  OpenKnown'
<1> SUFFICES ASSUME NEW j \in Jobs, Open(j)'
             PROVE  <<j, 1>> \in accepted' /\ \A i \in 1 .. Len(inbox') : j <= inbox'[i].job
    BY DEF OpenKnown
<1>1. /\ j \in Nat /\ JobFile(j) # None /\ accepted \subseteq accepted'
      /\ inbox \in Seq(PacketType) /\ Len(inbox) \in Nat
    BY RunFacts, AcceptedGrows, PacketFacts DEF Flow, TransferTyped
<1>2. CASE Open(j) /\ inbox' = inbox
    BY <1>1, <1>2 DEF OpenKnown
<1>3. CASE BrokerRoutes
  <2> DEFINE p == Head(wire)
  <2>1. /\ p = wire[1] /\ p \in PacketType /\ 1 \in 1 .. Len(wire)
        /\ inbox' = Append(inbox, p) \/ inbox' = inbox
        /\ UNCHANGED <<current_file_handle, current_qos>>
      BY <1>3, BrokerAcceptFacts DEF BrokerRoutes, Flow, vars, transfer
  <2>2. Open(j) /\ <<j, 1>> \in accepted /\ <<j, 1>>[1] = j
      BY <2>1 DEF Open, OpenKnown
  <2>3. j <= p.job
      BY <2>1, <2>2 DEF Flow, InOrder
  <2> HIDE DEF p
  <2>4. CASE inbox' = Append(inbox, p)
    <3>1. \A i \in 1 .. Len(inbox') :
              \/ i \in 1 .. Len(inbox) /\ inbox'[i] = inbox[i]
              \/ inbox'[i] = p
        BY <1>1, <2>1, <2>4, InboxAppend
    <3> QED
        BY <1>1, <2>2, <2>3, <3>1 DEF OpenKnown
  <2> QED
      BY <1>2, <2>1, <2>2, <2>4
<1>4. CASE Deliver
  <2>1. /\ Len(inbox) \in Nat \ {0} /\ 1 \in 1 .. Len(inbox) /\ inbox[1].job \in Jobs
        /\ accepted' = accepted
        /\ alive' => \A i \in 1 .. Len(inbox') :
                        inbox'[i] = inbox[i + 1] /\ i + 1 \in 1 .. Len(inbox)
      BY <1>4, InboxTail DEF svars, network
  <2>2. CASE Opens(inbox[1].job) /\ inbox[1].mid = 1
    <3>1. j = inbox[1].job
        BY <2>1, <2>2, JobsDistinct DEF Opens, Open
    <3>2. <<j, 1>> \in accepted
        BY <2>1, <2>2, <3>1 DEF Flow, Carried
    <3>3. \A i \in 1 .. Len(inbox) : 1 <= i
        OBVIOUS
    <3>4. \A i \in 1 .. Len(inbox) : j <= inbox[i].job
        BY <2>1, <3>1, <3>3 DEF Flow, InOrder
    <3> QED
        BY <2>1, <2>2, <3>2, <3>4 DEF Opens
  <2>3. CASE Takes(ChunkOf(inbox[1]))
    <3>1. Open(j) /\ alive'
        BY <2>3 DEF Takes, Open
    <3> QED
        BY <2>1, <3>1 DEF OpenKnown
  <2>4. ~Dies(inbox[1].job) /\ ~Completes(ChunkOf(inbox[1])) /\ ~Ignores
      BY <1>1 DEF Dies, Completes, Ignores, Open
  <2> QED
      BY <1>4, <2>2, <2>3, <2>4, DeliverOutcome
<1>5. CASE ReceiverDisconnect
  <2>1. /\ inbox' = <<>> /\ Len(<<>>) = 0 /\ accepted' = accepted
        /\ UNCHANGED <<current_file_handle, current_qos>>
      BY <1>5, EmptySeq
      DEF ReceiverDisconnect, SessionEnds, svars, network, vars, transfer
  <2>2. Open(j) /\ Len(inbox') = 0
      BY <2>1 DEF Open
  <2> QED
      BY <2>1, <2>2 DEF OpenKnown
<1>6. CASE ReceiverKill \/ ReceiverRestart
    BY <1>1, <1>6 DEF ReceiverKill, ReceiverRestart, Kill, Restart, Open
<1>7. CASE SenderMoves \/ SubscribeCtrl \/ SubscribeData \/ UNCHANGED tvars
  <2>1. inbox' = inbox /\ UNCHANGED <<current_file_handle, current_qos>>
      BY <1>7
      DEF SenderMoves, SubscribeCtrl, SubscribeData, tvars, vars, transfer, session
  <2> QED
      BY <1>2, <2>1 DEF Open
<1> QED
    BY <1>3, <1>4, <1>5, <1>6, <1>7 DEF TransferNext

(* While run j has no row and nothing of it was dropped: what waits for    *)
(* the receiver it can take, message by message; behind that it can take   *)
(* what the wire has of the run, and what a new connection would send      *)
(* again; and the run's last message, once the broker has it, is waiting.  *)
Awaits(j) ==
    \E a, hi \in Nat :
        /\ a <= hi /\ Span(wire, j, a, hi)
        /\ Ready(inbox, Len(inbox) + 1, j, Level(j), a + 1)

Resendable(j) ==
    j = job /\ Running =>
        \A b \in Acked .. Taken :
            Ready(inbox, Len(inbox) + 1, j, Level(j), b + 1)

LastWaits(j) ==
    <<j, Whole(j)>> \in accepted =>
        \E i \in 1 .. Len(inbox) : inbox[i].job = j /\ inbox[i].mid = Whole(j)

Chases(j) ==
    Follows(inbox, j, Level(j)) /\ Awaits(j) /\ Resendable(j) /\ LastWaits(j)

(* A step that leaves the receiver and its queue alone and brings nothing  *)
(* of the run nearer.                                                      *)
LEMMA ChasesSame ==
    ASSUME NEW j, Chases(j), inbox' = inbox, Level(j)' = Level(j),
           <<j, Whole(j)>> \in accepted' => <<j, Whole(j)>> \in accepted,
           \A a, hi \in Nat : a <= hi /\ Span(wire, j, a, hi) => Span(wire', j, a, hi),
           j = job' /\ Running' =>
              j = job /\ Running /\ Acked' = Acked /\ Taken' = Taken
    PROVE  Chases(j)'
<1>1. Follows(inbox, j, Level(j))' /\ LastWaits(j)' /\ Resendable(j)'
    BY DEF Chases, Follows, LastWaits, Resendable, Whole
<1>2. PICK a, hi \in Nat : /\ a <= hi /\ Span(wire, j, a, hi)
                           /\ Ready(inbox, Len(inbox) + 1, j, Level(j), a + 1)
    BY DEF Chases, Awaits
<1>3. Ready(inbox', Len(inbox') + 1, j, Level(j)', a + 1)
    BY <1>2
<1>4. Awaits(j)'
    BY <1>2, <1>3 DEF Awaits
<1> QED
    BY <1>1, <1>4 DEF Chases

(* A run of which nothing is on its way any more, its end never taken.     *)
LEMMA NoneChases ==
    ASSUME NEW j, j # job' \/ ~Running', <<j, Whole(j)>> \notin accepted',
           \A i \in 1 .. Len(inbox') : inbox'[i].job # j,
           \A i \in 1 .. Len(wire') : wire'[i].job # j
    PROVE  Chases(j)'
<1>1. Follows(inbox, j, Level(j))' /\ LastWaits(j)' /\ Resendable(j)'
    BY DEF Follows, LastWaits, Resendable, Whole
<1>2. Span(wire', j, 0, 0)
    BY SpanNone
<1>3. Ready(inbox', Len(inbox') + 1, j, Level(j)', 0 + 1)
    BY ReadyFirst
<1>4. Awaits(j)'
    BY <1>2, <1>3 DEF Awaits
<1> QED
    BY <1>1, <1>4 DEF Chases

(* paho's publish changes neither count.                                   *)
LEMMA PublishCounts ==
    ASSUME SenderInv, NEW body, Publish(body)
    PROVE  Acked' = Acked /\ Taken' = Taken
<1> DEFINE p == Packet(job, last_mid + 1, body)
<1>1. /\ out_messages \in Seq(PacketType) /\ Len(out_messages) \in Nat
      /\ last_mid \in Nat
    BY LinearTypes
<1>2. /\ last_mid' = last_mid + 1 /\ out_messages' = Append(out_messages, p)
      /\ acks' = acks
    BY DEF Publish
<1>3. Len(out_messages') = Len(out_messages) + 1
  <2> HIDE DEF p
  <2>1. Len(Append(out_messages, p)) = Len(out_messages) + 1
      BY <1>1
  <2> QED
      BY <1>2, <2>1
<1> QED
    BY <1>1, <1>2, <1>3 DEF Acked, Taken

(* A step of the sender adds to the wire what the receiver can take, or    *)
(* nothing.                                                                *)
LEMMA SenderMovesOther ==
    ASSUME SenderInv, MainStep \/ OnPublish \/ Disconnect \/ OpenSocket \/ ConnAck,
           NEW j, j # job
    PROVE  SameOf(wire, wire', j) /\ ~(j = job' /\ Running')
<1> USE DEF globals, main, client, network, past, Running
<1>1. wire \in Seq(PacketType) /\ job \in Nat /\ last_mid \in Nat
    BY LinearTypes
<1>2. CASE LaunchMissing \/ Finish
    BY <1>2, SameItself, SameEarlierRuns DEF LaunchMissing, Finish
<1>3. CASE /\ Launch \/ LaunchFails \/ AssignMid \/ AckSeen \/ AckTimeout
              \/ PublishChunkFails \/ PublishWaited \/ PublishTimeout \/ OnPublish
  <2>1. wire' = wire /\ job' = job
      BY <1>3
      DEF Launch, LaunchFails, AssignMid, AckSeen, AckTimeout, PublishChunkFails,
          PublishWaited, PublishTimeout, OnPublish
  <2> QED
      BY <2>1, SameItself
<1>4. CASE PublishMetadata \/ PublishChunk
  <2>1. /\ job' = job /\ Running
        /\ \E body : Publish(body)
      BY <1>4 DEF PublishMetadata, PublishChunk
  <2>2. PICK body : Publish(body)
      BY <2>1
  <2> DEFINE p == Packet(job, last_mid + 1, body)
  <2>3. p.job = job /\ wire' \in {wire, Append(wire, p)}
      BY <2>2 DEF Publish, Packet
  <2> HIDE DEF p
  <2>4. /\ Len(Append(wire, p)) = Len(wire) + 1 /\ Len(wire) \in Nat
        /\ \A i \in 1 .. Len(wire) : Append(wire, p)[i] = wire[i]
        /\ Append(wire, p)[Len(wire) + 1] = p
      BY <1>1
  <2>5. SameOf(wire, Append(wire, p), j)
    <3>1. \A i \in 1 .. Len(Append(wire, p)) : i \in 1 .. Len(wire) \/ i = Len(wire) + 1
        BY <2>4
    <3>2. \A i \in 1 .. Len(wire) : i \in 1 .. Len(Append(wire, p))
        BY <2>4
    <3> QED
        BY <2>3, <2>4, <3>1, <3>2 DEF SameOf
  <2> QED
      BY <2>1, <2>3, <2>5, SameItself
<1>5. CASE Disconnect
    BY <1>5, SameEarlierRuns DEF Disconnect
<1>6. CASE OpenSocket
    BY <1>6, SameItself DEF OpenSocket
<1>7. CASE ConnAck
  <2>1. unsent \in 0 .. Len(out_messages)
      BY LinearTypes
  <2>2. PICK n \in 0 .. Len(out_messages) : n = unsent
      BY <2>1
  <2>3. SameOf(wire, wire \o SubSeq(out_messages, 1, n), j)
      BY SameResent
  <2> QED
      BY <1>7, <2>2, <2>3 DEF ConnAck
<1> QED
    BY <1>2, <1>3, <1>4, <1>5, <1>6, <1>7 DEF MainStep

(* While the run goes on, what paho counts as acknowledged and what the    *)
(* broker has acknowledged come nearer to each other, or stay.             *)
LEMMA CountsClose ==
    ASSUME SenderInv, Linear, Running, Running', job \notin overtaken,
           MainStep \/ OnPublish \/ Disconnect \/ OpenSocket \/ ConnAck
    PROVE  /\ job' = job
           /\ \A b \in Acked' .. Taken' : b \in Acked .. Taken
<1>1. /\ Acked \in Nat /\ Len(acks) \in Nat /\ Taken = Acked + Len(acks)
    BY LinearTypes DEF Linear, Taken
<1>2. CASE PublishMetadata \/ PublishChunk
  <2>1. job' = job /\ \E body : Publish(body)
      BY <1>2 DEF PublishMetadata, PublishChunk
  <2> QED
      BY <2>1, PublishCounts
<1>3. CASE AssignMid \/ AckSeen \/ AckTimeout \/ PublishWaited \/ PublishTimeout
  <2>1. UNCHANGED <<job, last_mid, out_messages, acks>>
      BY <1>3
      DEF AssignMid, AckSeen, AckTimeout, PublishWaited, PublishTimeout, client, network
  <2> QED
      BY <2>1 DEF Acked, Taken
<1>4. CASE OnPublish
  <2>1. Acked' = Acked + 1 /\ Taken' = Taken /\ job' = job
      BY <1>4, OnPublishLinear DEF OnPublish, main
  <2> QED
      BY <1>1, <2>1
<1>5. CASE Disconnect
  <2>1. Acked' = Acked /\ Taken' = Acked /\ job' = job
      BY <1>5, DisconnectLinear DEF Disconnect, main
  <2> QED
      BY <1>1, <2>1
<1>6. CASE OpenSocket \/ ConnAck
    BY <1>6, OpenSocketLinear, ConnAckLinear DEF OpenSocket, ConnAck, main
<1>7. CASE Launch \/ LaunchMissing \/ LaunchFails \/ PublishChunkFails \/ Finish
    BY <1>7 DEF Launch, LaunchMissing, LaunchFails, PublishChunkFails, Finish, Running
<1> QED
    BY <1>2, <1>3, <1>4, <1>5, <1>6, <1>7 DEF MainStep

LEMMA SenderMovesChases ==
    ASSUME Flow, Flow', Linear, Linear', SenderMoves, NEW j \in Reportable,
           j \notin lost', j \notin overtaken', Chases(j)
    PROVE  Chases(j)'
<1> USE DEF globals, main, client, network, past
<1>1. /\ MainStep \/ OnPublish \/ Disconnect \/ OpenSocket \/ ConnAck
      /\ job' # job /\ wire' # wire => job \in lost'
      /\ inbox' = inbox /\ accepted' = accepted
      /\ j \notin overtaken
      /\ UNCHANGED <<current_file_handle, current_qos, received_chunks>>
    BY SenderMovesFacts DEF SenderMoves, Flow, vars, transfer
<1>2. Level(j)' = Level(j) /\ SenderInv
    BY <1>1 DEF Level, Open, Flow
<1>3. CASE j # job
  <2>1. SameOf(wire, wire', j) /\ ~(j = job' /\ Running')
      BY <1>1, <1>2, <1>3, SenderMovesOther
  <2> QED
      BY <1>1, <1>2, <2>1, SpanSame, ChasesSame
<1>4. CASE j = job /\ Running /\ Running'
  <2>1. job' = job /\ \A b \in Acked' .. Taken' : b \in Acked .. Taken
      BY <1>1, <1>2, <1>4, CountsClose
  <2>2. /\ last_mid' \in Nat /\ Len(acks') \in Nat
        /\ Acked' \in Nat /\ Taken' = Acked' + Len(acks') /\ Taken' <= last_mid'
    <3>1. last_mid' \in Nat /\ acks' \in Seq(Nat \ {0})
        BY DEF Flow, SenderInv, SenderTyped
    <3> QED
        BY <1>4, <2>1, <3>1, LenProperties DEF Linear, Taken
  <2>3. Taken' \in Acked' .. Taken' /\ Taken' \in Nat
      BY <2>2
  <2>4. Resendable(j)'
      BY <1>1, <1>2, <1>4, <2>1 DEF Chases, Resendable
  <2>5. Ready(inbox', Len(inbox') + 1, j, Level(j)', Taken' + 1)
      BY <1>1, <1>2, <1>4, <2>1, <2>3 DEF Chases, Resendable
  <2>6. PICK hi \in Nat : Taken' <= hi /\ Span(wire', j, Taken', hi)
    <3>1. CASE Up'
        BY <1>4, <2>1, <2>2, <3>1 DEF Linear
    <3>2. CASE ~Up'
      <4>1. \A i \in 1 .. Len(wire') : wire'[i].job # j
          BY <1>4, <2>1, <3>2 DEF Linear
      <4> QED
          BY <2>3, <4>1, SpanNone
    <3> QED
        BY <3>1, <3>2
  <2>7. Awaits(j)'
      BY <2>3, <2>5, <2>6 DEF Awaits
  <2>8. Follows(inbox, j, Level(j))' /\ LastWaits(j)'
      BY <1>1, <1>2 DEF Chases, Follows, LastWaits, Whole
  <2> QED
      BY <2>4, <2>7, <2>8 DEF Chases
<1>5. CASE j = job /\ ~Running'
  <2>1. job \in Nat
      BY <1>2, LinearTypes
  <2>2. wire' = wire
      BY <1>1, <1>5, <2>1
      DEF MainStep, Launch, LaunchMissing, LaunchFails, PublishMetadata, AssignMid,
          AckSeen, AckTimeout, PublishChunk, PublishChunkFails, PublishWaited,
          PublishTimeout, Finish, OnPublish, Disconnect, OpenSocket, ConnAck,
          Running
  <2> QED
      BY <1>1, <1>2, <1>5, <2>2, ChasesSame
<1>6. CASE j = job /\ ~Running /\ Running'
  <2>1. Launch
      BY <1>1, <1>6
      DEF MainStep, LaunchMissing, LaunchFails, PublishMetadata, AssignMid,
          AckSeen, AckTimeout, PublishChunk, PublishChunkFails, PublishWaited,
          PublishTimeout, Finish, OnPublish, Disconnect, OpenSocket, ConnAck,
          Running
  <2>2. /\ wire' = wire /\ last_mid' = 0 /\ out_messages' = <<>> /\ Len(<<>>) = 0
        /\ acks' = acks /\ ~connected /\ Len(acks) = 0
    <3>1. ~connected
        BY <1>2, <1>6 DEF SenderInv, Phases
    <3> QED
        BY <1>2, <2>1, <3>1, LinearTypes, EmptySeq DEF Launch, make_client
  <2>3. Acked' = 0 /\ Taken' = 0
    <3>1. last_mid' = 0 /\ Len(out_messages') = 0 /\ Len(acks') = 0
        BY <2>2
    <3> QED
        BY <3>1 DEF Acked, Taken
  <2>4. Resendable(j)'
    <3>1. \A b \in Acked' .. Taken' : b + 1 = 1
        BY <2>3
    <3> QED
        BY <3>1, ReadyFirst DEF Resendable
  <2>5. /\ Awaits(j)' /\ Follows(inbox, j, Level(j))' /\ LastWaits(j)'
      BY <1>1, <1>2, <2>2 DEF Chases, Awaits, Follows, LastWaits, Whole
  <2> QED
      BY <2>4, <2>5 DEF Chases
<1> QED
    BY <1>3, <1>4, <1>5, <1>6

(* The broker takes what is next of the run, and it joins the receiver's   *)
(* queue.                                                                  *)
LEMMA BrokerRoutesChases ==
    ASSUME Flow, Linear, BrokerRoutes, NEW j \in Reportable, j \notin lost',
           j \notin overtaken, Chases(j)
    PROVE  Chases(j)'
<1> DEFINE p == Head(wire)
           n == Len(inbox)
           x == Level(j)
<1>1. /\ p = wire[1] /\ p \in PacketType /\ 1 \in 1 .. Len(wire)
      /\ Len(wire) \in Nat \ {0} /\ Len(wire') = Len(wire) - 1
      /\ \A i \in 1 .. Len(wire') : wire'[i] = wire[i + 1] /\ i + 1 \in 1 .. Len(wire)
      /\ accepted' = accepted \cup {<<p.job, p.mid>>}
      /\ UNCHANGED <<job, pc, last_mid>>
    BY BrokerAcceptFacts DEF BrokerRoutes, Flow
<1>2. /\ inbox' = Append(inbox, p) \/ (inbox' = inbox /\ p.job \in lost')
      /\ UNCHANGED <<current_file_handle, current_qos, received_chunks>>
    BY DEF BrokerRoutes, vars, transfer
<1>3. /\ Level(j)' = x /\ x \in Nat
      /\ inbox \in Seq(PacketType) /\ n \in Nat /\ p.mid \in Nat \ {0}
      /\ (Running' <=> Running) /\ Whole(j) \in Nat
  <2>1. inbox \in Seq(PacketType) /\ n \in Nat /\ j \in Jobs
      BY PacketFacts DEF Flow, TransferTyped, Reportable
  <2> QED
      BY <1>1, <1>2, <2>1, RunFacts
      DEF Level, Open, Running, Flow, IInv, TypeOK, PacketType
<1>4. j = job /\ Running =>
          /\ Acked' = Acked /\ Acked \in Nat /\ Taken \in Nat
          /\ Taken = Acked + Len(acks) /\ Len(acks) \in Nat
          /\ p.job # j => Taken' = Taken
          /\ p.job = j => p.mid = Taken + 1 /\ Taken' = Taken + 1
  <2>1. SenderInv /\ BrokerAccept
      BY DEF Flow, BrokerRoutes
  <2>2. Len(acks) \in Nat
      BY <2>1, LinearTypes
  <2> QED
      BY <2>1, <2>2, BrokerLinear DEF Linear, Taken
<1>5. PICK a, hi \in Nat : /\ a <= hi /\ Span(wire, j, a, hi)
                           /\ Ready(inbox, n + 1, j, x, a + 1)
    BY DEF Chases, Awaits
<1>6. /\ Follows(inbox, j, x)
      /\ j = job /\ Running =>
            \A b \in Acked .. Taken : Ready(inbox, n + 1, j, x, b + 1)
    BY DEF Chases, Resendable
<1> HIDE DEF p, x
<1>7. CASE p.job # j /\ inbox' = inbox
  <2>1. <<j, Whole(j)>> \in accepted' => <<j, Whole(j)>> \in accepted
      BY <1>1, <1>7
  <2>2. \A b, h \in Nat : b <= h /\ Span(wire, j, b, h) => Span(wire', j, b, h)
      BY <1>1, <1>7, SpanTail
  <2> QED
      BY <1>1, <1>3, <1>4, <1>7, <2>1, <2>2, ChasesSame DEF x
<1>8. CASE inbox' = Append(inbox, p)
  <2>1. /\ Len(inbox') = n + 1 /\ inbox'[n + 1] = p
        /\ \A i \in 1 .. n : inbox'[i] = inbox[i] /\ i \in 1 .. Len(inbox')
        /\ \A i \in 1 .. Len(inbox') : i \in 1 .. n \/ i = n + 1
      BY <1>1, <1>3, <1>8, InboxAppend
  <2>2. \A i \in 1 .. n + 1 : \A m :
            Ready(inbox, i, j, x, m) => Ready(inbox', i, j, x, m)
    <3>1. \A i \in 1 .. n + 1 : \A k \in 1 .. i - 1 : k \in 1 .. n
        BY <1>3
    <3>2. \A i \in 1 .. n + 1 : i \in Nat
        OBVIOUS
    <3> QED
        BY <2>1, <3>1, <3>2, ReadyInFront
  <2>3. \A m \in Nat : \/ Ready(inbox, n + 1, j, x, m) /\ (p.job = j /\ p.mid = 1 => m = 1)
                       \/ p.job = j /\ m = p.mid + 1
                       => Ready(inbox', Len(inbox') + 1, j, x, m)
    <3>1. Len(inbox') + 1 = n + 2
        BY <1>3, <2>1
    <3> QED
        BY <1>1, <1>3, <1>8, <3>1, ReadyAppend
  <2>4. p.job = j => p.mid = a + 1 /\ a + 1 <= hi /\ Span(wire', j, a + 1, hi)
      BY <1>1, <1>5, SpanTail
  <2>5. Follows(inbox', j, x)
    <3>1. ASSUME NEW i \in 1 .. n, inbox'[i].job = j
          PROVE  Ready(inbox', i, j, x, inbox'[i].mid)
      <4>1. Ready(inbox, i, j, x, inbox[i].mid) /\ inbox'[i] = inbox[i]
          BY <1>6, <2>1, <3>1 DEF Follows
      <4>2. i \in 1 .. n + 1
          BY <1>3
      <4> QED
          BY <2>2, <4>1, <4>2
    <3>2. p.job = j => Ready(inbox', n + 1, j, x, p.mid)
      <4>1. n + 1 \in 1 .. n + 1
          BY <1>3
      <4> QED
          BY <1>5, <2>2, <2>4, <4>1
    <3> QED
        BY <2>1, <3>1, <3>2 DEF Follows
  <2>6. Awaits(j)'
    <3>1. CASE p.job = j
      <4>1. Ready(inbox', Len(inbox') + 1, j, x, (a + 1) + 1)
          BY <2>3, <2>4, <3>1
      <4>2. a + 1 \in Nat
          OBVIOUS
      <4> QED
          BY <1>3, <2>4, <3>1, <4>1, <4>2 DEF Awaits
    <3>2. CASE p.job # j
      <4>1. Span(wire', j, a, hi)
          BY <1>1, <1>5, <3>2, SpanTail
      <4>2. Ready(inbox', Len(inbox') + 1, j, x, a + 1)
          BY <1>5, <2>3, <3>2
      <4> QED
          BY <1>3, <1>5, <4>1, <4>2 DEF Awaits
    <3> QED
        BY <3>1, <3>2
  <2>7. Resendable(j)'
    <3> SUFFICES ASSUME j = job, Running, NEW b \in Acked' .. Taken'
                 PROVE  Ready(inbox', Len(inbox') + 1, j, x, b + 1)
        BY <1>1, <1>3 DEF Resendable
    <3>1. CASE p.job = j /\ b = Taken + 1
        BY <1>4, <2>3, <3>1
    <3>2. CASE ~(p.job = j /\ b = Taken + 1)
      <4>1. b \in Acked .. Taken /\ b \in Nat
          BY <1>4, <3>2
      <4>2. p.job = j /\ p.mid = 1 => b + 1 = 1
          BY <1>4, <4>1
      <4> QED
          BY <1>6, <2>3, <4>1, <4>2
    <3> QED
        BY <3>1, <3>2
  <2>8. LastWaits(j)'
    <3> SUFFICES ASSUME <<j, Whole(j)>> \in accepted'
                 PROVE  \E i \in 1 .. Len(inbox') :
                            inbox'[i].job = j /\ inbox'[i].mid = Whole(j)
        BY DEF LastWaits, Whole
    <3>1. CASE <<j, Whole(j)>> \in accepted
        BY <2>1, <3>1 DEF Chases, LastWaits
    <3>2. CASE <<j, Whole(j)>> = <<p.job, p.mid>>
      <4>1. n + 1 \in 1 .. Len(inbox') /\ p.job = j /\ p.mid = Whole(j)
          BY <1>3, <2>1, <3>2
      <4> QED
          BY <2>1, <4>1
    <3> QED
        BY <1>1, <3>1, <3>2
  <2> QED
      BY <1>3, <2>5, <2>6, <2>7, <2>8 DEF Chases
<1> QED
    BY <1>2, <1>7, <1>8

(* The receiver's queue loses its head, and the receiver gets no further   *)
(* than that, or back to a run's beginning.                                *)
LEMMA TailChases ==
    ASSUME NEW j, Chases(j), inbox \in Seq(PacketType), Len(inbox) \in Nat \ {0},
           Len(inbox') = Len(inbox) - 1,
           \A i \in 1 .. Len(inbox') :
              inbox'[i] = inbox[i + 1] /\ i + 1 \in 1 .. Len(inbox),
           NEW x \in Nat, NEW y \in Nat, Level(j) = x, Level(j)' = y,
           inbox[1].job = j => inbox[1].mid <= y /\ inbox[1].mid # Whole(j),
           x <= y \/ (inbox[1].job = j /\ inbox[1].mid = 1),
           Acked \in Int, Taken \in Int,
           j = job /\ Running => Acked \in Nat,
           UNCHANGED <<wire, accepted, job, pc, last_mid, out_messages, acks>>
    PROVE  Chases(j)'
<1> DEFINE n == Len(inbox)
<1>1. \A i \in 1 .. n : \A m \in Nat :
          Ready(inbox, i + 1, j, x, m) => Ready(inbox', i, j, y, m)
  <2>1. inbox[1].job = j => inbox[1].mid <= y
      OBVIOUS
  <2> QED
      BY <2>1, ReadyTail
<1>2. n \in 1 .. n /\ Len(inbox') + 1 = n
    OBVIOUS
<1>3. \A m \in Nat :
          Ready(inbox, n + 1, j, x, m) => Ready(inbox', Len(inbox') + 1, j, y, m)
    BY <1>1, <1>2
<1>4. (Running' <=> Running) /\ Acked' = Acked /\ Taken' = Taken
    BY DEF Running, Acked, Taken
<1>5. Follows(inbox', j, y)
  <2> SUFFICES ASSUME NEW i \in 1 .. Len(inbox'), inbox'[i].job = j
               PROVE  Ready(inbox', i, j, y, inbox'[i].mid)
      BY DEF Follows
  <2>1. i + 1 \in 1 .. n /\ i \in 1 .. n /\ inbox'[i] = inbox[i + 1]
      OBVIOUS
  <2>2. Ready(inbox, i + 1, j, x, inbox[i + 1].mid)
      BY <2>1 DEF Chases, Follows
  <2>3. inbox[i + 1].mid \in Nat
      BY <2>1, PacketFacts
  <2> QED
      BY <1>1, <2>1, <2>2, <2>3
<1>6. Awaits(j)'
  <2>1. PICK a, hi \in Nat : /\ a <= hi /\ Span(wire, j, a, hi)
                             /\ Ready(inbox, n + 1, j, x, a + 1)
      BY DEF Chases, Awaits
  <2>2. Ready(inbox', Len(inbox') + 1, j, y, a + 1)
      BY <1>3, <2>1
  <2> QED
      BY <2>1, <2>2 DEF Awaits
<1>7. Resendable(j)'
  <2> SUFFICES ASSUME j = job, Running, NEW b \in Acked .. Taken
               PROVE  Ready(inbox', Len(inbox') + 1, j, y, b + 1)
      BY <1>4 DEF Resendable
  <2>1. b + 1 \in Nat
      OBVIOUS
  <2>2. Ready(inbox, n + 1, j, x, b + 1)
      BY DEF Chases, Resendable
  <2> QED
      BY <1>3, <2>1, <2>2
<1>8. LastWaits(j)'
  <2> SUFFICES ASSUME <<j, Whole(j)>> \in accepted
               PROVE  \E i \in 1 .. Len(inbox') :
                          inbox'[i].job = j /\ inbox'[i].mid = Whole(j)
      BY DEF LastWaits, Whole
  <2>1. PICK i \in 1 .. n : inbox[i].job = j /\ inbox[i].mid = Whole(j)
      BY DEF Chases, LastWaits
  <2>2. i # 1
      BY <2>1
  <2>3. i - 1 \in 1 .. Len(inbox') /\ (i - 1) + 1 = i
      BY <2>2
  <2>4. inbox'[i - 1] = inbox[i]
      BY <2>3
  <2> QED
      BY <2>1, <2>3, <2>4
<1> QED
    BY <1>5, <1>6, <1>7, <1>8 DEF Chases

(* The session ends without a message of the run in the receiver's queue.  *)
LEMMA GoneChases ==
    ASSUME NEW j, Chases(j), Len(inbox) \in Nat, j \notin Waiting, inbox' = <<>>,
           Level(j)' = Level(j),
           UNCHANGED <<wire, accepted, job, pc, last_mid, out_messages, acks>>
    PROVE  Chases(j)'
<1>1. /\ \A i \in 1 .. Len(inbox) : inbox[i].job # j
      /\ Len(inbox') = 0
    BY EmptySeq DEF Waiting
<1>2. (Running' <=> Running) /\ Acked' = Acked /\ Taken' = Taken
    BY DEF Running, Acked, Taken
<1>3. \A m : Ready(inbox, Len(inbox) + 1, j, Level(j), m) =>
                 Ready(inbox', Len(inbox') + 1, j, Level(j)', m)
    BY <1>1, ReadyNothing
<1>4. Follows(inbox, j, Level(j))' /\ LastWaits(j)'
    BY <1>1 DEF Chases, Follows, LastWaits, Whole
<1>5. Awaits(j)'
  <2>1. PICK a, hi \in Nat : /\ a <= hi /\ Span(wire, j, a, hi)
                             /\ Ready(inbox, Len(inbox) + 1, j, Level(j), a + 1)
      BY DEF Chases, Awaits
  <2>2. Ready(inbox', Len(inbox') + 1, j, Level(j)', a + 1)
      BY <1>3, <2>1
  <2> QED
      BY <2>1, <2>2 DEF Awaits
<1>6. Resendable(j)'
    BY <1>2, <1>3 DEF Chases, Resendable
<1> QED
    BY <1>4, <1>5, <1>6 DEF Chases

(* A message of the run itself is delivered.                               *)
LEMMA DeliverOwnChases ==
    ASSUME Flow, Deliver, alive', NEW j \in Reportable, inbox[1].job = j,
           Follows(inbox, j, Level(j)), RowsOf(j)' = {}
    PROVE  /\ Level(j) \in Nat /\ Level(j)' \in Nat
           /\ inbox[1].mid <= Level(j)' /\ inbox[1].mid # Whole(j)
           /\ Level(j) <= Level(j)' \/ inbox[1].mid = 1
<1> DEFINE content == Content[JobFile(j)]
           n == Len(content)
           c == ChunkOf(inbox[1])
<1>1. /\ Len(inbox) \in Nat \ {0} /\ 1 \in 1 .. Len(inbox)
      /\ inbox[1].mid \in Nat \ {0}
    BY InboxTail
<1>2. /\ j \in Jobs /\ JobFile(j) # None /\ n \in Nat \ {0} /\ Whole(j) = n + 1
      /\ received_chunks \in Nat
  <2>1. n # 0 /\ n \in Nat
      BY RunFacts, EmptySeq DEF Reportable
  <2> QED
      BY <2>1, RunFacts DEF Reportable, Whole, Flow, IInv, TypeOK
<1>3. Level(j) \in Nat
    BY <1>2 DEF Level
<1>4. CASE inbox[1].mid = 1
  <2>1. Opens(j)
      BY <1>4, DeliverOutcome DEF Dies
  <2>2. Level(j)' = 1
      BY <2>1 DEF Level, Open, Opens
  <2> QED
      BY <1>2, <1>3, <1>4, <2>2
<1>5. CASE inbox[1].mid # 1
  <2>1. inbox[1].mid > 1 /\ Ready(inbox, 1, j, Level(j), inbox[1].mid)
      BY <1>1, <1>5 DEF Follows
  <2>2. inbox[1].mid <= Level(j) + 1
      BY <2>1 DEF Ready, Since
  <2>3. Open(j) /\ Level(j) = received_chunks + 1
      BY <1>1, <2>1, <2>2 DEF Level
  <2>4. ~Ignores
      BY <1>2, <2>3 DEF Ignores, Open
  <2>5. ~Completes(c)
    <3> SUFFICES ASSUME Completes(c) PROVE FALSE
        OBVIOUS
    <3>1. PICK row \in Row : /\ rows' = Append(rows, row)
                             /\ row.file = current_file_handle /\ row.qos = current_qos
        BY DEF Completes
    <3>2. RowsOf(j)' = RowsOf(j) \cup {Len(rows) + 1}
        BY <2>3, <3>1, RowsOfAppend DEF Open, Flow, IInv, TypeOK
    <3> QED
        BY <3>2
  <2>6. Takes(c)
      BY <1>5, <2>4, <2>5, DeliverOutcome
  <2>7. Open(j)' /\ received_chunks' = received_chunks + 1 /\ received_chunks + 1 # n
      BY <2>3, <2>6 DEF Takes, Open
  <2>8. Level(j)' = Level(j) + 1
      BY <1>2, <2>3, <2>7 DEF Level
  <2>9. received_chunks < n
      BY <1>2, <2>3
      DEF Open, Flow, IInv, GlobalsDescribeHandle, OpenMeansIncomplete
  <2>10. inbox[1].mid <= received_chunks + 2 /\ received_chunks + 1 < n
      BY <1>1, <1>2, <2>2, <2>3, <2>7, <2>9
  <2>11. inbox[1].mid # Whole(j)
      BY <1>1, <1>2, <2>10
  <2> QED
      BY <1>1, <1>3, <2>2, <2>8, <2>11
<1> QED
    BY <1>4, <1>5

LEMMA DeliverChases ==
    ASSUME Flow, Linear, OpenKnown, Deliver, NEW j \in Reportable, j \notin lost',
           j \notin overtaken, RowsOf(j)' = {}, Chases(j)
    PROVE  Chases(j)'
<1>1. /\ svars' = svars /\ Len(inbox) \in Nat \ {0} /\ 1 \in 1 .. Len(inbox)
      /\ inbox[1].job \in Jobs /\ inbox \in Seq(PacketType)
      /\ ~alive' => inbox' = <<>>
      /\ alive' => /\ Len(inbox') = Len(inbox) - 1
                   /\ \A i \in 1 .. Len(inbox') :
                         inbox'[i] = inbox[i + 1] /\ i + 1 \in 1 .. Len(inbox)
    BY InboxTail DEF Flow, TransferTyped
<1>2. UNCHANGED <<wire, accepted, job, pc, last_mid, out_messages, acks>>
    BY <1>1 DEF svars, main, client, network, past
<1>3. /\ j \in Jobs /\ JobFile(j) # None /\ received_chunks \in Nat
    BY RunFacts DEF Reportable, Flow, IInv, TypeOK
<1>4. Acked \in Int /\ Taken \in Int /\ (j = job /\ Running => Acked \in Nat)
    BY LinearTypes DEF Acked, Taken, Linear, Flow
<1>5. ~alive' => j \notin Waiting /\ current_file_handle' = None
    BY DeliverOutcome
    DEF Deliver, SessionEnds, Opens, Dies, Takes, Completes, Ignores
<1>6. CASE Open(j) /\ inbox[1].job # j
  <2>1. j < inbox[1].job
    <3>1. j \in Nat /\ inbox[1].job \in Nat
        BY <1>1, <1>3, PacketFacts, RunFacts
    <3>2. j <= inbox[1].job
        BY <1>1, <1>3, <1>6 DEF OpenKnown
    <3> QED
        BY <1>6, <3>1, <3>2
  <2>2. /\ j < job /\ \A i \in 1 .. Len(wire) : wire[i].job # j
        /\ \A i \in 1 .. Len(inbox) : inbox[i].job # j
      BY <1>1, <1>3, <2>1, LaterRun
  <2>3. <<j, Whole(j)>> \notin accepted /\ j # job'
      BY <1>2, <1>3, <2>2, RunFacts DEF Chases, LastWaits
  <2>4. \A i \in 1 .. Len(inbox') : inbox'[i].job # j
    <3>1. Len(<<>>) = 0
        BY EmptySeq
    <3> QED
        BY <1>1, <2>2, <3>1
  <2> QED
      BY <1>2, <2>2, <2>3, <2>4, NoneChases
<1>7. CASE ~Open(j) /\ inbox[1].job # j
  <2>1. ~Open(j)'
    <3>1. Opens(inbox[1].job) => ~Open(j)'
      <4>1. JobFile(inbox[1].job) # JobFile(j) \/ JobQos(inbox[1].job) # JobQos(j)
          BY <1>1, <1>3, <1>7, JobsDistinct
      <4> QED
          BY <4>1 DEF Opens, Open
    <3>2. Takes(ChunkOf(inbox[1])) => ~Open(j)'
        BY <1>7 DEF Takes, Open
    <3>3. \/ Completes(ChunkOf(inbox[1])) \/ Ignores \/ Dies(inbox[1].job)
          => ~Open(j)'
        BY <1>3 DEF Completes, Ignores, Dies, Open
    <3> QED
        BY <3>1, <3>2, <3>3, DeliverOutcome
  <2>2. Level(j) = 0 /\ Level(j)' = 0
      BY <1>7, <2>1 DEF Level
  <2>3. CASE alive'
      BY <1>1, <1>2, <1>4, <1>7, <2>2, <2>3, TailChases
  <2>4. CASE ~alive'
      BY <1>1, <1>2, <1>5, <2>2, <2>4, GoneChases
  <2> QED
      BY <2>3, <2>4
<1>8. CASE inbox[1].job = j
  <2>1. alive'
      BY <1>1, <1>5, <1>8 DEF Waiting
  <2>2. /\ Level(j) \in Nat /\ Level(j)' \in Nat
        /\ inbox[1].mid <= Level(j)' /\ inbox[1].mid # Whole(j)
        /\ Level(j) <= Level(j)' \/ inbox[1].mid = 1
      BY <1>8, <2>1, DeliverOwnChases DEF Chases
  <2>3. PICK x \in Nat, y \in Nat : Level(j) = x /\ Level(j)' = y
      BY <2>2
  <2> QED
      BY <1>1, <1>2, <1>4, <1>8, <2>1, <2>2, <2>3, TailChases
<1> QED
    BY <1>6, <1>7, <1>8

LEMMA ChasesKeeps ==
    ASSUME Flow, Linear, OpenKnown, [TransferNext]_tvars, NEW j \in Reportable,
           j \notin lost', j \notin overtaken', RowsOf(j)' = {}, Chases(j)
    PROVE  Chases(j)'
<1> j \notin overtaken
    BY AcceptedGrows
<1>1. CASE SenderMoves
    BY <1>1, FlowKeeps, LinearKeeps, SenderMovesChases
<1>2. CASE BrokerRoutes
    BY <1>2, BrokerRoutesChases
<1>3. CASE Deliver
    BY <1>3, DeliverChases
<1>4. JobFile(j) # None /\ Len(inbox) \in Nat
    BY RunFacts, PacketFacts DEF Reportable, Flow, TransferTyped
<1>5. ~Open(j) /\ current_file_handle' = None => Level(j)' = Level(j)
    BY <1>4 DEF Level, Open
<1>6. CASE ReceiverDisconnect
  <2>1. /\ UNCHANGED <<wire, accepted, job, pc, last_mid, out_messages, acks>>
        /\ UNCHANGED <<current_file_handle, current_qos, received_chunks>>
        /\ inbox' = <<>> /\ j \notin Waiting
      BY <1>6
      DEF ReceiverDisconnect, SessionEnds, vars, transfer, svars, main, client, network, past
  <2>2. Level(j)' = Level(j)
      BY <2>1 DEF Level, Open
  <2> QED
      BY <1>4, <2>1, <2>2, GoneChases
<1>7. CASE ReceiverKill
  <2>1. /\ UNCHANGED <<wire, accepted, job, pc, last_mid, out_messages, acks>>
        /\ inbox' = <<>> /\ j \notin Waiting /\ j \notin Receiving
        /\ current_file_handle' = None
      BY <1>7 DEF ReceiverKill, SessionEnds, Kill, svars, main, client, network, past
  <2>2. ~Open(j)
      BY <2>1 DEF Open, Receiving, Reportable
  <2> QED
      BY <1>4, <1>5, <2>1, <2>2, GoneChases
<1>8. ASSUME UNCHANGED svars, inbox' = inbox, Level(j)' = Level(j)
      PROVE  Chases(j)'
  <2>1. UNCHANGED <<wire, accepted, job, pc, last_mid, out_messages, acks>>
      BY <1>8 DEF svars, main, client, network, past
  <2>2. (Running' <=> Running) /\ Acked' = Acked /\ Taken' = Taken
      BY <2>1 DEF Running, Acked, Taken
  <2> QED
      BY <1>8, <2>1, <2>2, ChasesSame
<1>9. CASE ReceiverRestart
  <2>1. UNCHANGED svars /\ inbox' = inbox /\ current_file_handle' = None /\ ~alive
      BY <1>9 DEF ReceiverRestart, session, Restart
  <2>2. ~Open(j)
      BY <1>4, <2>1 DEF Open, Flow, IInv, GlobalsDescribeHandle
  <2> QED
      BY <1>5, <1>8, <2>1, <2>2
<1>10. CASE SubscribeCtrl \/ SubscribeData \/ UNCHANGED tvars
  <2>1. UNCHANGED <<svars, vars, inbox>>
      BY <1>10 DEF SubscribeCtrl, SubscribeData, tvars, session
  <2> QED
      BY <1>8, <2>1 DEF vars, transfer, Level, Open
<1> QED
    BY <1>1, <1>2, <1>3, <1>6, <1>7, <1>9, <1>10 DEF TransferNext

LEMMA RowsOfGrows ==
    ASSUME Flow, [TransferNext]_tvars, NEW j, RowsOf(j)' = {}
    PROVE  RowsOf(j) = {}
<1>1. CASE rows' = rows
    BY <1>1 DEF RowsOf
<1>2. CASE rows' # rows
  <2>1. Completes(ChunkOf(inbox[1]))
      BY <1>2, RowsOnDelivery, DeliverOutcome DEF Opens, Dies, Takes, Ignores
  <2>2. PICK row \in Row : rows' = Append(rows, row)
      BY <2>1 DEF Completes
  <2>3. RowsOf(j) \subseteq RowsOf(j)'
      BY <2>2, RowsOfAppend DEF Flow, IInv, TypeOK
  <2> QED
      BY <2>3
<1> QED
    BY <1>1, <1>2

(* The invariant of the runs of which nothing was dropped and nothing      *)
(* overtook.                                                               *)
ResentInv ==
    /\ Flow /\ Linear /\ OpenKnown
    /\ \A j \in Reportable \ (lost \cup overtaken) : RowsOf(j) = {} => Chases(j)

LEMMA InitResentInv == TransferInit => ResentInv
<1> SUFFICES ASSUME TransferInit PROVE ResentInv
    OBVIOUS
<1>1. /\ inbox = <<>> /\ wire = <<>> /\ accepted = {} /\ pc = "manager"
      /\ current_file_handle = None /\ Len(<<>>) = 0
    BY EmptySeq DEF TransferInit, SenderInit, Init
<1>2. Flow /\ Linear
    BY <1>1, InitFlow DEF Linear, Running
<1>3. OpenKnown
  <2>1. \A j \in Jobs : ~Open(j)
      BY <1>1, <1>2, RunFacts DEF Open
  <2> QED
      BY <2>1 DEF OpenKnown
<1>4. ASSUME NEW j \in Reportable PROVE Chases(j)
  <2>1. Follows(inbox, j, Level(j)) /\ Resendable(j) /\ LastWaits(j)
      BY <1>1 DEF Follows, Resendable, LastWaits, Running
  <2>2. Span(wire, j, 0, 0)
      BY <1>1, SpanNone
  <2>3. Ready(inbox, Len(inbox) + 1, j, Level(j), 0 + 1)
      BY ReadyFirst
  <2>4. Awaits(j)
      BY <2>2, <2>3 DEF Awaits
  <2> QED
      BY <2>1, <2>4 DEF Chases
<1> QED
    BY <1>2, <1>3, <1>4 DEF ResentInv

LEMMA NextResentInv == ResentInv /\ [TransferNext]_tvars => ResentInv'
<1> SUFFICES ASSUME ResentInv, [TransferNext]_tvars PROVE ResentInv'
    OBVIOUS
<1>1. Flow' /\ Linear' /\ OpenKnown'
    BY FlowKeeps, LinearKeeps, OpenKnownKeeps DEF ResentInv
<1>2. ASSUME NEW j \in Reportable, j \notin lost', j \notin overtaken', RowsOf(j)' = {}
      PROVE  Chases(j)'
  <2>1. j \notin lost /\ j \notin overtaken /\ RowsOf(j) = {}
      BY <1>2, DisturbedGrows, AcceptedGrows, RowsOfGrows DEF ResentInv
  <2> QED
      BY <1>2, <2>1, ChasesKeeps DEF ResentInv
<1> QED
    BY <1>1, <1>2 DEF ResentInv

(* A run the broker has all of, and whose messages all went through the    *)
(* receiver, has a row, unless a message of the run was published between  *)
(* the socket and the CONNACK, ahead of others that waited: what the       *)
(* sender repeats after a lost connection (client_a.py:144-157, paho       *)
(* resending) takes client_b.py:84-137 back in the run, never to where it  *)
(* would wait for a chunk that has gone by.                                *)
THEOREM ResentRunsReported == TransferSpec => []RunsReported
<1>1. ResentInv => RunsReported
  <2> SUFFICES ASSUME ResentInv, NEW j \in Reportable \ (lost \cup overtaken),
                      Drained(j), RowsOf(j) = {}
               PROVE  FALSE
      BY DEF RunsReported
  <2>1. <<j, Whole(j)>> \in accepted
    <3>1. Whole(j) \in 1 .. Whole(j)
        BY RunFacts DEF Reportable, ResentInv
    <3>2. <<j, Whole(j)>> \in PacketsOf(j)
        BY <3>1 DEF PacketsOf, Whole
    <3> QED
        BY <3>2 DEF Drained
  <2>2. PICK i \in 1 .. Len(inbox) : inbox[i].job = j
      BY <2>1 DEF ResentInv, Chases, LastWaits
  <2>3. i \in DOMAIN inbox
      BY <2>2, LenProperties DEF ResentInv, Flow, TransferTyped
  <2> QED
      BY <2>2, <2>3 DEF Drained, Waiting
<1> QED
    BY <1>1, InitResentInv, NextResentInv, PTL DEF TransferSpec
=============================================================================
