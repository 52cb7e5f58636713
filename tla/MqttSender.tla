----------------------------- MODULE MqttSender -----------------------------
(***************************************************************************)
(* The MQTT sender: protocols/benchmark_manager.py runs client_a.py once   *)
(* for every quality-of-service level and file, one process after the      *)
(* other.  A process has two threads: the main one, send_file, and paho's  *)
(* network thread, which writes what was published, calls on_publish for   *)
(* every acknowledgement and reconnects when the connection is lost.  They *)
(* share the globals metadata_mid, metadata_ack_event and ack_latency.     *)
(*                                                                         *)
(* What the code leaves to paho and to the broker is here as it uses them: *)
(* a publish takes the next message id, starting at 1 in every process;    *)
(* without a connection it queues the message and makes wait_for_publish   *)
(* raise.  Connecting again takes two steps: the socket is there first,    *)
(* and from then on a publish goes out at once; what was waiting when it   *)
(* was opened goes out, in order, when the broker's CONNACK comes, and is  *)
(* overtaken by what was published in between.  The handshake of level 2   *)
(* is one step here: the broker takes a message when it would release it,  *)
(* and one that the sender leaves unfinished is forgotten.  paho's limit   *)
(* of 20 messages in flight is left out.                                   *)
(***************************************************************************)
EXTENDS MqttMessages, SequencesExt, FiniteSets

CONSTANTS
    Files,           \* the files the manager was given, in order
    Missing,         \* those the sender's container does not have
    MaxDisconnects   \* bound: connections lost in a behaviour

ASSUME FilesAssumption == Files \in Seq(File)
ASSUME DistinctAssumption ==   \* the names of a directory's files
    \A i, k \in 1 .. Len(Files) : Files[i] = Files[k] => i = k
ASSUME MissingAssumption == Missing \subseteq File
ASSUME QosAssumption == {1, 2} \subseteq Qos
ASSUME DisconnectsAssumption == MaxDisconnects \in Nat

VARIABLES
    job,                 \* the run the manager is at
    pc,                  \* where the run is
    metadata_mid,        \* the module's global: 0 is Python's None
    metadata_ack_event,  \* is the event set
    ack_latency,         \* 0, or the id of the message whose ack measured it
    chunk_num,           \* the chunks done with by send_chunks
    last_mid,            \* paho: the last message id given out
    out_messages,        \* paho: what is published and not acknowledged
    published,           \* paho: the ids acknowledged
    connected,           \* paho: the client has a socket
    unsent,              \* paho: how many messages wait for the CONNACK
    wire,                \* PUBLISH packets on their way to the broker
    acks,                \* acknowledgements on their way back
    accepted,            \* the broker: <<run, id>> of what it has taken
    overdue,             \* a wait of this run ended without its message's ack
    overtaken,           \* history: the runs that published before a CONNACK
                         \* for which earlier messages of theirs waited
    sender_rows,         \* rows written, in order
    disconnects          \* how many connections were lost so far

main == <<job, pc, chunk_num, overdue, sender_rows>>
globals == <<metadata_mid, metadata_ack_event, ack_latency>>
client == <<last_mid, out_messages, published, connected, unsent>>
network == <<wire, acks, accepted>>
past == <<disconnects, overtaken>>
svars == <<main, globals, client, network, past>>

-----------------------------------------------------------------------------
(* The runs of capture_mqtt: every file at level 1, then every file at 2.  *)
(* capture_mqtt_single_file is the same with one file.                     *)
Levels == 1 .. 2
Jobs == 1 .. (Cardinality(Levels) * Len(Files))
JobFile(j) == Files[((j - 1) % Len(Files)) + 1]
JobQos(j) == ((j - 1) \div Len(Files)) + 1

filename == JobFile(job)
qos_level == JobQos(job)
total_chunks == Len(Content[filename])

Running == pc \in {"metadata", "assign", "ack", "chunks", "wait"}

Packet(j, mid, body) == [job |-> j, mid |-> mid, body |-> body]

SenderRow == [job : Nat, qos : Levels, latency : Nat]

SenderInit ==
    /\ job = 1
    /\ pc = "manager"
    /\ metadata_mid = 0
    /\ metadata_ack_event = FALSE
    /\ ack_latency = 0
    /\ chunk_num = 0
    /\ last_mid = 0
    /\ out_messages = <<>>
    /\ published = {}
    /\ connected = FALSE
    /\ unsent = 0
    /\ wire = <<>>
    /\ acks = <<>>
    /\ accepted = {}
    /\ overdue = FALSE
    /\ sender_rows = <<>>
    /\ disconnects = 0
    /\ overtaken = {}

-----------------------------------------------------------------------------
(* paho's Client, as make_client makes and connects it.                    *)
make_client ==
    /\ last_mid' = 0
    /\ out_messages' = <<>>
    /\ published' = {}
    /\ connected' = TRUE
    /\ unsent' = 0

(* The manager starts a process and make_client connects.                  *)
Launch ==
    /\ pc = "manager"
    /\ job \in Jobs
    /\ filename \notin Missing
    /\ pc' = "metadata"
    /\ metadata_mid' = 0
    /\ metadata_ack_event' = FALSE
    /\ ack_latency' = 0
    /\ chunk_num' = 0
    /\ make_client
    /\ overdue' = FALSE
    /\ UNCHANGED <<job, sender_rows, network, past>>

(* No such file: a message, no row, exit status 0, and the manager goes on. *)
LaunchMissing ==
    /\ pc = "manager"
    /\ job \in Jobs
    /\ filename \in Missing
    /\ job' = job + 1
    /\ UNCHANGED <<pc, chunk_num, overdue, sender_rows, globals, client, network,
                   past>>

(* connect() raises: the exit status is not 0 and subprocess.run raises in  *)
(* the manager, which ends.                                                 *)
LaunchFails ==
    /\ pc = "manager"
    /\ job \in Jobs
    /\ filename \notin Missing
    /\ disconnects < MaxDisconnects
    /\ disconnects' = disconnects + 1
    /\ pc' = "failed"
    /\ UNCHANGED <<job, chunk_num, overdue, sender_rows, globals, client, network,
                   overtaken>>

(* paho's publish: the message is queued until it is acknowledged, and sent *)
(* at once if there is a socket, ahead of what waits for the CONNACK.       *)
Publish(body) ==
    LET packet == Packet(job, last_mid + 1, body) IN
    /\ last_mid' = last_mid + 1
    /\ out_messages' = Append(out_messages, packet)
    /\ wire' = IF connected THEN Append(wire, packet) ELSE wire
    /\ overtaken' = IF connected /\ unsent > 0 THEN overtaken \cup {job}
                    ELSE overtaken
    /\ UNCHANGED <<published, connected, unsent, acks, accepted, disconnects>>

(* send_metadata up to publish(): the network thread may act on the         *)
(* acknowledgement from here on.                                            *)
PublishMetadata ==
    /\ pc = "metadata"
    /\ Publish(Metadata(filename, qos_level))
    /\ pc' = "assign"
    /\ UNCHANGED <<job, chunk_num, overdue, sender_rows, globals>>

(* send_metadata, the statement after: metadata_mid = msg_info.mid.         *)
AssignMid ==
    /\ pc = "assign"
    /\ metadata_mid' = last_mid
    /\ pc' = "ack"
    /\ UNCHANGED <<job, chunk_num, overdue, sender_rows, metadata_ack_event,
                   ack_latency, client, network, past>>

(* metadata_ack_event.wait(timeout=10) returns, with the event or without:  *)
(* the transfer goes on in both cases.                                      *)
AckSeen ==
    /\ pc = "ack"
    /\ metadata_ack_event
    /\ pc' = "chunks"
    /\ UNCHANGED <<job, chunk_num, overdue, sender_rows, globals, client, network,
                   past>>

WaitsForEver == FALSE   \* mutant: the event is awaited without a timeout

AckTimeout ==
    /\ pc = "ack"
    /\ ~metadata_ack_event
    /\ pc' = "chunks"
    /\ overdue' = (overdue \/ 1 \notin published)
    /\ UNCHANGED <<job, chunk_num, sender_rows, globals, client, network, past>>

(* send_chunks: the next chunk is read and published.                       *)
PublishChunk ==
    /\ pc = "chunks"
    /\ chunk_num < total_chunks
    /\ connected
    /\ Publish(ChunkMessage(Content[filename][chunk_num + 1]))
    /\ pc' = "wait"
    /\ UNCHANGED <<job, chunk_num, overdue, sender_rows, globals>>

(* Without a connection wait_for_publish raises and the process ends, the  *)
(* manager with it; paho's queue is lost.                                   *)
PublishChunkFails ==
    /\ pc = "chunks"
    /\ chunk_num < total_chunks
    /\ ~connected
    /\ pc' = "failed"
    /\ out_messages' = <<>>
    /\ last_mid' = last_mid + 1
    /\ UNCHANGED <<job, chunk_num, overdue, sender_rows, globals, published,
                   connected, unsent, network, past>>

(* wait_for_publish(timeout=60) returns: acknowledged, or silently overdue. *)
DoesNotWait ==   \* mutant: wait_for_publish is not called
    /\ pc = "wait"
    /\ chunk_num' = chunk_num + 1
    /\ pc' = "chunks"
    /\ UNCHANGED <<job, overdue, sender_rows, globals, client, network, past>>

PublishWaited ==
    /\ pc = "wait"
    /\ last_mid \in published
    /\ chunk_num' = chunk_num + 1
    /\ pc' = "chunks"
    /\ UNCHANGED <<job, overdue, sender_rows, globals, client, network, past>>

PublishTimeout ==
    /\ pc = "wait"
    /\ last_mid \notin published
    /\ overdue' = TRUE
    /\ chunk_num' = chunk_num + 1
    /\ pc' = "chunks"
    /\ UNCHANGED <<job, sender_rows, globals, client, network, past>>

(* What earlier runs have on the wire: it comes before all of this run's.   *)
EarlierRuns ==
    LET first == SelectInSeq(wire, LAMBDA p : p.job = job)
    IN  IF first = 0 THEN wire ELSE SubSeq(wire, 1, first - 1)

(* The rest of send_file: loop_stop, disconnect, the row, and the process   *)
(* ends; the manager goes on to the next run.  What level 1 has put on the  *)
(* wire still arrives.                                                      *)
Finish ==
    /\ pc = "chunks"
    /\ chunk_num = total_chunks
    /\ connected' = FALSE
    /\ unsent' = 0
    /\ out_messages' = <<>>
    /\ acks' = <<>>
    /\ wire' = IF qos_level = 1 THEN wire ELSE EarlierRuns
    /\ sender_rows' = Append(sender_rows,
           [job |-> job, qos |-> qos_level, latency |-> ack_latency])
    /\ job' = job + 1
    /\ pc' = "manager"
    /\ UNCHANGED <<chunk_num, overdue, globals, last_mid, published, accepted,
                   past>>

MainStep ==
    \/ Launch \/ LaunchMissing \/ LaunchFails
    \/ PublishMetadata \/ AssignMid \/ AckSeen \/ AckTimeout
    \/ PublishChunk \/ PublishChunkFails \/ PublishWaited \/ PublishTimeout
    \/ Finish

-----------------------------------------------------------------------------
(* The broker takes the next packet and acknowledges it, if the connection  *)
(* it came from is still there.                                             *)
BrokerAccept ==
    /\ wire # <<>>
    /\ LET packet == Head(wire) IN
       /\ accepted' = accepted \cup {<<packet.job, packet.mid>>}
       /\ acks' = IF connected /\ packet.job = job THEN Append(acks, packet.mid)
                  ELSE acks
    /\ wire' = Tail(wire)
    /\ UNCHANGED <<main, globals, client, past>>

(* The callback: only the metadata's acknowledgement is measured.           *)
MeasureAnyAck(mid) ==   \* mutant: the id is not compared
    /\ ack_latency' = mid
    /\ metadata_ack_event' = TRUE

on_publish(mid) ==
    /\ ack_latency' = IF mid = metadata_mid THEN mid ELSE ack_latency
    /\ metadata_ack_event' = (metadata_ack_event \/ mid = metadata_mid)

Without(messages, mid) == RemoveFirstMatch(messages, LAMBDA p : p.mid = mid)

(* paho: the message is done with.                                          *)
KeepMessage(mid) ==   \* mutant: it stays queued and will be sent again
    published' = published \cup {mid} /\ UNCHANGED out_messages

Acknowledge(mid) ==
    /\ out_messages' = Without(out_messages, mid)
    /\ published' = published \cup {mid}

(* The network thread gets an acknowledgement: on_publish first, then       *)
(* whoever waits for that message is woken.  The CONNACK comes before any.  *)
OnPublish ==
    /\ Running
    /\ connected
    /\ unsent = 0
    /\ acks # <<>>
    /\ LET mid == Head(acks) IN
       on_publish(mid) /\ Acknowledge(mid)
    /\ acks' = Tail(acks)
    /\ UNCHANGED <<main, metadata_mid, last_mid, connected, unsent, wire, accepted,
                   past>>

(* The connection breaks: what it carried, either way, is lost.             *)
Disconnect ==
    /\ Running
    /\ connected
    /\ disconnects < MaxDisconnects
    /\ disconnects' = disconnects + 1
    /\ connected' = FALSE
    /\ unsent' = 0
    /\ wire' = EarlierRuns
    /\ acks' = <<>>
    /\ UNCHANGED <<main, globals, last_mid, out_messages, published, accepted,
                   overtaken>>

(* paho's reconnect: the client has a socket again and asks the broker for *)
(* a connection; all that is not acknowledged waits for the answer.         *)
OpenSocket ==
    /\ Running
    /\ ~connected
    /\ connected' = TRUE
    /\ unsent' = Len(out_messages)
    /\ UNCHANGED <<main, globals, last_mid, out_messages, published, network, past>>

(* The CONNACK: what waits for it is sent.                                  *)
Forget ==   \* mutant: what is not acknowledged is not sent again
    /\ Running
    /\ connected
    /\ unsent > 0
    /\ unsent' = 0
    /\ UNCHANGED <<main, globals, last_mid, out_messages, published, connected,
                   network, past>>

ConnAck ==
    /\ Running
    /\ connected
    /\ unsent > 0
    /\ unsent' = 0
    /\ wire' = wire \o SubSeq(out_messages, 1, unsent)
    /\ UNCHANGED <<main, globals, last_mid, out_messages, published, connected,
                   acks, accepted, past>>

NetworkStep == BrokerAccept \/ OnPublish \/ Disconnect \/ OpenSocket \/ ConnAck

(* The manager has ended: after its last run, or because a run failed.      *)
Stopped == pc = "failed" \/ (pc = "manager" /\ job \notin Jobs)

SenderNext == MainStep \/ NetworkStep \/ (Stopped /\ UNCHANGED svars)

(* The main thread is never blocked for good: every wait has a timeout.     *)
(* Nothing is assumed of the broker or of the network.                      *)
SenderSpec == SenderInit /\ [][SenderNext]_svars /\ WF_svars(MainStep)

-----------------------------------------------------------------------------
Mids == 1 .. last_mid
PacketsOf(j) == {<<j, mid>> : mid \in 1 .. Len(Content[JobFile(j)]) + 1}

(* Types, and the bounds that come from sending one message per chunk plus  *)
(* one.                                                                     *)
SenderTypeOK ==
    /\ job \in 1 .. Cardinality(Jobs) + 1
    /\ pc \in {"manager", "metadata", "assign", "ack", "chunks", "wait", "failed"}
    /\ metadata_mid \in {0, 1}
    /\ metadata_ack_event \in BOOLEAN
    /\ ack_latency \in Nat
    /\ chunk_num \in Nat
    /\ last_mid \in Nat
    /\ Running => last_mid <= total_chunks + 1 /\ chunk_num <= total_chunks
    /\ \A i \in DOMAIN out_messages : out_messages[i].mid \in Mids \ published
    /\ published \subseteq Mids
    /\ connected \in BOOLEAN
    /\ unsent \in 0 .. Len(out_messages)
    /\ \A i \in DOMAIN wire : wire[i].job \in Jobs /\ wire[i].body \in Message
    /\ \A i \in DOMAIN acks : acks[i] \in Mids
    /\ accepted \subseteq Jobs \X Nat
    /\ overdue \in BOOLEAN
    /\ sender_rows \in Seq(SenderRow)
    /\ disconnects \in 0 .. MaxDisconnects
    /\ overtaken \subseteq Jobs

(* What the broker has of a run is always a beginning of it, its metadata   *)
(* first, through lost connections, waits given up and resending; there is  *)
(* one exception: a message published before a CONNACK for which earlier    *)
(* ones wait, and that takes a wait given up and a connection lost.         *)
NoGaps ==
    /\ \A p \in accepted :
          p[2] > 1 /\ p[1] \notin overtaken => <<p[1], p[2] - 1>> \in accepted
    /\ job \in overtaken => overdue /\ disconnects > 0

(* The latency in a row is that of the metadata's own acknowledgement,      *)
(* never a chunk's.                                                         *)
LatencyFromMetadata ==
    [][sender_rows' # sender_rows /\ Last(sender_rows').latency # 0 =>
          Last(sender_rows').latency = 1 /\ 1 \in published]_svars

(* A row means the broker has the whole file, unless one of the waits ended *)
(* without its acknowledgement; a file without chunks asks for none.        *)
RowNeedsAcks ==
    [][sender_rows' # sender_rows /\ ~overdue /\ total_chunks > 0 =>
          PacketsOf(job) \subseteq accepted]_svars

(* Every benchmark ends, whatever the broker and the network do: no wait of *)
(* the sender lasts for ever.                                               *)
SenderTerminates == <>Stopped

(* "Timed out waiting for metadata ACK" is said only of an acknowledgement  *)
(* that has not come (client_a.py:182-183).                                 *)
TimeoutMeansNoAck ==
    [][pc = "ack" /\ pc' = "chunks" /\ ~metadata_ack_event =>
          1 \notin published]_svars
=============================================================================
