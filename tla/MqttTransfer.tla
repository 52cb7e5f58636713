---------------------------- MODULE MqttTransfer ----------------------------
(***************************************************************************)
(* The MQTT benchmark as a whole: the sender's runs (MqttSender), the      *)
(* receiver (MqttReceiver) and, between them, the broker, which has for    *)
(* the receiver's session a set of subscriptions and a queue of messages.  *)
(* The receiver's session is a clean one: when its connection or its       *)
(* process ends, subscriptions and queue are gone, and on_connect          *)
(* subscribes again, to the control topic and then to the data topic.  The *)
(* globals of the receiver outlive a connection, not the process.          *)
(***************************************************************************)
EXTENDS MqttSender, MqttReceiver

CONSTANT MaxReceiverFaults   \* bound: receiver connections lost and kills

VARIABLES
    subs,           \* the topics the receiver's session is subscribed to
    inbox,          \* packets the broker holds for the receiver, in order
    faults,         \* how many times the receiver was disturbed
    lost,           \* history: the runs a message of which was dropped
    resent          \* history: the runs the sender lost a connection in

session == <<subs, inbox, faults, lost, resent>>
tvars == <<svars, vars, session>>

Topics == {TOPIC_CTRL, TOPIC_DATA}

TransferInit ==
    /\ SenderInit
    /\ Init
    /\ subs = {}
    /\ inbox = <<>>
    /\ faults = 0
    /\ lost = {}
    /\ resent = {}

-----------------------------------------------------------------------------
(* A step of the sender that does not involve the receiver's session.  A   *)
(* run that ends before the broker has taken all it sent leaves messages   *)
(* that nobody will send again.                                            *)
SenderMoves ==
    /\ MainStep \/ OnPublish \/ Disconnect \/ OpenSocket \/ ConnAck
    /\ lost' = IF job' # job /\ wire' # wire THEN lost \cup {job} ELSE lost
    /\ resent' = IF disconnects' # disconnects THEN resent \cup {job} ELSE resent
    /\ UNCHANGED <<vars, subs, inbox, faults>>

(* The broker takes a packet and queues it if the receiver's session is    *)
(* subscribed to its topic; otherwise nobody ever gets it.                 *)
BrokerRoutes ==
    /\ BrokerAccept
    /\ LET packet == Head(wire) IN
       IF packet.body.topic \in subs
       THEN inbox' = Append(inbox, packet) /\ UNCHANGED lost
       ELSE lost' = lost \cup {packet.job} /\ UNCHANGED inbox
    /\ UNCHANGED <<vars, subs, faults, resent>>

(* on_connect: two subscriptions, one after the other.                     *)
SubscribeCtrl ==
    /\ alive
    /\ TOPIC_CTRL \notin subs
    /\ subs' = subs \cup {TOPIC_CTRL}
    /\ UNCHANGED <<svars, vars, inbox, faults, lost, resent>>

SubscribeData ==
    /\ alive
    /\ TOPIC_CTRL \in subs
    /\ TOPIC_DATA \notin subs
    /\ subs' = subs \cup {TOPIC_DATA}
    /\ UNCHANGED <<svars, vars, inbox, faults, lost, resent>>

(* The runs that have messages waiting, and the run whose file is open.    *)
Waiting == {inbox[i].job : i \in DOMAIN inbox}
Receiving == {j \in Jobs : JobFile(j) = current_file_handle /\ JobQos(j) = current_qos}

(* The receiver's session ends: the broker forgets it.                     *)
SessionEnds(runs) ==
    /\ subs' = {}
    /\ inbox' = <<>>
    /\ lost' = lost \cup Waiting \cup runs
    /\ UNCHANGED resent

(* on_message gets the next message; if it raises, the session ends with   *)
(* the process.                                                            *)
Deliver ==
    /\ inbox # <<>>
    /\ OnMessage(Head(inbox).body)
    /\ IF alive' THEN inbox' = Tail(inbox) /\ UNCHANGED <<subs, lost, resent>>
       ELSE SessionEnds({})
    /\ UNCHANGED <<svars, faults>>

(* The receiver's connection breaks; loop_forever connects again.          *)
ReceiverDisconnect ==
    /\ alive
    /\ subs # {}
    /\ faults < MaxReceiverFaults
    /\ faults' = faults + 1
    /\ SessionEnds({})
    /\ UNCHANGED <<svars, vars>>

ReceiverKill ==
    /\ faults < MaxReceiverFaults
    /\ faults' = faults + 1
    /\ Kill
    /\ SessionEnds(Receiving)
    /\ UNCHANGED svars

ReceiverRestart == Restart /\ UNCHANGED <<svars, session>>

TransferNext ==
    \/ SenderMoves
    \/ BrokerRoutes
    \/ SubscribeCtrl \/ SubscribeData
    \/ Deliver
    \/ ReceiverDisconnect \/ ReceiverKill \/ ReceiverRestart
    \/ Stopped /\ UNCHANGED tvars

(* The sender's waits have timeouts; the broker forwards what it gets; the *)
(* receiver's network loop runs while its process does.  Nothing is        *)
(* assumed about connections being restored or processes restarted.        *)
TransferFairness ==
    /\ WF_tvars(SenderMoves /\ MainStep)
    /\ WF_tvars(BrokerRoutes)
    /\ WF_tvars(SubscribeCtrl) /\ WF_tvars(SubscribeData)
    /\ WF_tvars(Deliver)

TransferSpec == TransferInit /\ [][TransferNext]_tvars /\ TransferFairness

-----------------------------------------------------------------------------
(* The runs the receiver is meant to report: those of a file that exists   *)
(* and has chunks.  Their rows are known by file and level.                *)
Reportable == {j \in Jobs : JobFile(j) \notin Missing /\ Content[JobFile(j)] # <<>>}
RowsOf(j) == {i \in DOMAIN rows : rows[i].file = JobFile(j) /\ rows[i].qos = JobQos(j)}

(* The broker took all of run j and the receiver has dealt with it.        *)
Drained(j) == j \notin Waiting /\ PacketsOf(j) \subseteq accepted

(* As long as nothing is disturbed, every row is that of the next run, in  *)
(* the order of the runs.                                                  *)
RowsInOrder ==
    lost \cup resent = {} =>
        \A i \in DOMAIN rows : \E j \in Reportable :
            /\ i \in RowsOf(j)
            /\ Cardinality({k \in Reportable : k < j}) = i - 1

(* A run that nothing disturbed gets one row, and the row says the file is *)
(* intact, whatever happened to the runs before it: files left open, chunks *)
(* that came too late, messages missed while the receiver was away, waits   *)
(* given up by the sender.                                                  *)
UndisturbedRunIsOk ==
    \A j \in Reportable \ (lost \cup resent) : Drained(j) =>
        \E i \in RowsOf(j) : RowsOf(j) = {i} /\ rows[i].integrity_ok

(* A run the broker has all of, and whose messages all went through the    *)
(* receiver, has a row, intact or corrupted: resending after a lost        *)
(* connection, duplicates included, leaves the receiver waiting only if a  *)
(* message overtook earlier ones of its run.                               *)
RunsReported ==
    \A j \in Reportable \ (lost \cup overtaken) : Drained(j) => RowsOf(j) # {}

(* "OK" in the row of a run means that the broker got all of that run: it  *)
(* is never made up of chunks of the run before it, unless the receiver    *)
(* was disturbed, or of chunks sent twice, unless a message of the run or  *)
(* of a later one overtook earlier ones.                                   *)
OkMeansWholeRun ==
    faults = 0 =>
        \A j \in Reportable : \A i \in RowsOf(j) :
            rows[i].integrity_ok /\ (\A k \in overtaken : k < j) =>
                PacketsOf(j) \subseteq accepted

(* A file being written contains no chunk of another file but those of     *)
(* runs whose chunks overtook their metadata: data messages carry no file  *)
(* name, so this rests on a run's chunks reaching the receiver after its   *)
(* metadata and before the next run's.                                     *)
NoMixing ==
    faults = 0 /\ current_file_handle # None =>
        ToSet(Output) \subseteq ToSet(Content[current_file_handle])
            \cup UNION {ToSet(Content[JobFile(j)]) : j \in overtaken}

(* A benchmark that nothing disturbs ends with a row for every run with    *)
(* something to send: the two processes never wait for each other.         *)
UndisturbedCompletes ==
    <>(lost \cup resent # {} \/ (Stopped /\ \A j \in Reportable : RowsOf(j) # {}))
=============================================================================
