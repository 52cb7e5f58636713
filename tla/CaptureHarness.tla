--------------------------- MODULE CaptureHarness ---------------------------
(***************************************************************************)
(* The measurement harness on the host: capture_mqtt of                    *)
(* benchmark_manager.py, which runs the sender once per file and QoS level *)
(* between start_capture_run and stop_capture_run of packet_capture.py,    *)
(* and the tcpdump processes those start and kill in the capture           *)
(* container.  Any failed command raises, nothing catches it, and no       *)
(* finally stops the tcpdump: the harness ends and tcpdump stays, and so   *)
(* do the pcap files, which the next invocation finds.                     *)
(* A transfer shows two packets on the broker's interface, standing for    *)
(* its two legs: the sender's, which ends before client_a does, and the    *)
(* receiver's, which may come late.                                        *)
(***************************************************************************)
EXTENDS Integers, Sequences, SequencesExt, FiniteSets

CONSTANTS
    File,            \* the files of capture_mqtt
    MaxInvocations,  \* bound: how often the harness is run
    Absent           \* a pcap file that does not exist

ASSUME InvocationsAssumption == MaxInvocations \in Nat \ {0}

Label == File \X (1 .. 2)              \* f"{filename}_{qos_level}"
Transfer == (1 .. MaxInvocations) \X Label
Legs == {"to_broker", "to_receiver"}
Packet == Transfer \X Legs

ASSUME AbsentAssumption == \A packets \in SUBSET Packet : packets # Absent

VARIABLES
    pc,          \* where the harness is
    labels,      \* the rest of its loops: Head(labels) is the run's label
    invocation,  \* how often it was started
    dumps,       \* the tcpdump processes: their file and whether they opened it
    pcap,        \* pcap[l]: the packets in the file of label l, or Absent
    seen,        \* the packets that have been on the wire
    failures,    \* history: the invocations that raised
    stale        \* history: the transfers whose label had a file before

managerVars == <<pc, labels, invocation, dumps, pcap, seen, failures, stale>>

(* for qos_level in range(1, 3): for filename in files                     *)
LoopOrders ==
    {s \in [1 .. 2 * Cardinality(File) -> Label] :
        /\ ToSet(s) = Label
        /\ \A i, k \in DOMAIN s : i < k => s[i][2] <= s[k][2]}

ManagerInit ==
    /\ pc = "start"
    /\ labels \in LoopOrders
    /\ invocation = 1
    /\ dumps = {}
    /\ pcap = [l \in Label |-> Absent]
    /\ seen = {}
    /\ failures = {}
    /\ stale = {}

label == Head(labels)
transfer == <<invocation, label>>

Raise ==
    /\ pc' = "failed"
    /\ failures' = failures \cup {invocation}
    /\ UNCHANGED <<labels, invocation>>

(* docker compose exec -d ... tcpdump -w outfile: it returns at once.      *)
StartCapture ==
    /\ pc = "start"
    /\ dumps' = dumps \cup {[file |-> label, open |-> FALSE, of |-> transfer]}
    /\ stale' = IF pcap[label] = Absent THEN stale ELSE stale \cup {transfer}
    /\ pc' = "wait"
    /\ UNCHANGED <<labels, invocation, pcap, seen, failures>>

(* _wait_until_ready: test -s outfile.  A file of an earlier invocation    *)
(* passes the test too.                                                    *)
ReadyAtOnce ==   \* mutant: the harness does not wait for tcpdump
    /\ pc = "wait"
    /\ pc' = "run"
    /\ UNCHANGED <<labels, invocation, dumps, pcap, seen, failures, stale>>

CaptureReady ==
    /\ pc = "wait"
    /\ pcap[label] # Absent
    /\ pc' = "run"
    /\ UNCHANGED <<labels, invocation, dumps, pcap, seen, failures, stale>>

(* A command fails: tcpdump cannot be started, none wrote its file within  *)
(* 5 s, client_a ends with an error, or pkill finds no tcpdump.            *)
CommandFails ==
    /\ \/ pc = "start"
       \/ pc = "wait" /\ pcap[label] = Absent
       \/ pc = "run"
       \/ pc = "stop" /\ dumps = {}
    /\ Raise
    /\ UNCHANGED <<dumps, pcap, seen, stale>>

(* client_a returns 0 after the transfer, or with no packet sent when it   *)
(* finds no such file.                                                     *)
TransferEnds ==
    /\ pc = "run"
    /\ pc' = "stop"
    /\ UNCHANGED <<labels, invocation, dumps, pcap, seen, failures, stale>>

(* stop_capture_run: pkill -TERM tcpdump, then the next run of the loops.  *)
LeaveDump ==     \* mutant: tcpdump is not killed
    /\ pc = "stop" /\ dumps # {}
    /\ labels' = Tail(labels)
    /\ pc' = IF Len(labels) = 1 THEN "done" ELSE "start"
    /\ UNCHANGED <<invocation, dumps, pcap, seen, failures, stale>>

StopCapture ==
    /\ pc = "stop" /\ dumps # {}
    /\ dumps' = {}
    /\ labels' = Tail(labels)
    /\ pc' = IF Len(labels) = 1 THEN "done" ELSE "start"
    /\ UNCHANGED <<invocation, pcap, seen, failures, stale>>

HarnessStep ==
    StartCapture \/ CaptureReady \/ CommandFails \/ TransferEnds \/ StopCapture

(* Someone runs the harness again.                                         *)
InvokeAgain ==
    /\ pc \in {"failed", "done"}
    /\ invocation < MaxInvocations
    /\ invocation' = invocation + 1
    /\ labels' \in LoopOrders
    /\ pc' = "start"
    /\ UNCHANGED <<dumps, pcap, seen, failures, stale>>

(* A tcpdump creates or truncates its file and writes the pcap header.     *)
DumpOpens ==
    \E d \in dumps :
        /\ ~d.open
        /\ dumps' = (dumps \ {d}) \cup {[file |-> d.file, open |-> TRUE, of |-> d.of]}
        /\ pcap' = [pcap EXCEPT ![d.file] = {}]
        /\ UNCHANGED <<pc, labels, invocation, seen, failures, stale>>

DumpDies ==
    /\ \E d \in dumps : dumps' = dumps \ {d}
    /\ UNCHANGED <<pc, labels, invocation, pcap, seen, failures, stale>>

(* A packet passes the broker's interface: every tcpdump that is open      *)
(* records it, whatever run it belongs to.                                 *)
PacketPasses ==
    /\ \E t \in Transfer, leg \in Legs :
          /\ <<t, leg>> \notin seen
          /\ IF leg = "to_broker" THEN pc = "run" /\ t = transfer
             ELSE <<t, "to_broker">> \in seen
          /\ seen' = seen \cup {<<t, leg>>}
          /\ pcap' = [l \in Label |->
                         IF \E d \in dumps : d.open /\ d.file = l
                         THEN pcap[l] \cup {<<t, leg>>} ELSE pcap[l]]
    /\ UNCHANGED <<pc, labels, invocation, dumps, failures, stale>>

ManagerNext ==
    \/ HarnessStep \/ InvokeAgain
    \/ DumpOpens \/ DumpDies \/ PacketPasses

ManagerSpec == ManagerInit /\ [][ManagerNext]_managerVars

-----------------------------------------------------------------------------
Recorded(l) == IF pcap[l] = Absent THEN {} ELSE pcap[l]

(* docker-compose.yaml:65, "each run gets its own pcap file instead of one *)
(* long capture".  What keeps a file from being its run's own is only a    *)
(* harness that raised before, whose tcpdump lives on, or the receiver's   *)
(* leg of another transfer, which comes late: never another sender's       *)
(* packets.                                                                *)
ForeignExplained ==
    \A l \in Label : \A p \in Recorded(l) :
        p[1][2] # l => failures # {} \/ p[2] = "to_receiver"

(* A transfer is measured from its first packet: a tcpdump that records    *)
(* has the sender's leg of its own run, unless the file was there before,  *)
(* so that the harness did not wait, or an earlier invocation raised.      *)
SenderLegRecorded ==
    \A d \in dumps :
        /\ d.open /\ d.of \notin stale
        /\ <<d.of, "to_broker">> \in seen
        /\ failures = {}
        => <<d.of, "to_broker">> \in pcap[d.file]
=============================================================================
