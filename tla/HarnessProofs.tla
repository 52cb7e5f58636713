--------------------------- MODULE HarnessProofs ----------------------------
(***************************************************************************)
(* Proofs about the two programs on the host: CaptureHarness, for every set *)
(* of files and every number of invocations, and Experiments, for every    *)
(* list of protocols and of profiles, of every length, and whatever fails. *)
(***************************************************************************)
EXTENDS CaptureHarness, Experiments, SequenceTheorems, TLAPS

-----------------------------------------------------------------------------
(* CaptureHarness.                                                         *)

Dump(d) ==
    d = [file |-> d.file, open |-> d.open, of |-> d.of] /\ d.open \in BOOLEAN

HarnessTypeOK ==
    /\ pcap \in [Label -> (SUBSET Packet) \cup {Absent}]
    /\ seen \subseteq Packet
    /\ \A d \in dumps : Dump(d)

(* A file that a tcpdump has opened is there.                              *)
OpenedIsThere == \A d \in dumps, l \in Label : d.open /\ d.file = l => pcap[l] # Absent

(* The harness only lets a sender run when there is a file of its label.   *)
RunHasFile == pc = "run" /\ label \in Label => pcap[label] # Absent

SeenHasFile ==
    \A t \in Transfer : <<t, "to_broker">> \in seen => pcap[t[2]] # Absent

(* Unless the harness has raised, there is one tcpdump at most, that of    *)
(* the current transfer.                                                   *)
OneDump ==
    \A d \in dumps :
        /\ pc \in {"wait", "run", "stop"}
        /\ d.file = label /\ d.of = transfer
        /\ \A e \in dumps : d = e

(* Of other senders no packet is in a file.                                *)
OwnPackets ==
    \A l \in Label : pcap[l] # Absent =>
        \A p \in pcap[l] : p[1][2] # l => p[2] = "to_receiver"

(* A tcpdump whose file was not there has not opened it, if it is not.     *)
NotYetThere ==
    \A d \in dumps : ~d.open /\ d.of \notin stale /\ d.file \in Label =>
        pcap[d.file] = Absent

HarnessInv ==
    /\ HarnessTypeOK /\ OpenedIsThere /\ RunHasFile /\ SeenHasFile
    /\ failures = {} => OneDump /\ OwnPackets /\ NotYetThere /\ SenderLegRecorded

LEMMA PacketFields ==
    ASSUME NEW t \in Transfer, NEW leg \in Legs
    PROVE  /\ <<t, leg>> \in Packet /\ <<t, leg>>[1] = t /\ <<t, leg>>[2] = leg
           /\ t[2] \in Label
  BY DEF Packet, Transfer

(* The fields of a tcpdump's record.                                       *)
LEMMA DumpFields ==
    ASSUME NEW file, NEW of, NEW open \in BOOLEAN
    PROVE  LET d == [file |-> file, open |-> open, of |-> of] IN
           /\ d.file = file /\ d.open = open /\ d.of = of /\ Dump(d)
<1> DEFINE d == [file |-> file, open |-> open, of |-> of]
<1>1. d.file = file /\ d.open = open /\ d.of = of
    OBVIOUS
<1>2. Dump(d)
    BY <1>1 DEF Dump
<1> QED
    BY <1>1, <1>2

LEMMA InitHarness == ManagerInit => HarnessInv
  BY DEF ManagerInit, HarnessInv, HarnessTypeOK, OpenedIsThere, RunHasFile,
         SeenHasFile, OneDump, OwnPackets, NotYetThere, SenderLegRecorded

(* The new tcpdump finds a file of its label, and its transfer is stale,   *)
(* or there is none, and no packet of it has passed.                       *)
LEMMA StartCaptureKeeps == HarnessInv /\ StartCapture => HarnessInv'
<1> SUFFICES ASSUME HarnessInv, StartCapture PROVE HarnessInv'
    OBVIOUS
<1> DEFINE new == [file |-> label, open |-> FALSE, of |-> transfer]
<1>1. /\ dumps' = dumps \cup {new} /\ pc = "start" /\ pc' = "wait"
      /\ pcap' = pcap /\ seen' = seen /\ failures' = failures
      /\ label' = label /\ transfer' = transfer
    BY DEF StartCapture, label, transfer
<1>4. new.file = label /\ ~new.open /\ new.of = transfer /\ Dump(new)
    BY DumpFields
<1> HIDE DEF new
<1>2. HarnessTypeOK' /\ OpenedIsThere' /\ RunHasFile' /\ SeenHasFile'
    BY <1>1, <1>4
    DEF HarnessInv, HarnessTypeOK, Dump, OpenedIsThere, RunHasFile, SeenHasFile
<1>3. ASSUME failures = {}
      PROVE  OneDump' /\ OwnPackets' /\ NotYetThere' /\ SenderLegRecorded'
  <2>1. dumps' = {new}
    BY <1>1, <1>3 DEF HarnessInv, OneDump
  <2>2. OneDump' /\ OwnPackets'
    BY <1>1, <1>4, <1>3, <2>1 DEF HarnessInv, OneDump, OwnPackets
  <2>3. NotYetThere'
    BY <1>1, <1>4, <2>1 DEF StartCapture, NotYetThere
  <2>4. SenderLegRecorded'
    BY <1>4, <2>1 DEF SenderLegRecorded
  <2> QED
    BY <2>2, <2>3, <2>4
<1> QED
    BY <1>1, <1>2, <1>3 DEF HarnessInv

(* The steps of the harness that touch neither tcpdump nor files.          *)
LEMMA WaitingKeeps == HarnessInv /\ (CaptureReady \/ TransferEnds) => HarnessInv'
<1> SUFFICES ASSUME HarnessInv, CaptureReady \/ TransferEnds PROVE HarnessInv'
    OBVIOUS
<1>1. /\ UNCHANGED <<dumps, pcap, seen, failures, stale>>
      /\ label' = label /\ transfer' = transfer
      /\ pc \in {"wait", "run"} /\ pc' \in {"run", "stop"}
      /\ pc' = "run" => pcap[label] # Absent
    BY DEF CaptureReady, TransferEnds, label, transfer
<1>2. HarnessTypeOK' /\ OpenedIsThere' /\ RunHasFile' /\ SeenHasFile'
    BY <1>1 DEF HarnessInv, HarnessTypeOK, OpenedIsThere, RunHasFile, SeenHasFile
<1> QED
    BY <1>1, <1>2 DEF HarnessInv, OneDump, OwnPackets, NotYetThere, SenderLegRecorded

LEMMA CommandFailsKeeps == HarnessInv /\ CommandFails => HarnessInv'
<1> SUFFICES ASSUME HarnessInv, CommandFails PROVE HarnessInv'
    OBVIOUS
<1>1. /\ UNCHANGED <<dumps, pcap, seen>> /\ pc' = "failed" /\ failures' # {}
    BY DEF CommandFails, Raise
<1> QED
    BY <1>1 DEF HarnessInv, HarnessTypeOK, OpenedIsThere, RunHasFile, SeenHasFile

(* stop_capture_run leaves no tcpdump.                                     *)
LEMMA StopCaptureKeeps == HarnessInv /\ StopCapture => HarnessInv'
<1> SUFFICES ASSUME HarnessInv, StopCapture PROVE HarnessInv'
    OBVIOUS
<1>1. /\ UNCHANGED <<pcap, seen, failures, stale>> /\ dumps' = {}
      /\ pc' \in {"done", "start"}
    BY DEF StopCapture
<1> QED
    BY <1>1 DEF HarnessInv, HarnessTypeOK, OpenedIsThere, RunHasFile, SeenHasFile,
                OneDump, OwnPackets, NotYetThere, SenderLegRecorded

LEMMA InvokeAgainKeeps == HarnessInv /\ InvokeAgain => HarnessInv'
<1> SUFFICES ASSUME HarnessInv, InvokeAgain PROVE HarnessInv'
    OBVIOUS
<1>1. /\ UNCHANGED <<dumps, pcap, seen, failures, stale>>
      /\ pc \in {"failed", "done"} /\ pc' = "start"
    BY DEF InvokeAgain
<1>2. failures = {} => dumps = {}
    BY <1>1 DEF HarnessInv, OneDump
<1> QED
    BY <1>1, <1>2 DEF HarnessInv, HarnessTypeOK, OpenedIsThere, RunHasFile,
                      SeenHasFile, OneDump, OwnPackets, NotYetThere, SenderLegRecorded

(* A tcpdump whose transfer is not stale opens a file that was not there:  *)
(* then its sender has not run.                                            *)
LEMMA DumpOpensKeeps == HarnessInv /\ DumpOpens => HarnessInv'
<1> SUFFICES ASSUME HarnessInv, NEW d \in dumps, ~d.open,
                    dumps' = (dumps \ {d}) \cup {[file |-> d.file, open |-> TRUE, of |-> d.of]},
                    pcap' = [pcap EXCEPT ![d.file] = {}],
                    UNCHANGED <<pc, labels, invocation, seen, failures, stale>>
             PROVE  HarnessInv'
    BY DEF DumpOpens
<1> DEFINE opened == [file |-> d.file, open |-> TRUE, of |-> d.of]
<1>1. /\ opened.file = d.file /\ opened.open /\ opened.of = d.of /\ Dump(opened)
      /\ dumps' = (dumps \ {d}) \cup {opened}
    BY DumpFields
<1> HIDE DEF opened
<1>2. {} \in SUBSET Packet /\ {} # Absent
    BY AbsentAssumption
<1>3. \A l \in Label : pcap'[l] = (IF l = d.file THEN {} ELSE pcap[l])
    BY DEF HarnessInv, HarnessTypeOK
<1>4. HarnessTypeOK'
    BY <1>1, <1>2 DEF HarnessInv, HarnessTypeOK
<1>5. OpenedIsThere' /\ RunHasFile' /\ SeenHasFile'
  <2>1. \A l \in Label : pcap[l] # Absent => pcap'[l] # Absent
    BY <1>2, <1>3
  <2>2. OpenedIsThere'
    BY <1>1, <1>2, <1>3, <2>1 DEF HarnessInv, OpenedIsThere
  <2>3. RunHasFile' /\ SeenHasFile'
    BY <2>1 DEF HarnessInv, RunHasFile, SeenHasFile, label, Transfer
  <2> QED
    BY <2>2, <2>3
<1>6. ASSUME failures = {}
      PROVE  OneDump' /\ OwnPackets' /\ NotYetThere' /\ SenderLegRecorded'
  <2>1. dumps' = {opened} /\ d.file = label /\ d.of = transfer
        /\ pc \in {"wait", "run", "stop"}
    BY <1>1, <1>6 DEF HarnessInv, OneDump
  <2>2. OneDump' /\ OwnPackets' /\ NotYetThere'
    BY <1>1, <1>3, <1>6, <2>1
    DEF HarnessInv, OneDump, OwnPackets, NotYetThere, label, transfer
  <2>3. ASSUME d.of \notin stale, <<d.of, "to_broker">> \in seen PROVE FALSE
    <3>1. d.of \in Transfer /\ d.of[2] = label
      BY <2>1, <2>3 DEF HarnessInv, HarnessTypeOK, Packet, transfer
    <3>2. label \in Label
      BY <3>1 DEF Transfer
    <3>3. pcap[label] = Absent
      BY <1>6, <2>1, <2>3, <3>2 DEF HarnessInv, NotYetThere
    <3> QED
      BY <2>3, <3>1, <3>3 DEF HarnessInv, SeenHasFile
  <2>4. SenderLegRecorded'
    BY <1>1, <2>1, <2>3 DEF SenderLegRecorded
  <2> QED
    BY <2>2, <2>4
<1> QED
    BY <1>4, <1>5, <1>6 DEF HarnessInv

LEMMA DumpDiesKeeps == HarnessInv /\ DumpDies => HarnessInv'
<1> SUFFICES ASSUME HarnessInv, DumpDies PROVE HarnessInv'
    OBVIOUS
<1>1. /\ dumps' \subseteq dumps /\ label' = label /\ transfer' = transfer
      /\ UNCHANGED <<pc, pcap, seen, failures, stale>>
    BY DEF DumpDies, label, transfer
<1> QED
    BY <1>1 DEF HarnessInv, HarnessTypeOK, OpenedIsThere, RunHasFile, SeenHasFile,
                OneDump, OwnPackets, NotYetThere, SenderLegRecorded

(* A sender's packet is recorded by the tcpdump of its own transfer, if by *)
(* any.                                                                    *)
LEMMA PacketPassesKeeps == HarnessInv /\ PacketPasses => HarnessInv'
<1> SUFFICES ASSUME HarnessInv, NEW t \in Transfer, NEW leg \in Legs,
                    <<t, leg>> \notin seen,
                    leg = "to_broker" => pc = "run" /\ t = transfer,
                    seen' = seen \cup {<<t, leg>>},
                    pcap' = [l \in Label |->
                         IF \E d \in dumps : d.open /\ d.file = l
                         THEN pcap[l] \cup {<<t, leg>>} ELSE pcap[l]],
                    UNCHANGED <<pc, labels, invocation, dumps, failures, stale>>
             PROVE  HarnessInv'
    BY DEF PacketPasses
<1> DEFINE p == <<t, leg>>
           Records(l) == \E d \in dumps : d.open /\ d.file = l
<1>1. p \in Packet /\ p[1] = t /\ p[2] = leg /\ t[2] \in Label
    BY PacketFields
<1> HIDE DEF p
<1>2. \A l \in Label : pcap'[l] = IF Records(l) THEN pcap[l] \cup {p} ELSE pcap[l]
    BY DEF p
<1>3. \A l \in Label : Records(l) => pcap[l] \in SUBSET Packet /\ pcap[l] # Absent
    BY DEF HarnessInv, HarnessTypeOK, OpenedIsThere
<1>4. \A l \in Label : Records(l) => pcap'[l] \in SUBSET Packet /\ pcap'[l] # Absent
  <2> SUFFICES ASSUME NEW l \in Label, Records(l)
               PROVE  pcap'[l] \in SUBSET Packet /\ pcap'[l] # Absent
    OBVIOUS
  <2>1. pcap'[l] = pcap[l] \cup {p}
    BY <1>2
  <2>2. pcap'[l] \in SUBSET Packet
    BY <1>1, <1>3, <2>1
  <2> QED
    BY <2>2, AbsentAssumption
<1>5. \A l \in Label : pcap[l] # Absent => pcap'[l] # Absent
    BY <1>2, <1>4
<1>6. label' = label /\ transfer' = transfer
    BY DEF label, transfer
<1>7. HarnessTypeOK'
  <2>1. pcap' \in [Label -> (SUBSET Packet) \cup {Absent}]
    BY <1>2, <1>4 DEF HarnessInv, HarnessTypeOK
  <2> QED
    BY <1>1, <2>1 DEF HarnessInv, HarnessTypeOK, p
<1>8. OpenedIsThere' /\ RunHasFile'
    BY <1>5, <1>6 DEF HarnessInv, OpenedIsThere, RunHasFile
<1>9. SeenHasFile'
  <2> SUFFICES ASSUME NEW u \in Transfer, <<u, "to_broker">> \in seen'
               PROVE  pcap'[u[2]] # Absent
    BY DEF SeenHasFile
  <2>1. u[2] \in Label
    BY PacketFields DEF Legs
  <2>2. CASE <<u, "to_broker">> \in seen
    BY <1>5, <2>1, <2>2 DEF HarnessInv, SeenHasFile
  <2>3. CASE <<u, "to_broker">> = <<t, leg>>
    <3>1. u = transfer /\ pc = "run"
      BY <2>3
    <3>2. u[2] = label
      BY <3>1 DEF transfer
    <3> QED
      BY <1>5, <2>1, <3>1, <3>2 DEF HarnessInv, RunHasFile
  <2> QED
    BY <2>2, <2>3
<1>10. ASSUME failures = {}
       PROVE  OneDump' /\ OwnPackets' /\ NotYetThere' /\ SenderLegRecorded'
  <2>1. OneDump'
    BY <1>6, <1>10 DEF HarnessInv, OneDump
  <2>2. OwnPackets'
    <3> SUFFICES ASSUME NEW l \in Label, pcap'[l] # Absent, NEW r \in pcap'[l],
                        r[1][2] # l
                 PROVE  r[2] = "to_receiver"
      BY DEF OwnPackets
    <3>1. CASE pcap[l] # Absent /\ r \in pcap[l]
      BY <1>10, <3>1 DEF HarnessInv, OwnPackets
    <3>2. CASE Records(l) /\ r = p
      <4>1. l = label
        BY <1>10, <3>2 DEF HarnessInv, OneDump
      <4>2. leg = "to_broker" => t[2] = label
        BY DEF transfer
      <4> QED
        BY <1>1, <3>2, <4>1, <4>2 DEF Legs
    <3> QED
      BY <1>2, <1>3, <3>1, <3>2
  <2>3. NotYetThere'
    <3> SUFFICES ASSUME NEW d \in dumps, ~d.open, d.of \notin stale, d.file \in Label
                 PROVE  pcap'[d.file] = Absent
      BY DEF NotYetThere
    <3>1. ~Records(d.file)
      BY <1>10 DEF HarnessInv, OneDump
    <3> QED
      BY <1>2, <1>10, <3>1 DEF HarnessInv, NotYetThere
  <2>4. SenderLegRecorded'
    <3> SUFFICES ASSUME NEW d \in dumps, d.open, d.of \notin stale,
                        <<d.of, "to_broker">> \in seen'
                 PROVE  <<d.of, "to_broker">> \in pcap'[d.file]
      BY DEF SenderLegRecorded
    <3>1. d.file = label /\ d.of = transfer
      BY <1>10 DEF HarnessInv, OneDump
    <3>2. <<d.of, "to_broker">> \in Packet
      BY <1>1 DEF HarnessInv, HarnessTypeOK, p
    <3>3. d.file \in Label
      BY <3>1, <3>2 DEF Packet, transfer, Transfer
    <3>4. pcap'[d.file] = pcap[d.file] \cup {p}
      BY <1>2, <3>3
    <3> QED
      BY <1>10, <3>4 DEF HarnessInv, SenderLegRecorded, p
  <2> QED
    BY <2>1, <2>2, <2>3, <2>4
<1> QED
    BY <1>7, <1>8, <1>9, <1>10 DEF HarnessInv

LEMMA ManagerNextKeeps == HarnessInv /\ [ManagerNext]_managerVars => HarnessInv'
<1> SUFFICES ASSUME HarnessInv, [ManagerNext]_managerVars PROVE HarnessInv'
    OBVIOUS
<1>1. CASE HarnessStep
    BY <1>1, StartCaptureKeeps, WaitingKeeps, CommandFailsKeeps, StopCaptureKeeps
    DEF HarnessStep
<1>2. CASE InvokeAgain \/ DumpOpens \/ DumpDies \/ PacketPasses
    BY <1>2, InvokeAgainKeeps, DumpOpensKeeps, DumpDiesKeeps, PacketPassesKeeps
<1>3. CASE UNCHANGED managerVars
    BY <1>3 DEF managerVars, HarnessInv, HarnessTypeOK, OpenedIsThere, RunHasFile,
                SeenHasFile, OneDump, OwnPackets, NotYetThere, SenderLegRecorded,
                label, transfer
<1> QED
    BY <1>1, <1>2, <1>3 DEF ManagerNext

LEMMA HarnessInductive == ManagerSpec => []HarnessInv
<1>1. ManagerInit => HarnessInv
    BY InitHarness
<1>2. HarnessInv /\ [ManagerNext]_managerVars => HarnessInv'
    BY ManagerNextKeeps
<1> QED
    BY <1>1, <1>2, PTL DEF ManagerSpec

(* docker-compose.yaml:65.  Whatever the files and however often it runs,  *)
(* a harness that never raised leaves no other sender's packet in a file.  *)
THEOREM FilesAreTheirRuns == ManagerSpec => []ForeignExplained
<1>1. HarnessInv => ForeignExplained
    BY DEF HarnessInv, OwnPackets, ForeignExplained, Recorded
<1> QED
    BY <1>1, HarnessInductive, PTL

(* A harness that never raised has the sender's leg of every transfer it   *)
(* is recording, unless a file of its label was there before.              *)
THEOREM FreshRunsAreRecorded == ManagerSpec => []SenderLegRecorded
<1>1. HarnessInv => SenderLegRecorded
    BY DEF HarnessInv, SenderLegRecorded
<1> QED
    BY <1>1, HarnessInductive, PTL

-----------------------------------------------------------------------------
(* Experiments.                                                            *)

RunnerTypeOK ==
    /\ container \in [Service -> {"absent", "created", "del", "netem", "tbf",
                                  "app", "exited"}]
    /\ DOMAIN env = Service /\ DOMAIN qdisc = Service

Shaped(e) == <<<<"netem", Profile(e)>>, <<"tbf", Profile(e)>>>>

(* Where a client's script is tells what its interface has, and it is of   *)
(* the profile the container was created for, not of the experiment that   *)
(* the runner is at.                                                       *)
QdiscsOfProfile ==
    \A s \in Clients :
        /\ container[s] = "netem" => qdisc[s] = <<>>
        /\ container[s] = "tbf" => qdisc[s] = <<<<"netem", Profile(env[s])>>>>
        /\ container[s] = "app" => qdisc[s] = Shaped(env[s])

(* Only containers of the current experiment run, and none when up has     *)
(* returned without an error.                                              *)
OnlyThisExperiment ==
    /\ step \in {"build", "up", "ended"} => Running = {}
    /\ step = "down" /\ ~check => Running = {}
    /\ step \in {"wait", "stop"} => Running \subseteq Up

LEMMA ClientsAreServices == Clients \subseteq Service
  BY DEF Clients, Service, Services

LEMMA TwoQdiscs ==
    ASSUME NEW a, NEW b
    PROVE  Append(<<a>>, b) = <<a, b>>
<1>1. <<a>> \in Seq({a, b}) /\ <<a, b>> \in Seq({a, b}) /\ b \in {a, b}
    OBVIOUS
<1>2. Len(<<a>>) = 1 /\ <<a>>[1] = a
    OBVIOUS
<1>3. /\ Append(<<a>>, b) \in Seq({a, b})
      /\ Len(Append(<<a>>, b)) = 2
      /\ Append(<<a>>, b)[1] = a /\ Append(<<a>>, b)[2] = b
    BY <1>1, <1>2, AppendProperties
<1>4. Len(<<a, b>>) = 2 /\ <<a, b>>[1] = a /\ <<a, b>>[2] = b
    OBVIOUS
<1>5. \A i \in 1 .. 2 : Append(<<a>>, b)[i] = <<a, b>>[i]
    BY <1>3, <1>4
<1> QED
    BY <1>1, <1>3, <1>4, <1>5, SeqEqual

LEMMA InitRunner == RunnerInit => RunnerTypeOK /\ QdiscsOfProfile
                                  /\ OnlyThisExperiment /\ RowsUnderProfile
  BY ClientsAreServices
  DEF RunnerInit, RunnerTypeOK, QdiscsOfProfile, OnlyThisExperiment, Running,
      RowsUnderProfile

LEMMA TypeKept == RunnerTypeOK /\ [RunnerNext]_runnerVars => RunnerTypeOK'
<1> SUFFICES ASSUME RunnerTypeOK, [RunnerNext]_runnerVars PROVE RunnerTypeOK'
    OBVIOUS
<1> USE DEF RunnerTypeOK, Goto
<1>1. CASE build \/ UpFails \/ UpReturns \/ Measure \/ UNCHANGED runnerVars
    BY <1>1 DEF build, UpFails, UpReturns, Measure, runnerVars
<1>2. CASE ComposeUp
    BY <1>2 DEF ComposeUp, Create
<1>3. CASE down
    BY <1>3 DEF down
<1>4. ASSUME NEW s \in Service, Start(s) \/ Stop(s)
      PROVE  RunnerTypeOK'
    BY <1>4 DEF Start, Stop
<1>5. ASSUME NEW s \in Service, UnknownProfile(s) \/ QdiscFails(s) \/ ClientEnds(s) \/ Crash(s)
      PROVE  RunnerTypeOK'
    BY <1>5 DEF UnknownProfile, QdiscFails, ClientEnds, Crash, Exit
<1>6. ASSUME NEW s \in Service, QdiscDel(s) \/ QdiscAdd(s)
      PROVE  RunnerTypeOK'
    BY <1>6 DEF QdiscDel, QdiscAdd
<1> QED
    BY <1>1, <1>2, <1>3, <1>4, <1>5, <1>6 DEF RunnerNext

(* A step that moves no container into the script's last places and keeps  *)
(* the interfaces.                                                         *)
LEMMA QdiscsUntouched ==
    ASSUME QdiscsOfProfile, plan' = plan,
           \A s \in Clients :
              \/ container'[s] = container[s] /\ env'[s] = env[s] /\ qdisc'[s] = qdisc[s]
              \/ container'[s] \notin {"netem", "tbf", "app"}
    PROVE  QdiscsOfProfile'
  BY DEF QdiscsOfProfile, Shaped, Profile, PROFILES

LEMMA QdiscsKept ==
    RunnerTypeOK /\ QdiscsOfProfile /\ [RunnerNext]_runnerVars => QdiscsOfProfile'
<1> SUFFICES ASSUME RunnerTypeOK, QdiscsOfProfile, [RunnerNext]_runnerVars
             PROVE  QdiscsOfProfile'
    OBVIOUS
<1> USE ClientsAreServices DEF RunnerTypeOK
<1>1. CASE build \/ UpFails \/ UpReturns \/ Measure \/ UNCHANGED runnerVars
    BY <1>1, QdiscsUntouched DEF build, UpFails, UpReturns, Measure, runnerVars
<1>2. CASE ComposeUp
    BY <1>2, QdiscsUntouched DEF ComposeUp, Create
<1>3. CASE down
    BY <1>3, QdiscsUntouched DEF down
<1>4. ASSUME NEW s \in Service, Start(s) \/ Stop(s)
      PROVE  QdiscsOfProfile'
  <2>1. s \in Clients => s # "mosquitto-broker"
    BY DEF Clients
  <2> QED
    BY <1>4, <2>1, QdiscsUntouched DEF Start, Stop, Goto
<1>5. ASSUME NEW s \in Service, UnknownProfile(s) \/ QdiscFails(s) \/ ClientEnds(s) \/ Crash(s)
      PROVE  QdiscsOfProfile'
    BY <1>5, QdiscsUntouched DEF UnknownProfile, QdiscFails, ClientEnds, Crash, Exit, Goto
<1>6. ASSUME NEW s \in Service, QdiscDel(s)
      PROVE  QdiscsOfProfile'
    BY <1>6 DEF QdiscDel, Goto, QdiscsOfProfile, Shaped, Profile, PROFILES
<1>7. ASSUME NEW s \in Service, QdiscAdd(s)
      PROVE  QdiscsOfProfile'
  <2> SUFFICES ASSUME NEW c \in Clients
               PROVE  /\ container'[c] = "netem" => qdisc'[c] = <<>>
                      /\ container'[c] = "tbf" => qdisc'[c] = <<<<"netem", Profile(env[c])>>>>
                      /\ container'[c] = "app" => qdisc'[c] = Shaped(env[c])
    BY <1>7 DEF QdiscAdd, QdiscsOfProfile, Shaped, Profile, PROFILES
  <2>1. CASE c # s
    BY <1>7, <2>1 DEF QdiscAdd, Goto, QdiscsOfProfile
  <2>2. CASE c = s /\ container[s] = "netem"
    <3>1. qdisc'[s] = Append(<<>>, <<"netem", Profile(env[s])>>) /\ container'[s] = "tbf"
      BY <1>7, <2>2 DEF QdiscAdd, Goto, QdiscsOfProfile, ProfileOf
    <3> QED
      BY <2>2, <3>1
  <2>3. CASE c = s /\ container[s] = "tbf"
    <3>1. /\ qdisc'[s] = Append(<<<<"netem", Profile(env[s])>>>>, <<"tbf", Profile(env[s])>>)
          /\ container'[s] = "app"
      BY <1>7, <2>3 DEF QdiscAdd, Goto, QdiscsOfProfile, ProfileOf
    <3>2. qdisc'[s] = Shaped(env[s])
      BY <3>1, TwoQdiscs, Zenon DEF Shaped
    <3> QED
      BY <2>3, <3>1, <3>2
  <2> QED
    BY <1>7, <2>1, <2>2, <2>3 DEF QdiscAdd
<1> QED
    BY <1>1, <1>2, <1>3, <1>4, <1>5, <1>6, <1>7 DEF RunnerNext

(* Rows are only added by the client of CoAP, whose program runs.          *)
LEMMA RowsKept ==
    RunnerTypeOK /\ QdiscsOfProfile /\ RowsUnderProfile /\ [RunnerNext]_runnerVars
        => RowsUnderProfile'
<1> SUFFICES ASSUME QdiscsOfProfile, RowsUnderProfile, [RunnerNext]_runnerVars
             PROVE  RowsUnderProfile'
    OBVIOUS
<1>1. CASE Measure
  <2>1. "coap-client" \in Clients
    BY DEF Clients
  <2>2. qdisc["coap-client"] = Shaped(env["coap-client"])
    BY <1>1, <2>1 DEF Measure, QdiscsOfProfile
  <2> QED
    BY <1>1, <2>2 DEF Measure, RowsUnderProfile, Shaped
<1>2. CASE UNCHANGED rows
    BY <1>2 DEF RowsUnderProfile
<1>3. [RunnerNext]_runnerVars => Measure \/ UNCHANGED rows
    BY DEF RunnerNext, runnerVars, build, ComposeUp, UpFails, UpReturns, down,
           Start, Stop, UnknownProfile, QdiscDel, QdiscAdd, QdiscFails,
           ClientEnds, Crash, Exit
<1> QED
    BY <1>1, <1>2, <1>3

(* Containers only begin to run in Start, which is of this experiment.     *)
LEMMA OnlyThisKept ==
    RunnerTypeOK /\ OnlyThisExperiment /\ [RunnerNext]_runnerVars => OnlyThisExperiment'
<1> SUFFICES ASSUME RunnerTypeOK, OnlyThisExperiment, [RunnerNext]_runnerVars
             PROVE  OnlyThisExperiment'
    OBVIOUS
<1> USE DEF RunnerTypeOK, OnlyThisExperiment, Goto
<1>1. CASE UNCHANGED runnerVars \/ build \/ Measure
    BY <1>1 DEF runnerVars, build, Measure, Running, Up, Protocol, PROTOCOLS, PROFILES
<1>2. CASE ComposeUp
    BY <1>2 DEF ComposeUp, Create, Running
<1>3. CASE UpFails
    BY <1>3 DEF UpFails
<1>4. CASE UpReturns
  <2>1. Running = {}
    BY <1>4 DEF UpReturns
  <2> QED
    BY <1>4, <2>1 DEF UpReturns, Running
<1>5. CASE down
  <2>1. Running' \subseteq Running
    BY <1>5 DEF down, Running
  <2>2. step' \in {"raised", "up", "ended"} /\ (step' # "raised" => ~check)
    BY <1>5 DEF down
  <2> QED
    BY <1>5, <2>1, <2>2 DEF down
<1>6. ASSUME NEW s \in Service, Start(s)
      PROVE  OnlyThisExperiment'
  <2>1. Running' \subseteq Running \cup {s}
    BY <1>6 DEF Start, Running
  <2>2. Up' = Up
    BY <1>6 DEF Start, Up, Protocol, PROTOCOLS, PROFILES
  <2> QED
    BY <1>6, <2>1, <2>2 DEF Start
<1>7. ASSUME NEW s \in Service, QdiscDel(s) \/ QdiscAdd(s)
      PROVE  OnlyThisExperiment'
  <2>1. Running' = Running
    BY <1>7 DEF QdiscDel, QdiscAdd, Running
  <2>2. Up' = Up /\ UNCHANGED <<step, check>>
    BY <1>7 DEF QdiscDel, QdiscAdd, Up, Protocol, PROTOCOLS, PROFILES
  <2> QED
    BY <2>1, <2>2
<1>8. ASSUME NEW s \in Service, Stop(s)
      PROVE  OnlyThisExperiment'
  <2>1. Running' \subseteq Running
    BY <1>8 DEF Stop, Running
  <2>2. Up' = Up /\ UNCHANGED <<step, check>>
    BY <1>8 DEF Stop, Up, Protocol, PROTOCOLS, PROFILES
  <2> QED
    BY <2>1, <2>2
<1>9. ASSUME NEW s \in Service, UnknownProfile(s) \/ QdiscFails(s) \/ ClientEnds(s) \/ Crash(s)
      PROVE  OnlyThisExperiment'
  <2>1. \E code \in {0, 1} : Exit(s, code)
    BY <1>9 DEF UnknownProfile, QdiscFails, ClientEnds, Crash
  <2>2. Running' \subseteq Running
    BY <2>1 DEF Exit, Running
  <2>3. Up' = Up
    BY <2>1 DEF Exit, Up, Protocol, PROTOCOLS, PROFILES
  <2>4. /\ step' = IF step = "wait" THEN "stop" ELSE step
        /\ step # "wait" /\ ~check' => ~check
    BY <2>1 DEF Exit
  <2> QED
    BY <2>2, <2>3, <2>4
<1> QED
    BY <1>1, <1>2, <1>3, <1>4, <1>5, <1>6, <1>7, <1>8, <1>9 DEF RunnerNext

(* runner.py:21-22.  Every row was measured under the profile its file is  *)
(* named for, both tc commands of it, whatever outlives its experiment.    *)
THEOREM ProfilesDoNotMix == RunnerSpec => []RowsUnderProfile
<1> DEFINE I == RunnerTypeOK /\ QdiscsOfProfile /\ RowsUnderProfile
<1>1. RunnerInit => I
    BY InitRunner
<1>2. I /\ [RunnerNext]_runnerVars => I'
    BY TypeKept, QdiscsKept, RowsKept
<1> QED
    BY <1>1, <1>2, PTL DEF RunnerSpec

(* runner.py:32.  Although the clean-up misses most containers, none of an *)
(* earlier experiment runs when up is called again.                        *)
THEOREM ExperimentsAreAlone == RunnerSpec => []NothingElseRuns
<1> DEFINE I == RunnerTypeOK /\ OnlyThisExperiment
<1>1. RunnerInit => I
    BY InitRunner
<1>2. I /\ [RunnerNext]_runnerVars => I'
    BY TypeKept, OnlyThisKept
<1>3. I => NothingElseRuns
    BY DEF OnlyThisExperiment, NothingElseRuns
<1> QED
    BY <1>1, <1>2, <1>3, PTL DEF RunnerSpec
=============================================================================
