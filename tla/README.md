# Verification of the MQTT / HTTP / CoAP testbed

TLA+ models of the benchmark programs of this repository, TLC runs on small
instances, and TLAPS proofs of every safety property the passing runs check, for
every value of the constants. The programs move binary files over three protocols
and write rows of measurements; what can be wrong in them is less a single function
than an order of steps: a digest taken before a file is closed, an acknowledgement
that comes before its id is stored, a capture that is not stopped, a late request
after its retry, a container that outlives its experiment. The models are about
those orders. Paths below are relative to `src/`.

## 1. Inventory

### MQTT receiver: `protocols/MQTT/clients/client_b.py`, `common/integrity_checker.py`
- State: a dozen module globals (open handle, expected and received chunks,
  received bytes, name, digest, level, three times), the output file, the bytes
  that Python's writer still buffers, the CSV rows.
- Operations: `on_connect` subscribes to two topics; `on_message` handles
  metadata (reset everything, close a stale handle, open the new file) and data
  (write, count; on the last chunk take the verdict, write the row, close).
- Hard: messages say neither file nor position; late, repeated and missing
  chunks; metadata in the middle of a transfer; the digest is taken before the
  close; a restart in the middle; completion is an equality test.
- Correct when: the globals describe the open file; OK is said only of a file
  that is on the disk as announced; a row is of one transfer; no transfer is
  left waiting for ever.

### MQTT sender: `protocols/MQTT/clients/client_a.py`, `protocols/benchmark_manager.py`
- State: `metadata_mid`, `metadata_ack_event`, `ack_latency`, shared by the main
  thread and paho's network thread; paho's queue and message ids.
- Operations: one process per file and level; publish metadata, wait up to 10 s
  for its acknowledgement, publish every chunk and wait up to 60 s, write a row.
- Hard: `on_publish` runs between `publish` and the assignment of the id; waits
  that end by their timeout look like success; paho sends again after a
  reconnection, and what is published before the broker's CONNACK overtakes it; a
  failure ends the manager.
- Correct when: the broker gets a beginning of the run without gaps unless a
  message overtook others; a latency is the metadata's; a row implies delivery
  unless a wait was overdue; it ends.

### The MQTT benchmark as a whole
Sender, mosquitto and receiver. The broker keeps nothing for a clean session
that is not there. Correct when: undisturbed runs are reported once and intact,
whatever happened to earlier runs; files do not mix; nobody waits for the other.

### Measurement files: `output/write_csv.py`
Sender and receiver append to the same CSV file from two containers.
`write_to_csv` looks for the file, opens it, writes: three steps, no lock. Five
callers choose the file by protocol, version and suffix, and the columns.

### CoAP: `protocols/CoAP/client/`, `protocols/CoAP/server/`, `common/file_manager.py`
Two versions of a batch upload with three attempts and exponential back-off, and
of a server that checks a digest and saves. Hard: a request that raised may
arrive later; an empty file divides by zero; names with `=`, `&`, `#` or an escape
do not reach the server as they are.

### HTTP server: `protocols/HTTP/server/flask_server.py`, `common/file_manager.py`
One thread per request, `save_file` without a lock, and the truncation precedes
the write.

### Capture harness: `protocols/benchmark_manager.py`, `common/packet_capture.py`
Starts a tcpdump in the capture container for each run, waits until its file is
not empty, runs the sender, kills every tcpdump. No `finally`.

### Resource monitor: `common/resource_monitor.py`
A sampling thread, a stop event and two lists, all shared between runs; the
join has a timeout of 2 s.

### Numbers: `common/pcap_analyzer.py`, the formulas of `mqtt_client_a.py` and the CoAP clients
Three passes over tshark's output, which skip what does not parse by different
rules, and the overhead formulas, whose hazards are boundaries: 128, 16384,
multiples of chunk and block.

### Legacy receiver: `protocols/MQTT/clients/mqtt_client_b.py`, `data/binary_file_generator.py`
- State: that of the receiver, and the data directory, which the sender reads.
- Operations: `on_message` writes its output into the data directory; the
  sender counts, digests and reads the file in steps; the generator skips what
  exists.
- Hard: opening the output truncates the file that is being sent; the sender's
  three looks at it differ; a killed generator leaves a short file for good.
- Correct when: a file only loses its end; every announced transfer is
  answered; a damaged file is reported, unless it was measured while damaged.

### Experiment runner: `runner.py`, `scripts/network_chaos.sh`, `docker-compose*.yaml`
- State: the loop over protocols and profiles, the containers and what they were
  created for, the qdiscs of each interface.
- Operations: `docker compose up` of the automated file until the first container
  exits, `down` of the default file; each container shapes its interface and
  becomes its program.
- Hard: `down` does not know the containers; two tc commands are not atomic; a
  container that fails makes `up` raise; containers stop one by one.
- Correct when: a row was measured under the profile its file names; nothing of
  an earlier experiment runs when the next begins; the clean-up cleans up.

### Not modelled
- The HTTP clients (`protocols/HTTP/client/*`): none runs as it stands. Versions 1
  (line 50) and 2 (line 79) use `DATA_DIR` without importing it, version 3 imports
  names that `packet_capture` does not have (line 12). A model of them would be of a
  program that cannot run; what version 3 does, exit at once, is in `Experiments`.
  Their overhead is the length of formatted header lines, to which version 1 adds 10
  bytes for every 8192 (`http_client.py:94-96`); version 3 writes what the interface's
  counters say (`http_client_v3.py:198`), and its estimate of packets is commented
  out (lines 193-196).
- `mqtt_client_a.py` beyond its formulas: its `send_file` uses `DATA_DIR` (line 116)
  without importing it and stops there.
- `common/net_stats.py` reads counters of `/proc`; no running client uses it.
- The parameters of the network profiles. Their effect, loss, delay and
  reordering between connections, is nondeterminism in the other models.
- Of the compose files: images, networks, nginx. Services, their order and their
  environment are in `Experiments`; the broker's configuration (no persistence)
  decides `SessionEnds` of `MqttTransfer`.
- CSV values, console output (`print_result` among it), `time.sleep`.

## 2. Modules

| Module | Models | Uses |
| --- | --- | --- |
| `MqttMessages` | the metadata message, the chunk message, SHA-256 | |
| `FileDelivery` | abstract: what a receiver of files promises | |
| `MqttReceiver` | `client_b.py` | `MqttMessages`; implements `FileDelivery` |
| `MqttReceiverProofs` | theorems about it | `MqttReceiver`, TLAPS |
| `MqttSender` | `client_a.py`, the loops of the manager, paho, the connection | `MqttMessages` |
| `MqttTransfer` | sender, broker, receiver | `MqttSender`, `MqttReceiver` |
| `SharedData` | `mqtt_client_b.py` on the sender's directory, the generator | `MqttReceiver` |
| `MeasurementLog` | `write_to_csv` and its five callers, by several processes | |
| `CoapUpload` | both versions of client and server | |
| `HttpUpload` | `upload()` and `save_file` in concurrent threads | |
| `CaptureHarness` | `capture_mqtt`, tcpdump, the pcap files | |
| `ResourceMonitor` | `start`, `stop`, the sampling threads | |
| `Experiments` | `runner.py`, compose, `network_chaos.sh` | |
| `PcapAnalysis` | `analyze_pcap` on every short capture | |
| `WireOverhead` | PUBLISH framing, CoAP blocks, chunk counts | |
| `MqttSenderProofs`, `MqttTransferProofs`, `CoapUploadProofs`, `HttpUploadProofs` | theorems about the module of that name | that module, TLAPS |
| `SharedDataProofs` | theorems about `SharedData` | it and `MqttReceiverProofs` |
| `RecordsProofs` | theorems about `MeasurementLog`, `ResourceMonitor`, `PcapAnalysis` and `WireOverhead` | these, TLAPS |
| `HarnessProofs` | theorems about `CaptureHarness` and `Experiments` | both, TLAPS |
| `MC*` | the instances TLC checks; `MCRecords` and `MCHarness` put parts side by side that share no state | |

Variables and operators keep the source's names where there is one. An operator
marked `mutant` is not part of a specification: it is the form a named operator
would take with a plausible bug, and the property paired with it in
`PROJECT.json` is violated when it takes that operator's place.

### How state and actions correspond to the code

**`MqttReceiver`.** A variable for each global. One callback of paho's loop is
one action, because the receiver has one thread; what a callback does before and
after the verdict is in the same action (`OnLastChunk` takes the digest of the
disk as it is before `CloseFile`). The output file is two parts: `disk[f]`, which
is what `compute_sha256_file` reads, and `buffer`, what the `BufferedWriter` holds
(`Kept`, `Flushed`: a chunk larger than the buffer passes through, a smaller one
stays until another does not fit). `now` counts callbacks and stands for
`time.perf_counter`. `open()` that raises ends the process
(`OnMetadataOpenFails`), `Kill` loses the buffer, `Restart` gives fresh globals
and the old directory. Messages come in any order, any number of times: this
is weaker than what the broker does, so what holds here holds for any sender.

**`MqttSender`.** The main thread is `pc` and its steps are those of `send_file`
with the points where the network thread can interfere: between `publish` and
`metadata_mid = msg_info.mid` (`PublishMetadata`, `AssignMid`), and at every wait.
The network thread is `OnPublish`, `Disconnect`, `OpenSocket`, `ConnAck`. paho is
modelled from how the code uses it and marked external: ids from 1 in every process,
unacknowledged messages kept and sent again in order, `wait_for_publish` raising
when a message was published without a connection. A reconnection is two steps: with
the socket (`OpenSocket`) `publish` sends at once, but the messages that wait go out
only with the CONNACK (`ConnAck`). If the main thread gives up a wait in between, the
chunk it publishes then overtakes the metadata or the chunk before it; `overtaken` is
history and has the runs in which that happened. The handshake of level 2
is one step: the broker takes a message when it would release it. paho's limit of 20
messages in flight is left out: the main thread has at most one unacknowledged message
for each wait it gave up, so it takes 20 of them.

**`MqttTransfer`.** Adds the receiver's session at the broker: `subs`, which
`on_connect` fills topic by topic, and `inbox`. `lost` and `resent` are history:
the runs a message of which was dropped and those the sender lost a connection
in; properties use them, and the sender's `overtaken`, to say when a run was
undisturbed.

**`MeasurementLog`.** `Look`, `Open`, `Close` are `isfile`, `open(.., "a")` and the
end of the `with` block, at which the buffered rows reach the file in one append.
A writer's file is given by what it writes of and by its suffix, its header by
itself, so that two versions of a client at one file have different columns.

**`CoapUpload`.** The client is one asyncio task and `pc` is where it awaits. The
server never awaits, so `RenderPut` is one step. A request stays in `requests`
after its attempt was given up. `version` is chosen at the start. A name is a sequence
of characters, of which an escape such as `%3D` is one and `&file=` another:
`FileParameter` follows the name through aiocoap, which refuses a fragment, cuts the
query at `&` and decodes the parts, and through `render_put`, which takes the last
`file=` and, in version 1, what stands before a second `=`.

**`HttpUpload`.** Each request is a thread: it opens (truncates), writes its blocks
at its own offset, closes. A gap that a second truncation leaves reads as `Zeros`.

**`CaptureHarness`.** `dumps` are tcpdump processes, which live in the container and
outlive the harness. A transfer is two packets, one for each leg.

**`ResourceMonitor`.** The thread tests the event, appends to one list, then to the
other; `start`, `stop`, the join and the average are the caller's steps.

**`Experiments`.** `plan` is the pair of lists of `runner.py`; `step` is where its loop
is, `check` whether the command it looks at failed. `container[s]` is where the
entry script of a container is: `del`, `netem`, `tbf` are its tc commands, `app` the
program. Compose is external: `up` creates what changed, starts what its
dependencies allow, and stops the others when one exits; `down` removes only what
its file names.

**`SharedData`.** Extends `MqttReceiver`, whose `disk` becomes the data directory. The
sender's `calculate_total_chunks`, the reads of the digest and of `send_chunks` are
steps of their own, so that a truncation falls between any two. An empty chunk
is a message with `None`.

**`PcapAnalysis`, `WireOverhead`.** Pure functions: loops are folds, and properties
compare them with definitions without loops. tshark's filter `mqtt` is part of
the second fold, which passes over the frames that have no line there.
`CaptureSpec` grows a capture frame by frame and analyses it each time.

## 3. Runs

| Run | Instance | Question |
| --- | --- | --- |
| `MCReceiver` | 4 files (large tail, small tail, empty, unwritable), 3 chunks, 7 messages | is `IInv` inductive in practice, are rows right, does it implement `FileDelivery` |
| `MCReceiverTail` | the same | *violated*: is an intact file ever called corrupted |
| `MCSender` | 3 files, one absent, 2 levels, 2 lost connections | what the broker gets, what rows mean, does it end |
| `MCSenderTimeout` | 1 file, no lost connection | *violated*: is a timeout only reported without acknowledgement |
| `MCTransfer` | 1 file of 2 chunks, 2 levels, 1 fault of each side | which runs are reported, does an undisturbed benchmark end |
| `MCTransferEmpty` | an empty file before one of 1 chunk, 2 levels, 2 lost connections of the sender | do files mix, are rows in order, what OK means |
| `MCRecords` | 4 writers of 2 CSV files, 2 calls each, 1 kill; 2 measurements, 2 samples a thread; captures of 2 frames; lengths around each boundary | are rows kept under one header, are statistics of one run, are counts and formulas right |
| `MCCoap` | both versions, up to 3 of 4 files, 2 attempts | what a row with `integrity_ok` means, does a batch end |
| `MCHttp` | 3 requests, 2 names, payloads of 0 to 2 blocks, with symmetry | is repeating an upload safe |
| `MCHarness` | 1 file, 2 levels, 2 invocations; 2 plans of 4 experiments, 2 failures | what gets into a pcap file, under which profile are rows measured |
| `MCHarnessCleanUp` | the same | *violated*: does the clean-up remove what it started |
| `MCShared` | 2 files, one sent 3 times, 1 killed generator | what is left of a file that is received over itself |

`MCRecords` and `MCHarness` have a variable `part` that is chosen at the start: a
behaviour moves in one of the parts only, so their state spaces add up and do
not multiply.

### What they show

- **Receiver.** `VerdictSound`: OK implies that the file on the disk, after the
  close, is the announced one, under any order of messages; the close after the
  verdict adds nothing to an OK file. `RowTimes`, `RowSize`: a row never mixes two
  transfers. `DeliverySpec`: no verdict early, none twice, none missed.
- **The digest is taken too early** (`MCReceiverTail`). `_transfer_completed_handler`
  digests the file (`client_b.py:40`) before line 135 closes it. A last chunk
  that fits in the writer's buffer is not on the disk yet, so an intact file
  is called corrupted. `LargeTailComplete` is the part that does hold, and is
  proved: a file whose last chunk is larger than the buffer is never miscalled.
- **The acknowledgement may come too early** (`MCSenderTimeout`). `on_publish`
  compares with `metadata_mid` before `client_a.py:140` has set it; the sender
  then waits 10 s for an acknowledgement it already had and writes latency 0.
- **Sender.** `NoGaps`: the broker never skips a message of a run, but for runs in
  which one was published between the socket and the CONNACK while others waited;
  and for that a wait must have been given up and a connection lost.
  `RowNeedsAcks`: a row means delivery unless a wait was overdue.
- **Whole benchmark.** `UndisturbedRunIsOk`: a run is reported intact exactly once if
  nothing touched it, also after disturbed runs. `RunsReported`: duplicates do not
  leave the receiver waiting, unless a message of the run overtook others: a chunk
  ahead of its metadata is dropped, and then no row comes although the broker has
  everything. `OkMeansWholeRun`: while the receiver is up, OK means that the broker
  accepted all of the run's messages; it does not speak of what the receiver took.
  `NoMixing`: a file being written has only its own chunks and those of runs that
  overtook: a chunk ahead of its metadata is written into the file that an empty
  file's run has left open.
- **CSV.** Rows are never lost. One header first, unless two first writes overlap
  or the process that created the file died before its close; both conditions
  are needed.
- **CoAP.** `OkMeansSaved`: late requests and retries do not falsify a row, for names
  that reach the server as they are and under which nothing else is saved. A file without a row had all its attempts. In
  version 2 the division by an empty file's size costs the rows of the whole
  batch, since it is first.
- **HTTP.** Overlapping uploads of one payload are harmless; a mismatch never
  touches the disk.
- **Capture.** A file contains packets of another run only after an invocation that
  raised, or as a late leg to the receiver. The sender's leg is complete when
  the file did not exist before.
- **Monitor.** Statistics are of one run unless a join timed out.
- **Captures and formulas.** `CountsRight`: every frame is counted once, MQTT frames by
  the second loop's rule, and nothing is divided by zero. `PublishLength`,
  `OverheadIsFraming`, `BlocksPaid`: the formulas are right on both sides of every
  boundary.
- **Runner.** `RowsUnderProfile`, `NothingElseRuns`: although the clean-up leaves
  containers, `up` had stopped them, and it creates them again for a new profile.
- **The clean-up does not clean up** (`MCHarnessCleanUp`). `runner.py:40` names no
  compose file; the containers of HTTP and CoAP experiments are not removed.
- **Legacy receiver.** `SourceIsPrefix`, `EveryRunAnswered`: the file only loses its
  end and the counts still meet, since the sender publishes empty chunks up to
  the count it announced. `DamageReported`: what was damaged was called corrupted,
  unless the damaged file was measured as if it were whole.

### Bounds

Constants are small sets of model values, and every bound is a constant named in its
module. Seven messages are two whole transfers of two chunks and one message to
spare: an abandoned transfer, a stale handle and a second file fit. Two lost
connections let one fall on a resending; in `MCTransferEmpty` they let a chunk overtake
its metadata in one run and something be lost in another. `MCTransfer` has one: with it a
chunk overtakes its metadata there too. Three files at two levels are six runs, so
that a run has several before and after it, and one without chunks between two
others. `MAX_RETRIES` is 2 in `MCCoap` and 3 in the code: what a third attempt adds
is another late request, and two already let a late one arrive after the answer and
after the batch. `SmallBatch` lets its directory hold any three of four files: a plain
name, one with `=`, an empty one that version 2 saves under that very name, and one
that aiocoap refuses. So each version has a file with content whose name arrives as it
is, and one whose name does not. Three PUTs allow one to overlap two others. `MaxEvents = 99` in
`MCTransfer`, `MCTransferEmpty` and `MCShared` is never reached there: the sender ends first.
`BufferSize` is 2 against chunks of 5, 4, 3 and 1 so that chunks fall on both sides
of it. `Qos = {1}` in `MCReceiver`: the level is only copied. The lengths of
`MCRecords` are the real ones. Symmetry is used only in `MCHttp`, which has no
liveness property. Four experiments let two with the same service follow each other,
and two failures let a container and a tc command fail in one of them. In `MCShared`
one file is sent three times, so that a damaged one can be sent again.

Deadlock is checked, except in `MCRecords`, `MCHarness` and `MCShared`, whose
programs end; in the others the end of the program is an explicit stuttering step.

### Fairness

- `MqttSender`: weak fairness of the main thread. Every wait has a timeout
  (`client_a.py:152`, `:182`), so a step of it is always enabled until it ends.
  Nothing is assumed of broker or network.
- `MqttTransfer`: also of the broker's forwarding, of the two subscriptions and of
  the delivery: the network loops run while their processes do. No fairness for
  reconnections and restarts.
- `CoapUpload`: weak fairness of the client; a request either answers or raises,
  since aiocoap stops retransmitting. None for server and network.
- `ResourceMonitor`: threads are scheduled, and the join has its timeout.

`SenderTerminates`, `UndisturbedCompletes`, `BatchEnds`, `SamplerEnds` rest on these.

## 4. Proofs

All for every value of the constants: any files, chunks, sizes, numbers of writers,
requests, attempts, invocations and experiments, captures of any length.

| Module | Theorem | Establishes |
| --- | --- | --- |
| `MqttReceiverProofs` | `Inductive` | `Spec => []IInv` |
| | `TypeCorrect`, `NeverOverrun` | its parts `TypeOK`, `OpenMeansIncomplete` |
| | `NoFalseOk` | `VerdictSound` |
| | `LargeTailNeverCorrupt` | `LargeTailComplete` |
| | `RowTimesTelescope`, `SizesAreTheFiles` | `RowTimes`, `RowSize` |
| | `ImplementsDelivery` | `DeliverySpec`, the refinement |
| `MqttSenderProofs` | `SenderInductive` | `Spec => []SenderInv` |
| | `SenderTypeCorrect`, `NothingIsSkipped` | `SenderTypeOK`, `NoGaps` |
| | `LatencyIsMetadatas`, `RowMeansSent` | `LatencyFromMetadata`, `RowNeedsAcks` |
| `MqttTransferProofs` | `TransferInductive` | `TransferSpec => []TransferInv` |
| | `NeverMixed`, `RowsFollowRuns` | `NoMixing`, `RowsInOrder` |
| | `OkIsWholeRun`, if `LastChunkDistinct` | `OkMeansWholeRun` |
| | `UndisturbedIsOk`, if `LargeTails` | `UndisturbedRunIsOk` |
| | `ResentRunsReported` | `RunsReported` |
| `SharedDataProofs` | `SharedInductive` | `SharedSpec => []SharedInv` |
| | `OnlyTheEndIsLost`, `AnnouncedRunsGetRows` | `SourceIsPrefix`, `EveryRunAnswered` |
| | `DamageIsReported` | `DamageReported` |
| `CoapUploadProofs` | `CoapInductive` | `Spec => []CoapInv` |
| | `OkIsSaved`, `NothingIsDropped`, `AbortComesFirst` | `OkMeansSaved`, `MissingRowExplained`, `AbortLosesBatch` |
| `HttpUploadProofs` | `HttpInductive`, `RepeatingIsSafe` | `HttpInv`, `QuietFileIsWhole` |
| `RecordsProofs` | `NoRowIsLost`, `OneHeaderEach`, `HeaderComesFirst` | `RowsKept`, `HeadersBounded`, `OneHeaderFirst` |
| | `StatisticsOfOneRun` | `StatsOfOneRun` |
| | `CountsAreRight` | `CaptureSpec => []CountsRight` |
| | `OverheadsAreFraming`, `BlocksArePaid` | `OverheadIsFraming`, `BlocksPaid`, for all inputs |
| | `PublishLengths`, if MQTT allows the packet | `PublishLength` |
| `HarnessProofs` | `FilesAreTheirRuns`, `FreshRunsAreRecorded` | `ForeignExplained`, `SenderLegRecorded` |
| | `ProfilesDoNotMix`, `ExperimentsAreAlone` | `RowsUnderProfile`, `NothingElseRuns` |

Assumptions: those named in the modules (contents and payloads are sequences, sizes
and buffer are positive, `None` is no file, no level and no response code, a frame's
length and a file's size are numbers, the code's "UNKNOWN" and tshark's types are
not the mark of a frame without a line, files and writers are finite sets, the lists
of `runner.py` are not empty, the number of lost connections is a number, in
`SharedData` `None` is no chunk either and the only level is the "X" of that
receiver's rows, and the sender's list, which is what `os.listdir` returns, names no
file twice), and SHA-256 as an injection, which is how `Sha256` is defined. No
fairness is used.

Three theorems have a hypothesis, and it is needed. `PublishLengths` is about
packets whose remaining length is at most 268 435 455 (`4 + name + length`, the
largest it can be, is used): MQTT has four bytes for it, and the code's loop would
go on with a fifth. The other two are about the whole benchmark and have one on the
files. `LastChunkDistinct`, for `OkIsWholeRun`: a file's last chunk is not also the
one before it. Data messages carry no position, so when a chunk is sent again after
a lost connection and equals its successor, the copy completes the file before the
last message was taken. `LargeTails`, for `UndisturbedIsOk`: no file ends with a
chunk that fits in the writer's buffer. With one the verdict is wrong, as
`MCReceiverTail` shows.

### The arguments

**Receiver.** None of the properties is inductive alone: that a verdict comes at
the right chunk needs `expected_chunks` and `expected_checksum` to be those of the
open file, that `received_chunks` is the length of what was handed to `write`, and
that the handle is never left open when the count is reached. `IInv` is the
conjunction: `TypeOK`, `GlobalsDescribeHandle` (the globals speak of the open file),
`ClosedMeansFlushed` (no bytes without a handle), `ClocksOrdered` (the two parts of a
transfer's time meet at the first chunk), `OpenMeansIncomplete` (the equality test
was not jumped over). There is one lemma per action, each with one step per
conjunct. `WriterAppends` says that whatever the buffered writer decides, disk and
buffer together grow by the chunk; it is what makes the buffer invisible to the
refinement. `NoFalseOk` then is: the digest matched, so the disk before the close is
the whole content; disk and buffer together have as many chunks as the content;
so the buffer is empty and the close adds nothing. `SizesAreTheFiles` needs one more
fact, `BytesCounted`: while a file is open, `received_bytes` is the total of disk and
buffer.

**Totals and loops.** `FoldFunction` and its kin are recursive functions over the subsets
of a finite set, which pick an element of each by `CHOOSE`. An induction theorem is out
of reach, a least counterexample is not: `LeastSubset` and `LeastNumber` take the smallest
set, or number, that a fact fails for, from the library's facts about well-founded
relations, and the fact for what is smaller than it gives the contradiction. In this way
are proved that such a function exists (`SumsExist`, `FoldExists`, `RlBytesDefined`), what
its values are (`SumTyped`, `FoldTyped`, `RlBytesValue`), that there is only one
(`SumsAgree`, `FoldsAgree`), and that any element may be taken last (`SumMinus`, `SumLast`),
which makes a sum independent of the order in which it was picked. `MqttReceiverProofs`
and `RecordsProofs` each have what they need of this, the one for totals of chunks, the
other for any fold, since the modules they are about share no constant or variable.

**Sender.** `NoGaps` is about what the broker has; what keeps it true is on its way.
`SenderInv` says of every packet on the wire and in paho's queue that all earlier ones
of its run are before it or at the broker (`Backed`), of a run whose CONNACK has come
that all it has published is on the wire or at the broker (`Holds`), and of the broker
that what it has of a run is closed downwards (`Closed`). None of it can be said of a run
in which a message overtook others; such a run counts as accepted in these three
(`Granted`), and `Overtaking` says what it takes to become one, and that otherwise all
that is unacknowledged waits for the CONNACK. Resending and acknowledging filter
these sequences; that a filter keeps the members and their order is proved once, from
the least position at which it could fail (`NatMinimum` in place of an induction on
sequences).

**Sender, broker and receiver.** `Flow` joins the two invariants and adds that every
packet carries its run's message (`Carried`) and that the inbox is in the order of the
runs (`InOrder`). `Quiet`, for a receiver that is up, says which run it is in
(`ReceivingRun`): the open file is that run's, and a chunk that waits is of that run, behind its own
run's metadata, or of a run that overtook. `NeverMixed` is read off. For `OkIsWholeRun`,
an intact file has its last chunk, which only the last message of that run, or a later
run that overtook, carries; `Straight` rules the latter out, so the broker has that
message, and all before it (`BrokerHasPrefix`).

**Undisturbed runs.** The runs before it may have left anything: an open file, late
chunks, an expected count. So the invariant (`RunsInv`) speaks only of the run `j`
itself, and says how far it has come (`Progress`): the messages up to `d` went through
the receiver, those up to `a` wait in its inbox, and the rest is on the wire, each once
and in order (`OnWay`, `Span`); and `d` tells what the receiver has of it (`Reached`):
nothing, an open file with `d - 1` chunks, or one row. `Linked` marks the run whose
connection was lost as resent.

**Order of rows.** While nothing is disturbed there are as many rows as runs that have
one (`Counted`), so the next row has the next number; that a sent run has a file at all
is `Present`.

**Runs sent again.** The hard case: messages are repeated, out of place, and a chunk
counted twice completes the file early. `Linear` says that, unless the run overtook
itself, its acknowledged messages, those the broker took and those on the wire follow each other without gaps, so
what is sent again begins no later than at the first the broker has not taken.
Hence, while a run has no row, every message of it that waits is one the receiver can
take (`Ready`): the one before it is already counted, or waits in front, also behind any
repeated metadata, which starts the count again. `Chases` says so of the inbox, of what
the wire holds (`Awaits`), of what a new connection would send (`Resendable`), and that the
last message, once the broker has it, still waits (`LastWaits`). When nothing waits any
more there must be a row. `OpenKnown` keeps the receiver from being in a run that the
broker has not begun.

**Shared directory.** The sender reads what the receiver is truncating, so nothing can
be said of how far the file reaches; what can be said is where everything belongs.
`Gapless`: as many chunk messages follow metadata as it announces, or as the sender has
still to send, and the open transfer lacks as many as come before the next metadata;
`send_chunks` counts to the announced number whatever it reads, and this is why the
receiver is never overtaken by metadata while it still lacks a chunk. `Traced` gives each
message the file and the position it was read from, starting with the receiver's copy
and ending at the sender's position; a chunk is written at the place it was read at, so
every copy is a beginning of the content (`Beginnings`), and `OnlyTheEndIsLost` is read
off. `Answered` gives each message the number of its transfer among those announced: the
rows come first, then the open one, then the inbox. An output that cannot be opened
ends the receiver for good; `Stuck` says that messages are left over then, so that the
three need not hold and `AnnouncedRunsGetRows` has nothing to show. `Spotless` are the
files without a bad row, an overlap or a cut: they are whole on the disk, or being
received under the digest and count of the whole content, and so are all their
announcements (`Intact`). When such a transfer completes, either the digest matched and
the copy is whole, or its row makes the file no longer spotless.

**CoAP.** A row is only as true as the response it rests on, and a response may be
answered long after it was sent, so `CoapInv` says it of every response on its way:
`Truthful`. What the server does later can only save the file again or tear it,
because a name it finds as it is, and saves no other file under, is that file's alone
(`Carried`). `Counted` ties
the attempts to the file at the head of the list, which needs that no file is
listed twice: `ListFacts` has that from the list being a surjection from as many
indices as there are files. `Ascending` makes the first empty file come before
every row.

**HTTP.** `StillToCome`: a block that is not in the file yet is still before a thread
that writes it. Truncating again takes blocks away, but the thread that does it
stands before all of them.

**Measurement files.** `HeaderThenRow` (a header is followed by the row of the same
writer's first call) makes headers as few as writers: from headers to writers it
is an injection. `OneHeaderFirst` needs two more facts, that a writer creating a file
is alone at it (`LoneCreator`) and that an empty file is being created
(`EmptyIsBeingCreated`).

**Resource monitor.** As long as every join has seen its thread end, one thread
samples, and the two lists differ by one exactly while it is between its two
appends (`ListsOfOneRun`).

**Capture harness.** Without a failure there is one tcpdump at most, that of the
current transfer (`OneDump`), so a packet of a sender finds its own file or none.

**Capture analysis.** With the folds defined, each loop is followed line by line:
`Up(T, m)` are the positions in `T` that the first `m` lines reach, a line either adds its
position or leaves the set alone (`UpSteps`, `OneMore`), and after line `m` the counters are
the number, the sum and the latest time of those positions (`FirstLoopCounts`,
`SecondLoopCounts`). At the last line they are `Timed`, `OfType` and the frames with a type.

**Formulas.** `CeilFacts` and `OffsetsCounted`: the quotient rounded up is the number of
multiples of the block that lie inside the file, so the last block is the only one not
full. From it come blocks and chunks. `RlBytesValue` bounds the loop over the remaining length from each of
the standard's four ranges. `ReadsAreTheFile` sums the chunks that are read to the size of
the file, which is why the payload cancels, in whatever order it is summed
(`PacketsAreSum`, `FramingIsSum`).

**Runner.** A container's place in its script tells its qdiscs, and they are of the
experiment it was created for (`QdiscsOfProfile`); that this is the current
experiment's profile where it matters comes from rows being named by `env` too.
`OnlyThisExperiment` is what `up` leaves behind, and does not need `down`.

### Only model-checked

Liveness, that is `SenderTerminates`, `UndisturbedCompletes`, `SamplerEnds` and `BatchEnds`:
fairness and ENABLED are out of the prover's reach. The runs that show a violation
have no theorem either, as what they state is false.

## 5. Seen while modelling, without a run

- `client_b.py:109`: the warning about an incomplete transfer is printed after
  lines 88-92 have overwritten the globals it names: it says the new file's name
  and 0 chunks.
- `client_a.py:152` and `:212`: "Finished sending file." also after a wait of 60 s
  that timed out.
- `docker-compose.yaml:65` promises each run its own pcap file;
  `benchmark_manager.py:14` leaves tcpdump running when a command fails.
  `ForeignExplained` states what remains true.
- `resource_monitor.py:66` and `:73` divide by the cores twice; line 9 says load
  times TDP.
- `file_manager.py:43` tests `DATA_DIR` and makes `OUTPUT_DIR`.
- `docker-compose.automated.yaml:34`: `depends_on` waits for the start of a server,
  not for its program.
- `scripts/network_chaos.sh:4`: services that are not given `NETWORK_PROFILE` run under
  `iot` whatever the experiment says.
- `runner.py:35`: a container that exits with an error ends all experiments.
- An empty file has no chunks and is never reported by the receiver.

## 6. Plan

Done, in this order: receiver, its proofs and refinement, sender, composition, the
other protocols, harness and formulas; then the runner and the network scripts,
the legacy receiver on the shared directory, the callers of the CSV writer, the
larger transfer instance, the proofs about the other protocols and the harness,
those about the sender and the whole benchmark, those about the shared directory, and
those about totals, captures and formulas. Of the properties of the passing runs all but
the four about liveness have a theorem.

What is left, should the code change: a model of the HTTP clients once they
run; a server restart in `CoapUpload` and `HttpUpload`; level 2's handshake in two
steps and paho's limit of messages in flight in `MqttSender`; an abstract idempotent store that both servers implement.
