---------------------------- MODULE MqttReceiver ----------------------------
(***************************************************************************)
(* The MQTT receiver, protocols/MQTT/clients/client_b.py: one process      *)
(* whose paho network loop calls on_message for every message, one at a    *)
(* time, and whose whole state is a dozen module globals.  Messages come   *)
(* here in any order, repeated or lost: MqttTransfer says which ones the   *)
(* sender and the broker really produce.                                   *)
(*                                                                         *)
(* The file being written has two parts: what has reached the disk, which  *)
(* is what compute_sha256_file reads, and what Python's buffered writer    *)
(* still holds, which reaches the disk when the file is closed.            *)
(***************************************************************************)
EXTENDS MqttMessages, SequencesExt

CONSTANTS
    Size,        \* Size[c]: the number of bytes of chunk c
    BufferSize,  \* capacity of Python's buffered writer
    Unwritable,  \* files whose output path open() refuses
    None,        \* Python's None, the empty string and the string "unknown"
    MaxEvents    \* bound: how many messages a behaviour delivers

ASSUME SizeAssumption == Size \in [Chunk -> Nat \ {0}]
ASSUME BufferSizeAssumption == BufferSize \in Nat \ {0}
ASSUME UnwritableAssumption == Unwritable \subseteq File
ASSUME NoneAssumption == None \notin File /\ None \notin Qos

VARIABLES
    alive,                  \* the process runs
    current_file_handle,    \* the file open for writing, or None
    expected_chunks,
    received_chunks,
    current_filename,
    received_bytes,
    first_chunk_received,
    start_latency,
    metadata_arrival_time,
    transfer_start_time,
    expected_checksum,
    current_qos,            \* _current_qos
    disk,                   \* disk[f]: what the output directory has of f
    buffer,                 \* chunks the open handle has not yet written
    rows,                   \* one row per verdict, in the order written
    now                     \* the clock: the number of callbacks so far

transfer == <<expected_chunks, received_chunks, current_filename,
              received_bytes, first_chunk_received, start_latency,
              metadata_arrival_time, transfer_start_time, expected_checksum,
              current_qos>>
vars == <<alive, current_file_handle, transfer, disk, buffer, rows, now>>

Digest == [sha256 : Seq(Chunk)]
Row == [file : File, qos : Qos, file_size : Nat, receiver_duration : Nat,
        latency : Nat, integrity_ok : BOOLEAN]

(* The bytes of a sequence of chunks.                                      *)
TotalSize(s) == FoldSeq(LAMBDA c, n : Size[c] + n, 0, s)

-----------------------------------------------------------------------------
(* The globals as the module sets them when it is loaded.                  *)
Init ==
    /\ alive = TRUE
    /\ current_file_handle = None
    /\ expected_chunks = 0
    /\ received_chunks = 0
    /\ current_filename = None
    /\ received_bytes = 0
    /\ first_chunk_received = FALSE
    /\ start_latency = 0
    /\ metadata_arrival_time = 0
    /\ transfer_start_time = 0
    /\ expected_checksum = None
    /\ current_qos = None
    /\ disk = [f \in File |-> <<>>]
    /\ buffer = <<>>
    /\ rows = <<>>
    /\ now = 0

(* Python's BufferedWriter.write: a chunk larger than the buffer goes to   *)
(* the disk, behind what the buffer held; a chunk that fits in what is left *)
(* of the buffer stays there; any other takes its place.                   *)
Small(c) == Size[c] <= BufferSize
Fits(held, c) == TotalSize(held) + Size[c] <= BufferSize
Kept(held, c) ==
    IF ~Small(c) THEN <<>> ELSE IF Fits(held, c) THEN Append(held, c) ELSE <<c>>
Flushed(held, c) ==
    IF ~Small(c) THEN Append(held, c) ELSE IF Fits(held, c) THEN <<>> ELSE held

(* What a file has on the disk once chunk c has been handed to write().    *)
Written(name, c) == disk[name] \o Flushed(buffer, c)

(* The disk once the open handle, if any, is closed.                       *)
DiskAfterClose ==
    IF current_file_handle = None THEN disk
    ELSE [disk EXCEPT ![current_file_handle] = @ \o buffer]

-----------------------------------------------------------------------------
(* on_message, control topic: every global takes its value from the        *)
(* metadata; the stale handle is closed, which flushes its buffer.         *)
DescribeKeepsQos(m) ==   \* mutant: the level of the first transfer stays
    /\ current_filename' = m.filename
    /\ expected_chunks' = m.total_chunks
    /\ expected_checksum' = m.checksum
    /\ current_qos' = IF current_qos = None THEN m.qos ELSE current_qos

Describe(m) ==
    /\ current_filename' = m.filename
    /\ expected_chunks' = m.total_chunks
    /\ expected_checksum' = m.checksum
    /\ current_qos' = m.qos

ResetBytesOnly ==    \* mutant: received_chunks is not reset
    received_bytes' = 0 /\ UNCHANGED received_chunks

ResetChunksOnly ==   \* mutant: received_bytes is not reset
    received_chunks' = 0 /\ UNCHANGED received_bytes

ResetCounters ==
    /\ received_chunks' = 0
    /\ received_bytes' = 0

KeepFirstChunk ==    \* mutant: first_chunk_received is not reset
    /\ metadata_arrival_time' = now'
    /\ start_latency' = 0
    /\ transfer_start_time' = 0
    /\ UNCHANGED first_chunk_received

ResetClocks ==
    /\ metadata_arrival_time' = now'
    /\ first_chunk_received' = FALSE
    /\ start_latency' = 0
    /\ transfer_start_time' = 0

TakeMetadata(m) ==
    /\ now' = now + 1
    /\ Describe(m)
    /\ ResetCounters
    /\ ResetClocks

AppendMetadata(m) ==   \* mutant: the output is opened for appending
    /\ alive
    /\ m.topic = TOPIC_CTRL
    /\ m.filename \notin Unwritable
    /\ TakeMetadata(m)
    /\ disk' = DiskAfterClose
    /\ buffer' = <<>>
    /\ current_file_handle' = m.filename
    /\ UNCHANGED <<alive, rows>>

RefuseMetadata(m) ==   \* mutant: metadata is ignored while a file is open
    /\ alive
    /\ m.topic = TOPIC_CTRL
    /\ m.filename \notin Unwritable
    /\ IF current_file_handle # None
       THEN now' = now + 1 /\ UNCHANGED <<transfer, disk, current_file_handle>>
       ELSE /\ TakeMetadata(m)
            /\ disk' = [disk EXCEPT ![m.filename] = <<>>]
            /\ current_file_handle' = m.filename
    /\ UNCHANGED <<alive, rows, buffer>>

OnMetadata(m) ==
    /\ alive
    /\ m.topic = TOPIC_CTRL
    /\ m.filename \notin Unwritable
    /\ TakeMetadata(m)
    /\ disk' = [DiskAfterClose EXCEPT ![m.filename] = <<>>]
    /\ buffer' = <<>>
    /\ current_file_handle' = m.filename
    /\ UNCHANGED <<alive, rows>>

(* open() raises: paho lets the exception out of its loop and the process  *)
(* ends.  The stale handle was closed before.                              *)
OnMetadataOpenFails(m) ==
    /\ alive
    /\ m.topic = TOPIC_CTRL
    /\ m.filename \in Unwritable
    /\ TakeMetadata(m)
    /\ disk' = DiskAfterClose
    /\ buffer' = <<>>
    /\ current_file_handle' = None
    /\ alive' = FALSE
    /\ UNCHANGED rows

-----------------------------------------------------------------------------
(* The beginning of the data branch: the first chunk fixes the latency and *)
(* starts the transfer's clock.                                            *)
NoteFirstChunk ==
    /\ first_chunk_received' = TRUE
    /\ start_latency' = IF first_chunk_received THEN start_latency
                        ELSE now' - metadata_arrival_time
    /\ transfer_start_time' = IF first_chunk_received THEN transfer_start_time
                              ELSE now'

TakeChunk(c) ==
    /\ now' = now + 1
    /\ NoteFirstChunk
    /\ received_chunks' = received_chunks + 1
    /\ UNCHANGED <<alive, expected_chunks, current_filename,
                   metadata_arrival_time, expected_checksum, current_qos>>

(* on_message, data topic, a chunk that does not complete the transfer.    *)
OnChunk(m) ==
    /\ alive
    /\ m.topic = TOPIC_DATA
    /\ current_file_handle # None
    /\ received_chunks + 1 # expected_chunks
    /\ TakeChunk(m.payload)
    /\ received_bytes' = received_bytes + Size[m.payload]
    /\ disk' = [disk EXCEPT ![current_file_handle] =
                    Written(current_file_handle, m.payload)]
    /\ buffer' = Kept(buffer, m.payload)
    /\ UNCHANGED <<current_file_handle, rows>>

(* _transfer_completed_handler: the digest is that of the disk as it is    *)
(* before the handle is closed.                                            *)
RowOf(bytes, duration, ok) ==
    [file |-> current_filename, qos |-> current_qos, file_size |-> bytes,
     receiver_duration |-> duration, latency |-> start_latency',
     integrity_ok |-> ok]

AlwaysOk(bytes, onDisk) ==      \* mutant: the digest is not compared
    rows' = Append(rows, RowOf(bytes, now' - transfer_start_time', TRUE))

DigestTooEarly(bytes, onDisk) ==   \* mutant: it is taken before the write
    rows' = Append(rows, RowOf(bytes, now' - transfer_start_time',
                               expected_checksum = Sha256(disk[current_filename])))

TransferCompleted(bytes, onDisk) ==
    rows' = Append(rows, RowOf(bytes, now' - transfer_start_time',
                               expected_checksum = Sha256(onDisk)))

(* The end of the data branch, after the verdict: the handle is closed,    *)
(* which writes what is buffered.                                          *)
LeaveOpen(c) ==    \* mutant: the handle is not set to None
    /\ received_bytes' = 0
    /\ disk' = [disk EXCEPT ![current_file_handle] =
                    Written(current_file_handle, c) \o Kept(buffer, c)]
    /\ buffer' = <<>>
    /\ UNCHANGED current_file_handle

CloseFile(c) ==
    /\ received_bytes' = 0
    /\ disk' = [disk EXCEPT ![current_file_handle] =
                    Written(current_file_handle, c) \o Kept(buffer, c)]
    /\ buffer' = <<>>
    /\ current_file_handle' = None

(* on_message, data topic, the chunk that completes the transfer: the      *)
(* verdict first, then the handle is closed.                               *)
OnLastChunk(m) ==
    /\ alive
    /\ m.topic = TOPIC_DATA
    /\ current_file_handle # None
    /\ received_chunks + 1 = expected_chunks
    /\ TakeChunk(m.payload)
    /\ TransferCompleted(received_bytes + Size[m.payload],
                         Written(current_filename, m.payload))
    /\ CloseFile(m.payload)

(* A chunk that comes when no file is open is dropped.                     *)
OnStrayChunk(m) ==
    /\ alive
    /\ m.topic = TOPIC_DATA
    /\ current_file_handle = None
    /\ now' = now + 1
    /\ UNCHANGED <<alive, current_file_handle, transfer, disk, buffer, rows>>

OnMessage(m) ==
    \/ OnMetadata(m)
    \/ OnMetadataOpenFails(m)
    \/ OnChunk(m)
    \/ OnLastChunk(m)
    \/ OnStrayChunk(m)

-----------------------------------------------------------------------------
(* The process is killed: what its buffer held is lost.                    *)
Kill ==
    /\ alive
    /\ alive' = FALSE
    /\ current_file_handle' = None
    /\ buffer' = <<>>
    /\ UNCHANGED <<transfer, disk, rows, now>>

(* It is started again: fresh globals, the output directory as it was.     *)
Restart ==
    /\ ~alive
    /\ alive' = TRUE
    /\ current_file_handle' = None
    /\ expected_chunks' = 0
    /\ received_chunks' = 0
    /\ current_filename' = None
    /\ received_bytes' = 0
    /\ first_chunk_received' = FALSE
    /\ start_latency' = 0
    /\ metadata_arrival_time' = 0
    /\ transfer_start_time' = 0
    /\ expected_checksum' = None
    /\ current_qos' = None
    /\ UNCHANGED <<disk, buffer, rows, now>>

Next ==
    \/ now < MaxEvents /\ \E m \in Message : OnMessage(m)
    \/ Kill
    \/ Restart

Spec == Init /\ [][Next]_vars

-----------------------------------------------------------------------------
(* The receiver as an implementation of FileDelivery: the file in progress *)
(* is what is on the disk followed by what is still buffered.              *)
Output ==
    IF current_file_handle = None THEN <<>>
    ELSE disk[current_file_handle] \o buffer
Verdict(row) == [file |-> row.file, ok |-> row.integrity_ok]
Verdicts == [i \in DOMAIN rows |-> Verdict(rows[i])]

Delivery == INSTANCE FileDelivery WITH
    current <- current_file_handle, output <- Output, verdicts <- Verdicts

(* client_b.py implements FileDelivery, even when it is fed messages in an *)
(* order no sender would choose and when it is killed at any moment.       *)
DeliverySpec == Delivery!Spec

-----------------------------------------------------------------------------
(* Every global has the type the code gives it.                            *)
TypeOK ==
    /\ alive \in BOOLEAN
    /\ current_file_handle \in File \cup {None}
    /\ expected_chunks \in Nat
    /\ received_chunks \in Nat
    /\ current_filename \in File \cup {None}
    /\ received_bytes \in Nat
    /\ first_chunk_received \in BOOLEAN
    /\ start_latency \in Nat
    /\ metadata_arrival_time \in Nat
    /\ transfer_start_time \in Nat
    /\ expected_checksum \in Digest \cup {None}
    /\ current_qos \in Qos \cup {None}
    /\ disk \in [File -> Seq(Chunk)]
    /\ buffer \in Seq(Chunk)
    /\ rows \in Seq(Row)
    /\ now \in Nat

(* While a file is open the globals speak of that file: its name, the      *)
(* number of its chunks, its digest; and the chunks counted are those that *)
(* have been handed to write() since it was truncated.                     *)
GlobalsDescribeHandle ==
    current_file_handle # None =>
        /\ alive
        /\ current_filename = current_file_handle
        /\ current_qos \in Qos
        /\ expected_chunks = Len(Content[current_file_handle])
        /\ expected_checksum = Sha256(Content[current_file_handle])
        /\ received_chunks = Len(disk[current_file_handle]) + Len(buffer)

(* A closed handle has nothing buffered.                                   *)
ClosedMeansFlushed == current_file_handle = None => buffer = <<>>

(* The clocks of the transfer in progress: no time lies in the future, and *)
(* the two parts of the transfer's time meet at the first chunk.           *)
ClocksOrdered ==
    /\ metadata_arrival_time <= now
    /\ first_chunk_received =>
          /\ transfer_start_time <= now
          /\ metadata_arrival_time + start_latency = transfer_start_time
          /\ start_latency > 0
    /\ current_file_handle # None /\ received_chunks > 0 => first_chunk_received

(* A file that is open still lacks chunks: the equality test of the data   *)
(* branch is never jumped over, so a transfer cannot run past its end and  *)
(* wait for a completion that no longer comes.                             *)
OpenMeansIncomplete ==
    current_file_handle # None /\ expected_chunks > 0 =>
        received_chunks < expected_chunks

(* The inductive invariant behind the theorems of MqttReceiverProofs.      *)
IInv ==
    /\ TypeOK
    /\ GlobalsDescribeHandle
    /\ ClosedMeansFlushed
    /\ ClocksOrdered
    /\ OpenMeansIncomplete

(* "OK (checksum match)" is only ever said of a file that, once its handle *)
(* is closed, is on the disk exactly as the sender has it: stale chunks,   *)
(* duplicates, gaps and leftovers of an earlier transfer never pass, and   *)
(* closing the handle after the verdict adds nothing to the file.          *)
VerdictSound ==
    [][rows' # rows /\ Last(rows').integrity_ok =>
          disk'[Last(rows').file] = Content[Last(rows').file]]_vars

(* client_b.py:46-49: a file that is on the disk as the sender has it once *)
(* its handle is closed was not reported corrupted.                        *)
VerdictComplete ==
    [][rows' # rows /\ disk'[Last(rows').file] = Content[Last(rows').file] =>
          Last(rows').integrity_ok]_vars

(* It is not if its last chunk is larger than the writer's buffer, so that *)
(* the digest, taken before the close, misses nothing (client_b.py:40 and  *)
(* 135): the verdict is wrong only for files with a small last chunk.      *)
LargeTailComplete ==
    [][/\ rows' # rows
       /\ disk'[Last(rows').file] = Content[Last(rows').file]
       /\ ~Small(Last(Content[Last(rows').file]))
       => Last(rows').integrity_ok]_vars

(* The times of a row are those of one transfer: latency and duration      *)
(* cover the time from its metadata to its last chunk with no gap and no   *)
(* overlap, whatever chunk or transfer was received before it.             *)
RowTimes ==
    [][rows' # rows =>
          /\ Last(rows').latency > 0
          /\ Last(rows').latency + Last(rows').receiver_duration
                = now' - metadata_arrival_time]_vars

(* The size in the row of an intact file is that of the sender's file:     *)
(* bytes of an earlier or abandoned transfer are never counted.            *)
RowSize ==
    [][rows' # rows /\ Last(rows').integrity_ok =>
          Last(rows').file_size = TotalSize(Content[Last(rows').file])]_vars
=============================================================================
