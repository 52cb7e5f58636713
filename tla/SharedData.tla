----------------------------- MODULE SharedData -----------------------------
(***************************************************************************)
(* The earlier receiver, mqtt_client_b.py, with the sender client_a.py and *)
(* the generator of the test files.  It differs from client_b.py in where  *)
(* it writes: to the data directory, the one the sender reads from when    *)
(* both containers mount it.  Opening the output then truncates the file   *)
(* that is being sent, and what the sender measures, digests and reads is  *)
(* whatever the receiver has left of it at that moment.                    *)
(*                                                                         *)
(* on_message is otherwise that of MqttReceiver, whose disk is the data    *)
(* directory here and whose only level is the "X" of every row.  A read is *)
(* of one chunk; the messages reach the receiver in order, in their time.  *)
(* The generator is run by hand while nothing is being transferred.        *)
(***************************************************************************)
EXTENDS MqttReceiver, FiniteSets

CONSTANTS
    Sends,      \* the files client_a.py is called with, in order
    MaxCuts     \* bound: times the generator is killed

ASSUME SendsAssumption == Sends \in Seq(File)
ASSUME LevelAssumption == Qos = {"X"}
ASSUME NoChunkAssumption == None \notin Chunk   \* what f.read returns at the end

VARIABLES
    exists,        \* the files that are in the data directory
    send,          \* which of Sends the sender is at
    stage,         \* idle, hash: in compute_sha256_file, chunks
    total_chunks,  \* what calculate_total_chunks returned
    hashed,        \* the chunks the digest has read
    chunk_num,     \* the loop's variable in send_chunks
    position,      \* how many chunks f.read has got past
    inbox,         \* the messages on their way to the receiver
    announced,     \* history: the files announced with some chunks, in order
    overlapped,    \* history: files measured while a transfer into them was
                   \* open or on its way
    cut            \* history: files the generator was killed in

sending == <<send, stage, total_chunks, hashed, chunk_num, position>>
dvars == <<vars, exists, sending, inbox, announced, overlapped, cut>>

SharedInit ==
    /\ Init
    /\ exists = {}
    /\ send = 1 /\ stage = "idle"
    /\ total_chunks = 0 /\ hashed = <<>> /\ chunk_num = 0 /\ position = 0
    /\ inbox = <<>> /\ announced = <<>> /\ overlapped = {} /\ cut = {}

filename == Sends[send]

(* A transfer into file f is open, or will be.                             *)
Busy(f) ==
    \/ current_file_handle = f
    \/ \E i \in DOMAIN inbox : inbox[i].topic = TOPIC_CTRL /\ inbox[i].filename = f

Quiet == stage = "idle" /\ inbox = <<>>

-----------------------------------------------------------------------------
(* generate_model_file_*: a file that exists is skipped, whatever is in it. *)
Generate(f) ==
    /\ Quiet
    /\ f \notin exists
    /\ exists' = exists \cup {f}
    /\ disk' = [disk EXCEPT ![f] = Content[f]]
    /\ UNCHANGED <<alive, current_file_handle, transfer, buffer, rows, now,
                   sending, inbox, announced, overlapped, cut>>

(* It is killed in f.write: the file exists, with a part of its bytes.     *)
GenerateCut(f) ==
    /\ Quiet
    /\ f \notin exists
    /\ Cardinality(cut) < MaxCuts
    /\ exists' = exists \cup {f}
    /\ \E n \in 0 .. Len(Content[f]) - 1 :
          disk' = [disk EXCEPT ![f] = SubSeq(Content[f], 1, n)]
    /\ cut' = cut \cup {f}
    /\ UNCHANGED <<alive, current_file_handle, transfer, buffer, rows, now,
                   sending, inbox, announced, overlapped>>

-----------------------------------------------------------------------------
(* send_file: no such file, no transfer.                                   *)
SkipMissing ==
    /\ stage = "idle" /\ send <= Len(Sends)
    /\ filename \notin exists
    /\ send' = send + 1
    /\ UNCHANGED <<vars, exists, stage, total_chunks, hashed, chunk_num, position,
                   inbox, announced, overlapped, cut>>

calculate_total_chunks ==
    /\ stage = "idle" /\ send <= Len(Sends)
    /\ filename \in exists
    /\ total_chunks' = Len(disk[filename])
    /\ stage' = "hash"
    /\ hashed' = <<>>
    /\ overlapped' = IF Busy(filename) THEN overlapped \cup {filename} ELSE overlapped
    /\ UNCHANGED <<vars, exists, send, chunk_num, position, inbox, announced, cut>>

(* compute_sha256_file: one read, which is not the last.                   *)
HashChunk ==
    /\ stage = "hash"
    /\ Len(hashed) < Len(disk[filename])
    /\ hashed' = Append(hashed, disk[filename][Len(hashed) + 1])
    /\ UNCHANGED <<vars, exists, send, stage, total_chunks, chunk_num, position,
                   inbox, announced, overlapped, cut>>

(* The digest is at the end of the file; send_metadata.                    *)
send_metadata ==
    /\ stage = "hash"
    /\ Len(hashed) >= Len(disk[filename])
    /\ inbox' = Append(inbox, [topic |-> TOPIC_CTRL, filename |-> filename,
                               total_chunks |-> total_chunks,
                               checksum |-> Sha256(hashed), qos |-> "X"])
    /\ announced' = IF total_chunks > 0 THEN Append(announced, filename) ELSE announced
    /\ stage' = "chunks"
    /\ chunk_num' = 0 /\ position' = 0
    /\ UNCHANGED <<vars, exists, send, total_chunks, hashed, overlapped, cut>>

(* send_chunks: the next read, which is empty at the end of the file, and  *)
(* its publication, empty or not.                                          *)
AtEnd == position >= Len(disk[filename])

StopAtEnd ==   \* mutant: the loop ends with the file, not with the count
    /\ stage = "chunks"
    /\ chunk_num < total_chunks
    /\ chunk_num' = IF AtEnd THEN total_chunks ELSE chunk_num + 1
    /\ position' = IF AtEnd THEN position ELSE position + 1
    /\ inbox' = IF AtEnd THEN inbox
                ELSE Append(inbox, ChunkMessage(disk[filename][position + 1]))
    /\ UNCHANGED <<vars, exists, send, stage, total_chunks, hashed, announced,
                   overlapped, cut>>

SendChunk ==
    /\ stage = "chunks"
    /\ chunk_num < total_chunks
    /\ chunk_num' = chunk_num + 1
    /\ position' = IF AtEnd THEN position ELSE position + 1
    /\ inbox' = Append(inbox, ChunkMessage(IF AtEnd THEN None
                                           ELSE disk[filename][position + 1]))
    /\ UNCHANGED <<vars, exists, send, stage, total_chunks, hashed, announced,
                   overlapped, cut>>

Sent ==
    /\ stage = "chunks"
    /\ chunk_num = total_chunks
    /\ send' = send + 1
    /\ stage' = "idle"
    /\ UNCHANGED <<vars, exists, total_chunks, hashed, chunk_num, position, inbox,
                   announced, overlapped, cut>>

-----------------------------------------------------------------------------
(* on_message with an empty payload: counted, but nothing to write.        *)
transfer_completed_handler == TransferCompleted(received_bytes, disk[current_filename])

OnEmptyChunk ==
    /\ current_file_handle # None
    /\ TakeChunk(None)
    /\ IF received_chunks + 1 = expected_chunks
       THEN /\ transfer_completed_handler
            /\ received_bytes' = 0
            /\ disk' = DiskAfterClose
            /\ buffer' = <<>>
            /\ current_file_handle' = None
       ELSE UNCHANGED <<received_bytes, disk, buffer, current_file_handle, rows>>

on_message ==
    /\ inbox # <<>>
    /\ LET msg == Head(inbox) IN
       IF msg = ChunkMessage(None) THEN OnEmptyChunk ELSE OnMessage(msg)
    /\ inbox' = Tail(inbox)
    /\ UNCHANGED <<exists, sending, announced, overlapped, cut>>

SharedNext ==
    \/ \E f \in File : Generate(f) \/ GenerateCut(f)
    \/ SkipMissing \/ calculate_total_chunks \/ HashChunk \/ send_metadata
    \/ SendChunk \/ Sent
    \/ on_message

SharedSpec == SharedInit /\ [][SharedNext]_dvars

-----------------------------------------------------------------------------
(* mqtt_client_b.py:97.  Whatever is truncated while it is read, and       *)
(* written back while it is read again, a file only ever loses its end: no *)
(* chunk gets into another file or to another place.                       *)
SourceIsPrefix == \A f \in File : IsPrefix(disk[f], Content[f])

(* mqtt_client_b.py:112-117.  Every transfer announced with some chunks    *)
(* gets its row, in the order announced, although the file may shrink      *)
(* under the sender: as many messages are sent as were announced, and an   *)
(* empty one counts.                                                       *)
EveryRunAnswered == Quiet => [i \in DOMAIN rows |-> rows[i].file] = announced

(* mqtt_client_b.py:37-46.  A source the receiver has damaged was reported *)
(* CORRUPTED; unless a transfer of it was measured before the one before   *)
(* had ended: then the damaged file is announced as if it were whole, and  *)
(* its copy is OK.                                                         *)
DamageReported ==
    \A f \in exists \ (overlapped \cup cut) :
        ~Busy(f) /\ disk[f] # Content[f] =>
            \E i \in DOMAIN rows : rows[i].file = f /\ ~rows[i].integrity_ok
=============================================================================
