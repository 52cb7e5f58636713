------------------------- MODULE MqttReceiverProofs -------------------------
(***************************************************************************)
(* Proofs about MqttReceiver, for every set of files, chunks and sizes.    *)
(***************************************************************************)
EXTENDS MqttReceiver, SequenceTheorems, FiniteSetTheorems,
        WellFoundedInduction, TLAPS

(* None of these looks into TotalSize: whichever way the buffered writer   *)
(* decides, what it has flushed followed by what it keeps is what it was   *)
(* given, in order.                                                        *)
LEMMA WriterKeepsOrder ==
    ASSUME NEW held \in Seq(Chunk), NEW c \in Chunk
    PROVE  /\ Kept(held, c) \in Seq(Chunk)
           /\ Flushed(held, c) \in Seq(Chunk)
           /\ Flushed(held, c) \o Kept(held, c) = Append(held, c)
<1>1. CASE ~Small(c)
    BY <1>1, ConcatEmptySeq DEF Kept, Flushed
<1>2. CASE Small(c) /\ Fits(held, c)
    BY <1>2, ConcatEmptySeq DEF Kept, Flushed
<1>3. CASE Small(c) /\ ~Fits(held, c)
    BY <1>3, AppendIsConcat DEF Kept, Flushed
<1> QED
    BY <1>1, <1>2, <1>3

(* Concatenation of sequences of chunks, in the form the leaves below cite. *)
LEMMA ChunksAssociative ==
    ASSUME NEW s \in Seq(Chunk), NEW t \in Seq(Chunk), NEW u \in Seq(Chunk)
    PROVE  (s \o t) \o u = s \o (t \o u)
  BY ConcatAssociative

(* A chunk handed to the writer is appended to the file, which is what it  *)
(* has on the disk followed by what the writer keeps.                      *)
LEMMA WriterAppends ==
    ASSUME NEW first \in Seq(Chunk), NEW held \in Seq(Chunk), NEW c \in Chunk
    PROVE  (first \o Flushed(held, c)) \o Kept(held, c) = Append(first \o held, c)
<1>1. /\ Kept(held, c) \in Seq(Chunk) /\ Flushed(held, c) \in Seq(Chunk)
      /\ Flushed(held, c) \o Kept(held, c) = Append(held, c)
    BY WriterKeepsOrder
<1>2. (first \o Flushed(held, c)) \o Kept(held, c)
        = first \o (Flushed(held, c) \o Kept(held, c))
    BY <1>1, ChunksAssociative, Zenon
<1>3. first \o held \in Seq(Chunk) /\ <<c>> \in Seq(Chunk)
    BY ConcatProperties
<1>4. Append(held, c) = held \o <<c>>
    BY AppendIsConcat
<1>5. (first \o held) \o <<c>> = first \o (held \o <<c>>)
    BY <1>3, ChunksAssociative, Zenon
<1>6. Append(first \o held, c) = (first \o held) \o <<c>>
    BY <1>3, AppendIsConcat
<1> QED
    BY <1>1, <1>2, <1>4, <1>5, <1>6

(* A message is the metadata of a file or carries a chunk, and its topic   *)
(* tells which.                                                            *)
LEMMA MessageCases ==
    ASSUME NEW m \in Message
    PROVE  \/ /\ m.topic = TOPIC_CTRL /\ m.topic # TOPIC_DATA
              /\ m.filename \in File /\ m.qos \in Qos
              /\ m.total_chunks = Len(Content[m.filename])
              /\ m.checksum = Sha256(Content[m.filename])
           \/ /\ m.topic = TOPIC_DATA /\ m.topic # TOPIC_CTRL
              /\ m.payload \in Chunk
  BY DEF Message, Metadata, ChunkMessage, TOPIC_CTRL, TOPIC_DATA

(* A difference of clock readings that are in order is a natural number.   *)
LEMMA NatMinus == \A a, b \in Nat : b <= a => a - b \in Nat
  OBVIOUS

(* What a file to be sent is made of, and the digest metadata announces.   *)
LEMMA ContentTyped ==
    ASSUME NEW n \in File
    PROVE  /\ Content[n] \in Seq(Chunk)
           /\ Len(Content[n]) \in Nat
           /\ Sha256(Content[n]) \in Digest
  BY ContentAssumption DEF Sha256, Digest

(* A receiver that has just started has no file open and no counts.        *)
LEMMA InitIInv == Init => IInv
<1> SUFFICES ASSUME Init PROVE IInv
    OBVIOUS
<1>1. TypeOK
  <2>1. <<>> \in Seq(Chunk) /\ <<>> \in Seq(Row)
      OBVIOUS
  <2> QED
      BY <2>1 DEF Init, TypeOK
<1>2. GlobalsDescribeHandle /\ ClosedMeansFlushed /\ OpenMeansIncomplete
    BY DEF Init, GlobalsDescribeHandle, ClosedMeansFlushed, OpenMeansIncomplete
<1>3. ClocksOrdered
    BY DEF Init, ClocksOrdered
<1> QED
    BY <1>1, <1>2, <1>3 DEF IInv

-----------------------------------------------------------------------------
(* Closing the stale handle leaves a disk of the right type.               *)
LEMMA CloseTyped ==
    ASSUME TypeOK
    PROVE  DiskAfterClose \in [File -> Seq(Chunk)]
<1>1. CASE current_file_handle = None
    BY <1>1 DEF TypeOK, DiskAfterClose
<1>2. CASE current_file_handle # None
  <2>1. disk[current_file_handle] \o buffer \in Seq(Chunk)
      BY <1>2, ConcatProperties DEF TypeOK
  <2> QED
      BY <1>2, <2>1 DEF TypeOK, DiskAfterClose
<1> QED
    BY <1>1, <1>2

(* Metadata that opens its file resets every count and clock with it.      *)
LEMMA MetadataStep ==
    ASSUME IInv, NEW m \in Message, OnMetadata(m)
    PROVE  IInv'
<1>1. /\ m.filename \in File /\ m.qos \in Qos
      /\ m.total_chunks = Len(Content[m.filename])
      /\ m.checksum = Sha256(Content[m.filename])
    BY MessageCases DEF OnMetadata
<1>2. m.total_chunks \in Nat /\ m.checksum \in Digest
    BY <1>1, ContentTyped
<1>3. /\ disk' = [DiskAfterClose EXCEPT ![m.filename] = <<>>]
      /\ disk' \in [File -> Seq(Chunk)] /\ disk'[m.filename] = <<>>
      /\ buffer' = <<>> /\ buffer' \in Seq(Chunk)
      /\ Len(disk'[m.filename]) = 0 /\ Len(buffer') = 0
    BY <1>1, CloseTyped DEF OnMetadata, IInv
<1>4. TypeOK'
  <2>1. alive' \in BOOLEAN /\ first_chunk_received' \in BOOLEAN
      BY DEF OnMetadata, TakeMetadata, Describe, ResetCounters, ResetClocks
  <2>2. /\ current_file_handle' \in File \cup {None}
        /\ current_filename' \in File \cup {None}
        /\ current_qos' \in Qos \cup {None}
        /\ expected_checksum' \in Digest \cup {None}
        /\ rows' \in Seq(Row)
      BY <1>1, <1>2 DEF IInv, TypeOK, OnMetadata, TakeMetadata, Describe,
                        ResetCounters, ResetClocks
  <2>3. /\ expected_chunks' \in Nat /\ received_chunks' \in Nat
        /\ received_bytes' \in Nat /\ start_latency' \in Nat
        /\ metadata_arrival_time' \in Nat /\ transfer_start_time' \in Nat
        /\ now' \in Nat
      BY <1>2 DEF IInv, TypeOK, OnMetadata, TakeMetadata, Describe, ResetCounters, ResetClocks
  <2> QED
      BY <1>3, <2>1, <2>2, <2>3 DEF TypeOK
<1>5. GlobalsDescribeHandle'
    BY <1>1, <1>2, <1>3
       DEF IInv, TypeOK, OnMetadata, TakeMetadata, Describe, ResetCounters,
           ResetClocks, GlobalsDescribeHandle
<1>6. ClosedMeansFlushed' /\ OpenMeansIncomplete'
    BY <1>1, <1>2, <1>3
       DEF OnMetadata, TakeMetadata, Describe, ResetCounters, ResetClocks,
           ClosedMeansFlushed, OpenMeansIncomplete
<1>7. ClocksOrdered'
    BY DEF IInv, TypeOK, OnMetadata, TakeMetadata, Describe, ResetCounters,
           ResetClocks, ClocksOrdered
<1> QED
    BY <1>4, <1>5, <1>6, <1>7 DEF IInv

(* Metadata whose open fails leaves no file open, with the stale one closed. *)
LEMMA OpenFailsStep ==
    ASSUME IInv, NEW m \in Message, OnMetadataOpenFails(m)
    PROVE  IInv'
<1>1. /\ m.filename \in File /\ m.qos \in Qos
      /\ m.total_chunks = Len(Content[m.filename])
      /\ m.checksum = Sha256(Content[m.filename])
    BY MessageCases DEF OnMetadataOpenFails
<1>2. m.total_chunks \in Nat /\ m.checksum \in Digest
    BY <1>1, ContentTyped
<1>3. disk' \in [File -> Seq(Chunk)] /\ buffer' = <<>> /\ buffer' \in Seq(Chunk)
    BY CloseTyped DEF OnMetadataOpenFails, IInv
<1>4. TypeOK'
  <2>1. alive' \in BOOLEAN /\ first_chunk_received' \in BOOLEAN
      BY DEF OnMetadataOpenFails, TakeMetadata, Describe, ResetCounters, ResetClocks
  <2>2. /\ current_file_handle' \in File \cup {None}
        /\ current_filename' \in File \cup {None}
        /\ current_qos' \in Qos \cup {None}
        /\ expected_checksum' \in Digest \cup {None}
        /\ rows' \in Seq(Row)
      BY <1>1, <1>2 DEF IInv, TypeOK, OnMetadataOpenFails, TakeMetadata,
                        Describe, ResetCounters, ResetClocks
  <2>3. /\ expected_chunks' \in Nat /\ received_chunks' \in Nat
        /\ received_bytes' \in Nat /\ start_latency' \in Nat
        /\ metadata_arrival_time' \in Nat /\ transfer_start_time' \in Nat
        /\ now' \in Nat
      BY <1>2 DEF IInv, TypeOK, OnMetadataOpenFails, TakeMetadata, Describe,
                  ResetCounters, ResetClocks
  <2> QED
      BY <1>3, <2>1, <2>2, <2>3 DEF TypeOK
<1>5. GlobalsDescribeHandle' /\ ClosedMeansFlushed' /\ OpenMeansIncomplete'
    BY <1>3 DEF OnMetadataOpenFails, GlobalsDescribeHandle, ClosedMeansFlushed,
                OpenMeansIncomplete
<1>6. ClocksOrdered'
    BY DEF IInv, TypeOK, OnMetadataOpenFails, TakeMetadata, Describe,
           ResetCounters, ResetClocks, ClocksOrdered
<1> QED
    BY <1>4, <1>5, <1>6 DEF IInv

-----------------------------------------------------------------------------
(* A chunk handed to write() comes right after what the open file has, and *)
(* the count of chunks stays that of the file.                             *)
LEMMA WriteAppends ==
    ASSUME IInv, current_file_handle # None, NEW c \in Chunk
    PROVE  /\ Written(current_file_handle, c) \in Seq(Chunk)
           /\ Kept(buffer, c) \in Seq(Chunk)
           /\ Written(current_file_handle, c) \o Kept(buffer, c)
                = Append(Output, c)
           /\ Len(Written(current_file_handle, c)) + Len(Kept(buffer, c))
                = received_chunks + 1
<1> DEFINE h == current_file_handle
<1>1. h \in File /\ disk[h] \in Seq(Chunk) /\ buffer \in Seq(Chunk)
    BY DEF IInv, TypeOK
<1>2. /\ Kept(buffer, c) \in Seq(Chunk) /\ Flushed(buffer, c) \in Seq(Chunk)
      /\ Flushed(buffer, c) \o Kept(buffer, c) = Append(buffer, c)
    BY <1>1, WriterKeepsOrder
<1>3. Written(h, c) \in Seq(Chunk)
    BY <1>1, <1>2, ConcatProperties DEF Written
<1>4. (disk[h] \o Flushed(buffer, c)) \o Kept(buffer, c)
         = Append(disk[h] \o buffer, c)
    BY <1>1, WriterAppends
<1>5. Written(h, c) \o Kept(buffer, c) = Append(disk[h] \o buffer, c)
    BY <1>4 DEF Written
<1>6. Len(Written(h, c)) + Len(Kept(buffer, c)) = Len(disk[h]) + Len(buffer) + 1
  <2>1. Len(Written(h, c) \o Kept(buffer, c))
          = Len(Written(h, c)) + Len(Kept(buffer, c))
      BY <1>2, <1>3, ConcatProperties
  <2>2. Len(Append(disk[h] \o buffer, c)) = Len(disk[h]) + Len(buffer) + 1
      BY <1>1, ConcatProperties, AppendProperties
  <2> QED
      BY <1>5, <2>1, <2>2
<1>7. received_chunks = Len(disk[h]) + Len(buffer)
    BY DEF IInv, GlobalsDescribeHandle
<1> QED
    BY <1>2, <1>3, <1>5, <1>6, <1>7 DEF Output

(* The clocks after a chunk that reaches an open file.                     *)
LEMMA ChunkClocks ==
    ASSUME IInv, current_file_handle # None, NEW c, TakeChunk(c)
    PROVE  /\ now' \in Nat /\ start_latency' \in Nat
           /\ transfer_start_time' \in Nat /\ metadata_arrival_time' \in Nat
           /\ received_chunks' \in Nat /\ first_chunk_received' = TRUE
           /\ metadata_arrival_time' <= now'
           /\ transfer_start_time' <= now'
           /\ metadata_arrival_time' + start_latency' = transfer_start_time'
           /\ start_latency' > 0
<1>1. CASE first_chunk_received
    BY <1>1 DEF IInv, TypeOK, ClocksOrdered, TakeChunk, NoteFirstChunk
<1>2. CASE ~first_chunk_received
    BY <1>2 DEF IInv, TypeOK, ClocksOrdered, TakeChunk, NoteFirstChunk
<1> QED
    BY <1>1, <1>2

(* A chunk that is not the last one keeps the counts those of the open file. *)
LEMMA ChunkStep ==
    ASSUME IInv, NEW m \in Message, OnChunk(m)
    PROVE  IInv'
<1> DEFINE h == current_file_handle
           c == m.payload
<1>1. c \in Chunk /\ h # None /\ h \in File /\ TakeChunk(c)
      /\ Size[c] \in Nat /\ received_chunks + 1 # expected_chunks
    BY MessageCases, SizeAssumption DEF OnChunk, IInv, TypeOK
<1>2. /\ Written(h, c) \in Seq(Chunk) /\ Kept(buffer, c) \in Seq(Chunk)
      /\ Len(Written(h, c)) + Len(Kept(buffer, c)) = received_chunks + 1
    BY <1>1, WriteAppends
<1>3. /\ disk' = [disk EXCEPT ![h] = Written(h, c)] /\ buffer' = Kept(buffer, c)
      /\ disk' \in [File -> Seq(Chunk)] /\ disk'[h] = Written(h, c)
    BY <1>1, <1>2 DEF OnChunk, IInv, TypeOK
<1>4. /\ now' \in Nat /\ start_latency' \in Nat
      /\ transfer_start_time' \in Nat /\ metadata_arrival_time' \in Nat
      /\ received_chunks' \in Nat /\ first_chunk_received' = TRUE
      /\ metadata_arrival_time' <= now' /\ transfer_start_time' <= now'
      /\ metadata_arrival_time' + start_latency' = transfer_start_time'
      /\ start_latency' > 0
    BY <1>1, ChunkClocks
<1>5. /\ current_file_handle' = h /\ current_filename' = current_filename
      /\ expected_chunks' = expected_chunks /\ current_qos' = current_qos
      /\ expected_checksum' = expected_checksum
      /\ rows' = rows /\ alive' = alive
      /\ received_chunks' = received_chunks + 1
      /\ received_bytes' = received_bytes + Size[c]
    BY DEF OnChunk, TakeChunk
<1>6. TypeOK'
  <2>1. alive' \in BOOLEAN /\ first_chunk_received' \in BOOLEAN
      BY <1>4, <1>5 DEF IInv, TypeOK
  <2>2. /\ current_file_handle' \in File \cup {None}
        /\ current_filename' \in File \cup {None}
        /\ current_qos' \in Qos \cup {None}
        /\ expected_checksum' \in Digest \cup {None}
        /\ rows' \in Seq(Row)
      BY <1>1, <1>5 DEF IInv, TypeOK
  <2>3. expected_chunks' \in Nat /\ received_bytes' \in Nat
      BY <1>1, <1>5 DEF IInv, TypeOK
  <2> QED
      BY <1>2, <1>3, <1>4, <2>1, <2>2, <2>3 DEF TypeOK
<1>7. GlobalsDescribeHandle'
    BY <1>1, <1>2, <1>3, <1>5 DEF IInv, GlobalsDescribeHandle
<1>8. ClosedMeansFlushed' /\ ClocksOrdered'
    BY <1>1, <1>4, <1>5 DEF ClosedMeansFlushed, ClocksOrdered
<1>9. OpenMeansIncomplete'
    BY <1>1, <1>5 DEF IInv, TypeOK, OpenMeansIncomplete
<1> QED
    BY <1>6, <1>7, <1>8, <1>9 DEF IInv

-----------------------------------------------------------------------------
(* What the chunk that completes a transfer does: it adds one row, whose   *)
(* verdict compares the announced digest with the disk before the close,   *)
(* and closes the file, which then holds every chunk it was given.         *)
LEMMA LastChunkFacts ==
    ASSUME IInv, NEW m \in Message, OnLastChunk(m)
    PROVE  /\ current_file_handle \in File /\ current_file_handle # None
           /\ m.payload \in Chunk /\ TakeChunk(m.payload)
           /\ rows' \in Seq(Row) /\ rows' # rows
           /\ rows' = Append(rows, Last(rows'))
           /\ Last(rows') \in Row
           /\ Last(rows').file = current_file_handle
           /\ Last(rows').qos = current_qos
           /\ Last(rows').file_size = received_bytes + Size[m.payload]
           /\ Last(rows').latency = start_latency'
           /\ Last(rows').receiver_duration = now' - transfer_start_time'
           /\ Last(rows').integrity_ok
                = (Sha256(Content[current_file_handle])
                     = Sha256(Written(current_file_handle, m.payload)))
           /\ Written(current_file_handle, m.payload) \in Seq(Chunk)
           /\ Kept(buffer, m.payload) \in Seq(Chunk)
           /\ Len(Written(current_file_handle, m.payload))
                + Len(Kept(buffer, m.payload)) = Len(Content[current_file_handle])
           /\ Written(current_file_handle, m.payload) \o Kept(buffer, m.payload)
                = Append(Output, m.payload)
           /\ disk' \in [File -> Seq(Chunk)]
           /\ disk'[current_file_handle]
                = Written(current_file_handle, m.payload) \o Kept(buffer, m.payload)
           /\ buffer' = <<>> /\ current_file_handle' = None
<1> DEFINE h == current_file_handle
           c == m.payload
           row == [file |-> h, qos |-> current_qos,
                   file_size |-> received_bytes + Size[c],
                   receiver_duration |-> now' - transfer_start_time',
                   latency |-> start_latency',
                   integrity_ok |-> Sha256(Content[h]) = Sha256(Written(h, c))]
<1>1. c \in Chunk /\ h # None /\ h \in File /\ TakeChunk(c)
      /\ Size[c] \in Nat /\ received_chunks + 1 = expected_chunks
    BY MessageCases, SizeAssumption DEF OnLastChunk, CloseFile, IInv, TypeOK
<1>2. /\ current_filename = h /\ current_qos \in Qos
      /\ expected_chunks = Len(Content[h])
      /\ expected_checksum = Sha256(Content[h])
    BY <1>1 DEF IInv, GlobalsDescribeHandle
<1>3. /\ Written(h, c) \in Seq(Chunk) /\ Kept(buffer, c) \in Seq(Chunk)
      /\ Written(h, c) \o Kept(buffer, c) = Append(Output, c)
      /\ Len(Written(h, c)) + Len(Kept(buffer, c)) = received_chunks + 1
    BY <1>1, WriteAppends
<1>4. Written(h, c) \o Kept(buffer, c) \in Seq(Chunk)
    BY <1>3, ConcatProperties
<1>5. rows' = Append(rows, row)
    BY <1>2 DEF OnLastChunk, CloseFile, TransferCompleted, RowOf
<1>6. row \in Row
  <2>1. /\ now' \in Nat /\ start_latency' \in Nat
        /\ transfer_start_time' \in Nat /\ transfer_start_time' <= now'
      BY <1>1, ChunkClocks
  <2>2. received_bytes + Size[c] \in Nat
      BY <1>1 DEF IInv, TypeOK
  <2>3. now' - transfer_start_time' \in Nat
      BY <2>1, NatMinus
  <2>4. (Sha256(Content[h]) = Sha256(Written(h, c))) \in BOOLEAN
      OBVIOUS
  <2> QED
      BY <1>1, <1>2, <2>1, <2>2, <2>3, <2>4 DEF Row
<1>7. rows' \in Seq(Row) /\ rows' # rows /\ Last(rows') = row
  <2>1. rows \in Seq(Row)
      BY DEF IInv, TypeOK
  <2>2. /\ Append(rows, row) \in Seq(Row)
        /\ Len(Append(rows, row)) = Len(rows) + 1
        /\ Append(rows, row)[Len(rows) + 1] = row
      BY <1>6, <2>1, AppendProperties
  <2>3. Len(rows) \in Nat
      BY <2>1
  <2> HIDE DEF row
  <2> QED
      BY <1>5, <2>2, <2>3 DEF Last
<1>8. /\ disk' = [disk EXCEPT ![h] = Written(h, c) \o Kept(buffer, c)]
      /\ buffer' = <<>> /\ current_file_handle' = None
    BY DEF OnLastChunk, CloseFile
<1>9. disk' \in [File -> Seq(Chunk)] /\ disk'[h] = Written(h, c) \o Kept(buffer, c)
    BY <1>1, <1>4, <1>8 DEF IInv, TypeOK
<1>10. /\ Last(rows').file = h /\ Last(rows').qos = current_qos
       /\ Last(rows').file_size = received_bytes + Size[c]
       /\ Last(rows').latency = start_latency'
       /\ Last(rows').receiver_duration = now' - transfer_start_time'
       /\ Last(rows').integrity_ok = (Sha256(Content[h]) = Sha256(Written(h, c)))
    BY <1>7
<1>11. rows' = Append(rows, Last(rows')) /\ Last(rows') \in Row
    BY <1>5, <1>6, <1>7
<1>12. Len(Written(h, c)) + Len(Kept(buffer, c)) = Len(Content[h])
    BY <1>1, <1>2, <1>3
<1> HIDE DEF row
<1> QED
    BY <1>1, <1>3, <1>7, <1>8, <1>9, <1>10, <1>11, <1>12

(* The chunk that completes a transfer leaves no file open.                *)
LEMMA LastChunkStep ==
    ASSUME IInv, NEW m \in Message, OnLastChunk(m)
    PROVE  IInv'
<1>1. /\ current_file_handle # None /\ TakeChunk(m.payload)
      /\ rows' \in Seq(Row) /\ disk' \in [File -> Seq(Chunk)]
      /\ buffer' = <<>> /\ current_file_handle' = None
    BY LastChunkFacts
<1>2. /\ now' \in Nat /\ start_latency' \in Nat
      /\ transfer_start_time' \in Nat /\ metadata_arrival_time' \in Nat
      /\ received_chunks' \in Nat /\ first_chunk_received' = TRUE
      /\ metadata_arrival_time' <= now' /\ transfer_start_time' <= now'
      /\ metadata_arrival_time' + start_latency' = transfer_start_time'
      /\ start_latency' > 0
    BY <1>1, ChunkClocks
<1>3. TypeOK'
  <2>1. alive' \in BOOLEAN /\ first_chunk_received' \in BOOLEAN
      BY <1>1, <1>2 DEF IInv, TypeOK, TakeChunk
  <2>2. /\ current_filename' \in File \cup {None}
        /\ current_qos' \in Qos \cup {None}
        /\ expected_checksum' \in Digest \cup {None}
       
        /\ expected_chunks' \in Nat /\ received_bytes' \in Nat
      BY <1>1 DEF IInv, TypeOK, TakeChunk, OnLastChunk, CloseFile
  <2> QED
      BY <1>1, <1>2, <2>1, <2>2 DEF TypeOK
<1>4. GlobalsDescribeHandle' /\ ClosedMeansFlushed' /\ OpenMeansIncomplete'
    BY <1>1 DEF GlobalsDescribeHandle, ClosedMeansFlushed, OpenMeansIncomplete
<1>5. ClocksOrdered'
    BY <1>1, <1>2 DEF ClocksOrdered
<1> QED
    BY <1>3, <1>4, <1>5 DEF IInv

(* A chunk that finds no file open changes nothing the invariant speaks of. *)
LEMMA StrayStep ==
    ASSUME IInv, NEW m \in Message, OnStrayChunk(m)
    PROVE  IInv'
<1>1. TypeOK'
    BY DEF IInv, TypeOK, OnStrayChunk, transfer
<1>2. GlobalsDescribeHandle' /\ ClosedMeansFlushed' /\ OpenMeansIncomplete'
    BY DEF IInv, OnStrayChunk, transfer, GlobalsDescribeHandle,
           ClosedMeansFlushed, OpenMeansIncomplete
<1>3. ClocksOrdered'
    BY DEF IInv, TypeOK, ClocksOrdered, OnStrayChunk, transfer
<1> QED
    BY <1>1, <1>2, <1>3 DEF IInv

(* A killed process loses its buffer and its handle together.              *)
LEMMA KillStep == IInv /\ Kill => IInv'
<1> SUFFICES ASSUME IInv, Kill PROVE IInv'
    OBVIOUS
<1>1. TypeOK'
  <2>1. alive' \in BOOLEAN
      BY DEF Kill
  <2>2. buffer' \in Seq(Chunk) /\ current_file_handle' \in File \cup {None}
      BY DEF Kill
  <2>3. UNCHANGED <<disk, rows, now>> /\ UNCHANGED transfer
      BY DEF Kill
  <2>4. first_chunk_received' \in BOOLEAN
      BY <2>3 DEF IInv, TypeOK, transfer
  <2> QED
      BY <2>1, <2>2, <2>3, <2>4 DEF IInv, TypeOK, transfer
<1>2. GlobalsDescribeHandle' /\ ClosedMeansFlushed' /\ OpenMeansIncomplete'
    BY DEF Kill, GlobalsDescribeHandle, ClosedMeansFlushed, OpenMeansIncomplete
<1>3. ClocksOrdered'
    BY DEF IInv, Kill, transfer, ClocksOrdered
<1> QED
    BY <1>1, <1>2, <1>3 DEF IInv

(* A restarted process has the globals of its module body.                 *)
LEMMA RestartStep == IInv /\ Restart => IInv'
<1> SUFFICES ASSUME IInv, Restart PROVE IInv'
    OBVIOUS
<1>1. TypeOK'
  <2>1. alive' \in BOOLEAN /\ first_chunk_received' \in BOOLEAN
      BY DEF Restart
  <2>2. disk' = disk /\ buffer' = buffer /\ rows' = rows /\ now' = now
      BY DEF Restart
  <2>3. /\ current_file_handle' \in File \cup {None}
        /\ current_filename' \in File \cup {None}
        /\ current_qos' \in Qos \cup {None}
        /\ expected_checksum' \in Digest \cup {None}
      BY DEF Restart
  <2>4. /\ expected_chunks' \in Nat /\ received_chunks' \in Nat
        /\ received_bytes' \in Nat /\ start_latency' \in Nat
        /\ metadata_arrival_time' \in Nat /\ transfer_start_time' \in Nat
      BY DEF Restart
  <2> QED
      BY <2>1, <2>2, <2>3, <2>4 DEF IInv, TypeOK
<1>2. GlobalsDescribeHandle' /\ OpenMeansIncomplete'
    BY DEF Restart, GlobalsDescribeHandle, OpenMeansIncomplete
<1>3. ClosedMeansFlushed'
    BY DEF IInv, Restart, GlobalsDescribeHandle, ClosedMeansFlushed
<1>4. ClocksOrdered'
    BY DEF IInv, TypeOK, Restart, ClocksOrdered
<1> QED
    BY <1>1, <1>2, <1>3, <1>4 DEF IInv

(* Every step keeps the inductive invariant.                               *)
LEMMA NextIInv == IInv /\ [Next]_vars => IInv'
<1> SUFFICES ASSUME IInv, [Next]_vars PROVE IInv'
    OBVIOUS
<1>1. CASE \E m \in Message : OnMessage(m)
    BY <1>1, MetadataStep, OpenFailsStep, ChunkStep, LastChunkStep, StrayStep
       DEF OnMessage
<1>2. CASE Kill
    BY <1>2, KillStep
<1>3. CASE Restart
    BY <1>3, RestartStep
<1>4. CASE UNCHANGED vars
    BY <1>4 DEF vars, transfer, IInv, TypeOK, GlobalsDescribeHandle,
                ClosedMeansFlushed, ClocksOrdered, OpenMeansIncomplete
<1> QED
    BY <1>1, <1>2, <1>3, <1>4 DEF Next

(* The inductive invariant of the receiver: while a file is open, the      *)
(* globals of client_b.py are those of that file and count its chunks.     *)
THEOREM Inductive == Spec => []IInv
  BY InitIInv, NextIInv, PTL DEF Spec

(* The globals always have the types client_b.py gives them.               *)
THEOREM TypeCorrect == Spec => []TypeOK
<1>1. IInv => TypeOK
    BY DEF IInv
<1> QED
    BY <1>1, Inductive, PTL

(* A transfer never runs past its last chunk, in whatever order messages   *)
(* come: the equality test of the data branch is met exactly once.         *)
THEOREM NeverOverrun == Spec => []OpenMeansIncomplete
<1>1. IInv => OpenMeansIncomplete
    BY DEF IInv
<1> QED
    BY <1>1, Inductive, PTL

-----------------------------------------------------------------------------
(* Only the chunk that completes a transfer writes a row.                  *)
LEMMA RowsOnlyAtCompletion ==
    ASSUME [Next]_vars, rows' # rows
    PROVE  \E m \in Message : OnLastChunk(m)
  BY DEF Next, OnMessage, OnMetadata, OnMetadataOpenFails, OnChunk,
         OnStrayChunk, Kill, Restart, vars

(* Two parts of a whole: if the first is as long as the whole, the second  *)
(* is empty.                                                               *)
LEMMA FullPrefix ==
    ASSUME NEW s \in Seq(Chunk), NEW t \in Seq(Chunk), NEW u \in Seq(Chunk),
           s = u, Len(s) + Len(t) = Len(u)
    PROVE  s \o t = u
<1>1. Len(t) = 0
    OBVIOUS
<1>2. t = <<>>
    BY <1>1
<1> QED
    BY <1>2, ConcatEmptySeq

(* "OK (checksum match)" is never said of a file that is not on the disk   *)
(* as the sender has it once its handle is closed: the digest is taken     *)
(* before the close, and the count of chunks leaves nothing to be flushed  *)
(* by the close when the digest matches.                                   *)
THEOREM NoFalseOk == Spec => VerdictSound
<1>1. ASSUME IInv, [Next]_vars, rows' # rows, Last(rows').integrity_ok
      PROVE  disk'[Last(rows').file] = Content[Last(rows').file]
  <2>1. PICK m \in Message : OnLastChunk(m)
      BY <1>1, RowsOnlyAtCompletion
  <2> DEFINE h == current_file_handle
             onDisk == Written(h, m.payload)
             held == Kept(buffer, m.payload)
  <2>2. /\ h \in File /\ onDisk \in Seq(Chunk) /\ held \in Seq(Chunk)
        /\ Last(rows').file = h
        /\ Last(rows').integrity_ok = (Sha256(Content[h]) = Sha256(onDisk))
        /\ Len(onDisk) + Len(held) = Len(Content[h])
        /\ disk'[h] = onDisk \o held
      BY <1>1, <2>1, LastChunkFacts
  <2>3. Content[h] = onDisk
      BY <1>1, <2>2 DEF Sha256
  <2>4. Content[h] \in Seq(Chunk)
      BY <2>2, ContentTyped
  <2>5. onDisk \o held = Content[h]
      BY <2>2, <2>3, <2>4, FullPrefix
  <2> QED
      BY <2>2, <2>5
<1> QED
    BY <1>1, Inductive, PTL DEF Spec, VerdictSound

(* The file in progress is a sequence as long as the count of chunks.      *)
LEMMA OutputCounted ==
    ASSUME IInv, current_file_handle # None
    PROVE  /\ Output \in Seq(Chunk) /\ Len(Output) = received_chunks
           /\ expected_chunks = Len(Content[current_file_handle])
  BY ConcatProperties DEF IInv, TypeOK, GlobalsDescribeHandle, Output

(* client_b.py:40 and 135: a file whose last chunk is larger than the      *)
(* writer's buffer is not reported corrupted when it is intact, since the  *)
(* chunk goes straight to the disk and the close has nothing to add.       *)
THEOREM LargeTailNeverCorrupt == Spec => LargeTailComplete
<1>1. ASSUME IInv, [Next]_vars, rows' # rows,
             disk'[Last(rows').file] = Content[Last(rows').file],
             ~Small(Last(Content[Last(rows').file]))
      PROVE  Last(rows').integrity_ok
  <2>1. PICK m \in Message : OnLastChunk(m)
      BY <1>1, RowsOnlyAtCompletion
  <2> DEFINE h == current_file_handle
             c == m.payload
  <2>2. /\ h \in File /\ h # None /\ c \in Chunk
        /\ Written(h, c) \in Seq(Chunk)
        /\ Last(rows').file = h
        /\ Last(rows').integrity_ok
              = (Sha256(Content[h]) = Sha256(Written(h, c)))
        /\ disk'[h] = Written(h, c) \o Kept(buffer, c)
        /\ Written(h, c) \o Kept(buffer, c) = Append(Output, c)
      BY <1>1, <2>1, LastChunkFacts
  <2>3. Last(Append(Output, c)) = c
    <3>1. Output \in Seq(Chunk)
        BY <1>1, <2>2, OutputCounted
    <3> QED
        BY <2>2, <3>1, AppendProperties DEF Last
  <2>4. Content[h] = Append(Output, c)
      BY <1>1, <2>2
  <2>5. ~Small(c)
      BY <1>1, <2>2, <2>3, <2>4
  <2>6. Kept(buffer, c) = <<>>
      BY <2>5 DEF Kept
  <2>7. Content[h] = Written(h, c)
      BY <1>1, <2>2, <2>6, ConcatEmptySeq
  <2> QED
      BY <2>2, <2>7
<1> QED
    BY <1>1, Inductive, PTL DEF Spec, LargeTailComplete

(* The times of a row are those of its own transfer.                       *)
THEOREM RowTimesTelescope == Spec => RowTimes
<1>1. ASSUME IInv, [Next]_vars, rows' # rows
      PROVE  /\ Last(rows').latency > 0
             /\ Last(rows').latency + Last(rows').receiver_duration
                   = now' - metadata_arrival_time
  <2>1. PICK m \in Message : OnLastChunk(m)
      BY <1>1, RowsOnlyAtCompletion
  <2>2. /\ current_file_handle # None /\ TakeChunk(m.payload)
        /\ Last(rows').latency = start_latency'
        /\ Last(rows').receiver_duration = now' - transfer_start_time'
      BY <1>1, <2>1, LastChunkFacts
  <2>3. /\ now' \in Nat /\ start_latency' \in Nat
        /\ transfer_start_time' \in Nat /\ metadata_arrival_time' \in Nat
        /\ metadata_arrival_time' + start_latency' = transfer_start_time'
        /\ start_latency' > 0
        /\ metadata_arrival_time' = metadata_arrival_time
      BY <1>1, <2>2, ChunkClocks DEF TakeChunk
  <2>4. start_latency' + (now' - transfer_start_time')
          = now' - metadata_arrival_time'
    <3>1. PICK start, lag, first, end \in Nat :
             /\ start = metadata_arrival_time' /\ lag = start_latency'
             /\ first = transfer_start_time' /\ end = now'
        BY <2>3
    <3>2. start + lag = first
        BY <2>3, <3>1
    <3>3. lag + (end - first) = end - start
        BY <3>2
    <3> QED
        BY <3>1, <3>3
  <2> QED
      BY <2>2, <2>3, <2>4
<1> QED
    BY <1>1, Inductive, PTL DEF Spec, RowTimes

-----------------------------------------------------------------------------
(* A sum over the subsets of D, as the folds of the library compute it:    *)
(* element by element, in an order nobody knows.                           *)
Chosen(T) == CHOOSE x \in T : TRUE

IsSum(g, D, w) ==
    g = [T \in SUBSET D |-> IF T = {} THEN 0
                            ELSE w[Chosen(T)] + g[T \ {Chosen(T)}]]

LEMMA LeastSubset ==
    ASSUME NEW D, IsFiniteSet(D), NEW P, P \subseteq (SUBSET D), P # {}
    PROVE  \E T \in P : \A U \in SUBSET T : U # T => U \notin P
<1>1. IsWellFoundedOn(StrictSubsetOrdering(D), SUBSET D)
    BY FS_StrictSubsetOrderingWellFounded, FS_FiniteSubsetsOfFinite
<1>2. PICK T \in P : \A U \in P : <<U, T>> \notin StrictSubsetOrdering(D)
    BY <1>1, WFMin
<1>3. ASSUME NEW U \in SUBSET T, U # T PROVE U \notin P
    BY <1>2, <1>3 DEF StrictSubsetOrdering
<1> QED
    BY <1>3

LEMMA SumOfNone ==
    ASSUME NEW D, NEW w, NEW g, IsSum(g, D, w)
    PROVE  g[{}] = 0
<1>1. {} \in SUBSET D
    OBVIOUS
<1> QED
    BY <1>1 DEF IsSum

LEMMA SumStep ==
    ASSUME NEW D, NEW w, NEW g, IsSum(g, D, w), NEW T \in SUBSET D, T # {}
    PROVE  /\ Chosen(T) \in T
           /\ T \ {Chosen(T)} \in SUBSET T
           /\ T \ {Chosen(T)} \in SUBSET D
           /\ T \ {Chosen(T)} # T
           /\ g[T] = w[Chosen(T)] + g[T \ {Chosen(T)}]
<1>1. g[T] = w[Chosen(T)] + g[T \ {Chosen(T)}]
    BY DEF IsSum
<1>2. Chosen(T) \in T
    BY DEF Chosen
<1> QED
    BY <1>1, <1>2

(* Two such sums are equal wherever both are defined.                      *)
LEMMA SumsAgree ==
    ASSUME NEW D, IsFiniteSet(D), NEW w, NEW g, NEW h,
           NEW E \in SUBSET D, IsSum(g, D, w), IsSum(h, E, w)
    PROVE  \A T \in SUBSET E : g[T] = h[T]
<1> DEFINE P == {T \in SUBSET E : g[T] # h[T]}
<1> SUFFICES ASSUME P # {} PROVE FALSE
    OBVIOUS
<1>1. IsFiniteSet(E) /\ P \subseteq (SUBSET E)
    BY FS_Subset
<1>2. PICK T \in P : \A U \in SUBSET T : U # T => U \notin P
  <2> HIDE DEF P
  <2> QED
      BY <1>1, LeastSubset
<1>3. T \in SUBSET E /\ T \in SUBSET D /\ g[T] # h[T]
    BY <1>2
<1>4. T # {}
    BY <1>3, SumOfNone
<1> DEFINE U == T \ {Chosen(T)}
<1>5. /\ U \in SUBSET T /\ U # T
      /\ g[T] = w[Chosen(T)] + g[U]
    BY <1>3, <1>4, SumStep
<1>6. h[T] = w[Chosen(T)] + h[U]
    BY <1>3, <1>4, SumStep
<1>7. U \in SUBSET E /\ U \notin P
    BY <1>2, <1>3, <1>5
<1>8. g[U] = h[U]
    BY <1>7
<1> QED
    BY <1>3, <1>5, <1>6, <1>8

LEMMA SumsExist ==
    ASSUME NEW D, IsFiniteSet(D), NEW w
    PROVE  \E g : IsSum(g, D, w)
<1> DEFINE P == {T \in SUBSET D : ~ \E g : IsSum(g, T, w)}
<1> SUFFICES ASSUME P # {} PROVE FALSE
    OBVIOUS
<1>1. PICK T \in P : \A U \in SUBSET T : U # T => U \notin P
  <2>1. P \subseteq (SUBSET D)
      OBVIOUS
  <2> HIDE DEF P
  <2> QED
      BY <2>1, LeastSubset
<1>2. T \in SUBSET D /\ IsFiniteSet(T) /\ ~ \E g : IsSum(g, T, w)
    BY <1>1, FS_Subset
<1> DEFINE G == [U \in SUBSET T |-> CHOOSE g : IsSum(g, U, w)]
           h == [U \in SUBSET T |-> IF U = {} THEN 0
                     ELSE w[Chosen(U)] + G[U \ {Chosen(U)}][U \ {Chosen(U)}]]
<1>3. ASSUME NEW U \in SUBSET T, U # T PROVE IsSum(G[U], U, w) /\ IsFiniteSet(U)
  <2>1. \E g : IsSum(g, U, w)
      BY <1>1, <1>2, <1>3
  <2>2. IsFiniteSet(U)
      BY <1>2, FS_Subset
  <2> QED
      BY <2>1, <2>2
<1>4. ASSUME NEW U \in SUBSET T
      PROVE  h[U] = IF U = {} THEN 0
                    ELSE w[Chosen(U)] + G[U \ {Chosen(U)}][U \ {Chosen(U)}]
    BY <1>4
<1>5. ASSUME NEW U \in SUBSET T, U # {}
      PROVE  Chosen(U) \in U /\ U \ {Chosen(U)} \in SUBSET T /\ U \ {Chosen(U)} # T
    BY <1>5 DEF Chosen
<1> HIDE DEF G, h
<1>6. ASSUME NEW V \in SUBSET T, V # T PROVE h[V] = G[V][V]
  <2>1. IsSum(G[V], V, w) /\ IsFiniteSet(V) /\ V \in SUBSET V
      BY <1>3, <1>6
  <2>2. CASE V = {}
    <3>1. G[V][V] = 0
        BY <2>1, <2>2, SumOfNone
    <3> QED
        BY <1>4, <2>2, <3>1
  <2>3. CASE V # {}
    <3> DEFINE W == V \ {Chosen(V)}
    <3>1. W \in SUBSET V /\ W \in SUBSET T /\ W # T
        BY <1>5, <2>3
    <3>2. G[V][V] = w[Chosen(V)] + G[V][W]
        BY <2>1, <2>3, SumStep
    <3>3. IsSum(G[W], W, w)
        BY <1>3, <3>1
    <3>4. W \in SUBSET W
        OBVIOUS
    <3>5. G[V][W] = G[W][W]
        BY <2>1, <3>1, <3>3, <3>4, SumsAgree
    <3>6. h[V] = w[Chosen(V)] + G[W][W]
        BY <1>4, <2>3
    <3> QED
        BY <3>2, <3>5, <3>6
  <2> QED
      BY <2>2, <2>3
<1>7. ASSUME NEW U \in SUBSET T
      PROVE  h[U] = IF U = {} THEN 0 ELSE w[Chosen(U)] + h[U \ {Chosen(U)}]
    BY <1>4, <1>5, <1>6
<1>8. h = [U \in SUBSET T |-> h[U]]
    BY DEF h
<1>9. IsSum(h, T, w)
    BY <1>7, <1>8 DEF IsSum
<1> QED
    BY <1>2, <1>9

LEMMA SumTyped ==
    ASSUME NEW D, IsFiniteSet(D), NEW w \in [D -> Nat], NEW g, IsSum(g, D, w)
    PROVE  \A T \in SUBSET D : g[T] \in Nat
<1> DEFINE P == {T \in SUBSET D : g[T] \notin Nat}
<1> SUFFICES ASSUME P # {} PROVE FALSE
    OBVIOUS
<1>1. PICK T \in P : \A U \in SUBSET T : U # T => U \notin P
  <2>1. P \subseteq (SUBSET D)
      OBVIOUS
  <2> HIDE DEF P
  <2> QED
      BY <2>1, LeastSubset
<1>2. T \in SUBSET D /\ g[T] \notin Nat
    BY <1>1
<1>3. T # {}
    BY <1>2, SumOfNone
<1> DEFINE x == Chosen(T)
           U == T \ {x}
<1>4. /\ x \in D /\ U \in SUBSET T /\ U \in SUBSET D /\ U # T
      /\ g[T] = w[x] + g[U]
    BY <1>2, <1>3, SumStep
<1>5. g[U] \in Nat
    BY <1>1, <1>4
<1> HIDE DEF x, U
<1>6. w[x] \in Nat
    BY <1>4
<1> QED
    BY <1>2, <1>4, <1>5, <1>6

(* The order does not matter: any element may come last.                   *)
LEMMA SumMinus ==
    ASSUME NEW D, IsFiniteSet(D), NEW w \in [D -> Nat], NEW g, IsSum(g, D, w),
           NEW S \in SUBSET D, NEW z \in S
    PROVE  g[S] = w[z] + g[S \ {z}]
<1> DEFINE Bad(T) == \E y \in T : g[T] # w[y] + g[T \ {y}]
           P == {T \in SUBSET D : Bad(T)}
<1> SUFFICES ASSUME P # {} PROVE FALSE
  <2>1. P = {} => ~Bad(S)
      OBVIOUS
  <2> QED
      BY <2>1
<1>1. PICK T \in P : \A U \in SUBSET T : U # T => U \notin P
  <2>1. P \subseteq (SUBSET D)
      OBVIOUS
  <2> HIDE DEF P
  <2> QED
      BY <2>1, LeastSubset
<1>2. T \in SUBSET D
    BY <1>1
<1>3. PICK y \in T : g[T] # w[y] + g[T \ {y}]
    BY <1>1
<1> DEFINE x == Chosen(T)
           U == T \ {x}
           V == T \ {y}
           W == (T \ {x}) \ {y}
<1>4. /\ x \in T /\ U \in SUBSET T /\ U \in SUBSET D /\ U # T
      /\ g[T] = w[x] + g[U]
    BY <1>2, <1>3, SumStep
<1>5. x # y
    BY <1>3, <1>4
<1>6. /\ y \in U /\ x \in V /\ V \in SUBSET T /\ V \in SUBSET D /\ V # T
      /\ U \ {y} = W /\ V \ {x} = W /\ W \in SUBSET D
    BY <1>2, <1>3, <1>4, <1>5
<1>7. ~Bad(U) /\ ~Bad(V)
    BY <1>1, <1>4, <1>6
<1>8. g[U] = w[y] + g[W] /\ g[V] = w[x] + g[W]
    BY <1>6, <1>7
<1>9. w[x] \in Nat /\ w[y] \in Nat /\ g[W] \in Nat
    BY SumTyped, <1>2, <1>3, <1>4, <1>6
<1> HIDE DEF x, U, V, W
<1>10. g[T] # w[y] + g[V]
    BY <1>3 DEF V
<1> QED
    BY <1>4, <1>8, <1>9, <1>10

LEMMA SumLast ==
    ASSUME NEW n \in Nat, NEW w \in [1 .. n + 1 -> Nat], NEW h, IsSum(h, 1 .. n + 1, w)
    PROVE  h[1 .. n + 1] = w[n + 1] + h[1 .. n] /\ h[1 .. n] \in Nat
<1> DEFINE E == 1 .. n + 1
           D == 1 .. n
<1>1. /\ n + 1 \in E /\ E \ {n + 1} = D /\ D \in SUBSET E /\ E \in SUBSET E
    OBVIOUS
<1>2. IsFiniteSet(E) /\ w \in [E -> Nat] /\ IsSum(h, E, w)
  <2>1. IsFiniteSet(E)
      BY FS_Interval
  <2> QED
      BY <2>1
<1> HIDE DEF E, D
<1>3. \A T \in SUBSET E : h[T] \in Nat
    BY <1>2, SumTyped
<1>4. h[E] = w[n + 1] + h[E \ {n + 1}]
    BY <1>1, <1>2, SumMinus
<1>5. h[D] \in Nat
    BY <1>1, <1>3
<1> QED
    BY <1>1, <1>4, <1>5 DEF D, E

(* The bytes of a sequence are such a sum, over the positions in it.       *)
Weights(s) == [i \in 1 .. Len(s) |-> Size[s[i]]]

LEMMA TotalSizeIsSum ==
    ASSUME NEW s \in Seq(Chunk)
    PROVE  \E g : IsSum(g, 1 .. Len(s), Weights(s)) /\ TotalSize(s) = g[1 .. Len(s)]
<1> DEFINE D == DOMAIN s
           IsFold(g) == g = [T \in SUBSET D |->
                    IF T = {} THEN 0
                    ELSE Size[s[CHOOSE x \in T : TRUE]] + g[T \ {CHOOSE x \in T : TRUE}]]
           it == CHOOSE g : IsFold(g)
<1>1. D = 1 .. Len(s) /\ Len(s) \in Nat
    BY LenProperties
<1>2. TotalSize(s) = it[D]
    BY DEF TotalSize, FoldSeq, FoldFunction, FoldFunctionOnSet, MapThenFoldSet
<1>3. ASSUME NEW g PROVE IsFold(g) <=> IsSum(g, D, Weights(s))
  <2>1. \A T \in SUBSET D : T # {} => Weights(s)[Chosen(T)] = Size[s[Chosen(T)]]
      BY <1>1 DEF Weights, Chosen
  <2>2. [T \in SUBSET D |-> IF T = {} THEN 0
             ELSE Size[s[Chosen(T)]] + g[T \ {Chosen(T)}]]
          = [T \in SUBSET D |-> IF T = {} THEN 0
             ELSE Weights(s)[Chosen(T)] + g[T \ {Chosen(T)}]]
      BY <2>1
  <2>3. IsFold(g) <=> g = [T \in SUBSET D |-> IF T = {} THEN 0
             ELSE Size[s[Chosen(T)]] + g[T \ {Chosen(T)}]]
      BY DEF Chosen
  <2> QED
      BY <2>2, <2>3 DEF IsSum
<1>4. \E g : IsSum(g, D, Weights(s))
  <2>1. IsFiniteSet(D)
      BY <1>1, FS_Interval
  <2> QED
      BY <2>1, SumsExist
<1> HIDE DEF IsFold
<1>5. \E g : IsFold(g)
    BY <1>3, <1>4
<1>6. IsFold(it)
    BY <1>5
<1>7. IsSum(it, 1 .. Len(s), Weights(s)) /\ TotalSize(s) = it[1 .. Len(s)]
    BY <1>1, <1>2, <1>3, <1>6
<1> QED
    BY <1>7

LEMMA WeightsTyped ==
    ASSUME NEW s \in Seq(Chunk)
    PROVE  /\ Len(s) \in Nat /\ IsFiniteSet(1 .. Len(s))
           /\ Weights(s) \in [1 .. Len(s) -> Nat]
<1>1. Len(s) \in Nat
    BY LenProperties
<1>2. ASSUME NEW i \in 1 .. Len(s) PROVE Size[s[i]] \in Nat
    BY <1>2, ElementOfSeq, SizeAssumption
<1>3. IsFiniteSet(1 .. Len(s))
    BY <1>1, FS_Interval
<1> QED
    BY <1>1, <1>2, <1>3 DEF Weights

LEMMA NoBytes == TotalSize(<<>>) = 0
<1>1. <<>> \in Seq(Chunk) /\ Len(<<>>) = 0
    BY EmptySeq
<1>2. PICK g : IsSum(g, 1 .. Len(<<>>), Weights(<<>>))
               /\ TotalSize(<<>>) = g[1 .. Len(<<>>)]
    BY <1>1, TotalSizeIsSum
<1>3. 1 .. Len(<<>>) = {}
    BY <1>1
<1> QED
    BY <1>2, <1>3, SumOfNone

(* One more chunk is as many bytes more.                                   *)
LEMMA OneMoreChunk ==
    ASSUME NEW s \in Seq(Chunk), NEW c \in Chunk
    PROVE  TotalSize(Append(s, c)) = TotalSize(s) + Size[c]
<1> DEFINE t == Append(s, c)
           D == 1 .. Len(s)
           E == 1 .. Len(t)
<1>1. /\ t \in Seq(Chunk) /\ Len(t) = Len(s) + 1 /\ t[Len(s) + 1] = c
      /\ \A i \in D : t[i] = s[i]
    BY AppendProperties
<1> HIDE DEF t
<1>2. /\ Len(s) \in Nat /\ IsFiniteSet(D) /\ Weights(s) \in [D -> Nat]
      /\ IsFiniteSet(E) /\ Weights(t) \in [E -> Nat]
    BY <1>1, WeightsTyped
<1>3. PICK g : IsSum(g, D, Weights(s)) /\ TotalSize(s) = g[D]
    BY TotalSizeIsSum
<1>4. PICK h : IsSum(h, E, Weights(t)) /\ TotalSize(t) = h[E]
    BY <1>1, TotalSizeIsSum
<1>5. Len(s) + 1 \in E /\ E \ {Len(s) + 1} = D /\ D \in SUBSET E /\ E \in SUBSET E
    BY <1>1, <1>2
<1>6. h[E] = Weights(t)[Len(s) + 1] + h[D] /\ h[D] \in Nat
  <2>1. E = 1 .. Len(s) + 1
      BY <1>1
  <2> HIDE DEF E
  <2> QED
      BY <1>2, <1>4, <2>1, SumLast
<1>7. Weights(t)[Len(s) + 1] = Size[c]
    BY <1>1, <1>5 DEF Weights
<1>8. h[D] = g[D]
  <2>1. IsSum(g, D, Weights(t))
    <3>1. \A T \in SUBSET D : T # {} => Weights(t)[Chosen(T)] = Weights(s)[Chosen(T)]
      <4>1. \A T \in SUBSET D : T # {} => Chosen(T) \in D
          BY DEF Chosen
      <4>2. \A i \in D : Weights(t)[i] = Weights(s)[i]
          BY <1>1, <1>5 DEF Weights
      <4> QED
          BY <4>1, <4>2
    <3> QED
        BY <1>3, <3>1 DEF IsSum
  <2>2. D \in SUBSET D
      OBVIOUS
  <2> QED
      BY <1>2, <1>4, <1>5, <2>1, <2>2, SumsAgree
<1>9. Size[c] \in Nat
    BY SizeAssumption
<1> QED
    BY <1>3, <1>4, <1>6, <1>7, <1>8, <1>9 DEF t

(* While a file is open, received_bytes are the bytes handed to write().   *)
BytesCounted ==
    current_file_handle # None => received_bytes = TotalSize(Output)

LEMMA BytesKeep ==
    ASSUME IInv, BytesCounted, [Next]_vars
    PROVE  BytesCounted'
<1>1. CASE \E m \in Message : OnMessage(m)
  <2>1. ASSUME NEW m \in Message, OnMetadata(m) PROVE BytesCounted'
    <3>1. m.filename \in File
        BY <2>1, MessageCases DEF OnMetadata
    <3>2. /\ current_file_handle' = m.filename /\ buffer' = <<>>
          /\ disk'[m.filename] = <<>> /\ received_bytes' = 0
        BY <2>1, <3>1, CloseTyped DEF OnMetadata, TakeMetadata, ResetCounters, IInv
    <3>3. Output' = <<>>
        BY <3>1, <3>2, NoneAssumption DEF Output
    <3> QED
        BY <3>2, <3>3, NoBytes DEF BytesCounted
  <2>2. ASSUME NEW m \in Message, OnChunk(m) PROVE BytesCounted'
    <3> DEFINE h == current_file_handle
               c == m.payload
    <3>1. /\ c \in Chunk /\ h # None /\ h \in File
          /\ current_file_handle' = h
          /\ received_bytes' = received_bytes + Size[c]
          /\ disk' = [disk EXCEPT ![h] = Written(h, c)]
          /\ buffer' = Kept(buffer, c)
        BY <2>2, MessageCases DEF OnChunk, IInv, TypeOK
    <3>2. /\ Written(h, c) \o Kept(buffer, c) = Append(Output, c)
          /\ Output \in Seq(Chunk)
        BY <3>1, WriteAppends, OutputCounted
    <3>3. disk'[h] = Written(h, c)
        BY <3>1 DEF IInv, TypeOK
    <3>4. Output' = Append(Output, c)
        BY <3>1, <3>2, <3>3 DEF Output
    <3>5. TotalSize(Append(Output, c)) = TotalSize(Output) + Size[c]
        BY <3>1, <3>2, OneMoreChunk
    <3> QED
        BY <3>1, <3>4, <3>5 DEF BytesCounted
  <2>3. ASSUME NEW m \in Message,
               OnLastChunk(m) \/ OnMetadataOpenFails(m) \/ OnStrayChunk(m)
        PROVE  BytesCounted'
      BY <2>3 DEF OnLastChunk, CloseFile, OnMetadataOpenFails, OnStrayChunk, BytesCounted
  <2> QED
      BY <1>1, <2>1, <2>2, <2>3 DEF OnMessage
<1>2. CASE Kill \/ Restart
    BY <1>2 DEF Kill, Restart, BytesCounted
<1>3. CASE UNCHANGED vars
    BY <1>3 DEF vars, transfer, BytesCounted, Output
<1> QED
    BY <1>1, <1>2, <1>3 DEF Next

(* client_b.py:124: the size in the row of an intact file is the size of   *)
(* the sender's file.  No byte of an earlier or an abandoned transfer is   *)
(* counted.                                                                *)
THEOREM SizesAreTheFiles == Spec => RowSize
<1>1. Init => BytesCounted
    BY DEF Init, BytesCounted
<1>2. ASSUME IInv, BytesCounted, [Next]_vars, rows' # rows, Last(rows').integrity_ok
      PROVE  Last(rows').file_size = TotalSize(Content[Last(rows').file])
  <2>1. PICK m \in Message : OnLastChunk(m)
      BY <1>2, RowsOnlyAtCompletion
  <2> DEFINE h == current_file_handle
             c == m.payload
  <2>2. /\ h \in File /\ h # None /\ c \in Chunk
        /\ Last(rows').file = h /\ Last(rows').file_size = received_bytes + Size[c]
        /\ Sha256(Content[h]) = Sha256(Written(h, c))
        /\ Written(h, c) \in Seq(Chunk) /\ Kept(buffer, c) \in Seq(Chunk)
        /\ Len(Written(h, c)) + Len(Kept(buffer, c)) = Len(Content[h])
        /\ Written(h, c) \o Kept(buffer, c) = Append(Output, c)
      BY <1>2, <2>1, LastChunkFacts
  <2>3. Append(Output, c) = Content[h]
    <3>1. Content[h] = Written(h, c) /\ Content[h] \in Seq(Chunk)
        BY <2>2, ContentTyped DEF Sha256
    <3> QED
        BY <2>2, <3>1, FullPrefix
  <2>4. Output \in Seq(Chunk) /\ received_bytes = TotalSize(Output)
      BY <1>2, <2>2, OutputCounted DEF BytesCounted
  <2>5. TotalSize(Content[h]) = received_bytes + Size[c]
      BY <2>2, <2>3, <2>4, OneMoreChunk
  <2> QED
      BY <2>2, <2>5
<1>3. IInv /\ BytesCounted /\ [Next]_vars
        => /\ BytesCounted'
           /\ rows' # rows /\ Last(rows').integrity_ok =>
                 Last(rows').file_size = TotalSize(Content[Last(rows').file])
    BY <1>2, BytesKeep
<1> QED
    BY <1>1, <1>3, Inductive, PTL DEF Spec, RowSize

-----------------------------------------------------------------------------
(* The receiver implements FileDelivery: one lemma per action, saying which *)
(* abstract step it takes.                                                  *)
LEMMA VerdictsAppend ==
    ASSUME rows \in Seq(Row), NEW row \in Row, rows' = Append(rows, row)
    PROVE  Verdicts' = Append(Verdicts, Verdict(row))
<1>1. /\ Len(rows) \in Nat /\ Len(rows') = Len(rows) + 1
      /\ \A i \in 1 .. Len(rows) : rows'[i] = rows[i]
      /\ rows'[Len(rows) + 1] = row /\ rows' \in Seq(Row)
    BY AppendProperties
<1>2. DOMAIN rows = 1 .. Len(rows) /\ DOMAIN rows' = 1 .. Len(rows) + 1
    BY <1>1
<1>3. /\ Verdicts = [i \in 1 .. Len(rows) |-> Verdict(rows[i])]
      /\ Verdicts' = [i \in 1 .. Len(rows) + 1 |-> Verdict(rows'[i])]
    BY <1>2 DEF Verdicts, Verdict
<1> HIDE DEF Verdicts, Verdict
<1> QED
    BY <1>1, <1>3

(* No new row, no new verdict.                                             *)
LEMMA SameVerdicts == rows' = rows => Verdicts' = Verdicts
  BY DEF Verdicts, Verdict

(* Metadata begins a delivery.                                             *)
LEMMA MetadataBegins ==
    ASSUME IInv, NEW m \in Message, OnMetadata(m)
    PROVE  Delivery!Next
<1>1. m.filename \in File
    BY MessageCases DEF OnMetadata
<1>2. /\ current_file_handle' = m.filename /\ buffer' = <<>>
      /\ disk'[m.filename] = <<>> /\ rows' = rows
    BY <1>1, CloseTyped DEF OnMetadata, IInv
<1>3. Output' = <<>>
    BY <1>1, <1>2, NoneAssumption DEF Output
<1>4. Delivery!Begin(m.filename)
    BY <1>2, <1>3, SameVerdicts DEF Delivery!Begin
<1> QED
    BY <1>1, <1>4 DEF Delivery!Next

(* A chunk that is not the last one is received in order.                  *)
LEMMA ChunkReceives ==
    ASSUME IInv, NEW m \in Message, OnChunk(m)
    PROVE  Delivery!Next
<1>1. /\ m.payload \in Chunk /\ current_file_handle # None
      /\ current_file_handle \in File
      /\ received_chunks + 1 # expected_chunks /\ rows' = rows
      /\ current_file_handle' = current_file_handle
    BY MessageCases DEF OnChunk, IInv, TypeOK
<1>2. /\ Written(current_file_handle, m.payload) \o Kept(buffer, m.payload)
           = Append(Output, m.payload)
      /\ Written(current_file_handle, m.payload) \in Seq(Chunk)
    BY <1>1, WriteAppends
<1>3. /\ disk' = [disk EXCEPT ![current_file_handle] =
                      Written(current_file_handle, m.payload)]
      /\ buffer' = Kept(buffer, m.payload)
    BY DEF OnChunk
<1>4. disk'[current_file_handle] = Written(current_file_handle, m.payload)
    BY <1>1, <1>3 DEF IInv, TypeOK
<1>5. Output' = Append(Output, m.payload)
    BY <1>1, <1>2, <1>3, <1>4 DEF Output
<1>6. Len(Output) + 1 # Len(Content[current_file_handle])
    BY <1>1, OutputCounted
<1>7. Delivery!Receive(m.payload)
    BY <1>1, <1>5, <1>6, SameVerdicts DEF Delivery!Receive
<1> QED
    BY <1>1, <1>7 DEF Delivery!Next

(* The chunk that completes a transfer reports the verdict on it.          *)
LEMMA LastChunkReports ==
    ASSUME IInv, NEW m \in Message, OnLastChunk(m)
    PROVE  Delivery!Next
<1> DEFINE h == current_file_handle
           c == m.payload
           ok == Last(rows').integrity_ok
<1>1. /\ h \in File /\ h # None /\ c \in Chunk
      /\ rows' = Append(rows, Last(rows')) /\ Last(rows') \in Row
      /\ Last(rows').file = h
      /\ ok = (Sha256(Content[h]) = Sha256(Written(h, c)))
      /\ Written(h, c) \in Seq(Chunk) /\ Kept(buffer, c) \in Seq(Chunk)
      /\ Len(Written(h, c)) + Len(Kept(buffer, c)) = Len(Content[h])
      /\ Written(h, c) \o Kept(buffer, c) = Append(Output, c)
      /\ buffer' = <<>> /\ current_file_handle' = None
    BY LastChunkFacts
<1>2. Output' = <<>>
    BY <1>1 DEF Output
<1>3. Len(Output) + 1 = Len(Content[h])
  <2>1. received_chunks + 1 = expected_chunks
      BY DEF OnLastChunk, CloseFile
  <2> QED
      BY <1>1, <2>1, OutputCounted
<1>4. ok \in BOOLEAN
    BY <1>1 DEF Row
<1>5. ASSUME ok PROVE Append(Output, c) = Content[h]
  <2>1. Content[h] = Written(h, c) /\ Content[h] \in Seq(Chunk)
      BY <1>1, <1>5, ContentTyped DEF Sha256
  <2> QED
      BY <1>1, <2>1, FullPrefix
<1>6. Verdicts' = Append(Verdicts, [file |-> h, ok |-> ok])
    BY <1>1, VerdictsAppend DEF Verdict, IInv, TypeOK
<1> HIDE DEF ok
<1>7. Delivery!Report(c, ok)
    BY <1>1, <1>2, <1>3, <1>5, <1>6 DEF Delivery!Report
<1> QED
    BY <1>1, <1>4, <1>7 DEF Delivery!Next

(* Every step of the receiver is one of FileDelivery or a stutter.         *)
LEMMA StepRefines ==
    IInv /\ [Next]_vars => [Delivery!Next]_(Delivery!dvars)
<1> SUFFICES ASSUME IInv, [Next]_vars
             PROVE  Delivery!Next \/ UNCHANGED Delivery!dvars
    OBVIOUS
<1>1. ASSUME NEW m \in Message, OnMetadataOpenFails(m)
      PROVE  Delivery!Abandon
    BY <1>1, SameVerdicts DEF OnMetadataOpenFails, Output, Delivery!Abandon
<1>2. ASSUME NEW m \in Message, OnStrayChunk(m)
      PROVE  UNCHANGED Delivery!dvars
    BY <1>2, SameVerdicts DEF OnStrayChunk, Output, Delivery!dvars
<1>3. CASE Kill
    BY <1>3, SameVerdicts DEF Kill, Output, Delivery!Abandon, Delivery!Next
<1>4. CASE Restart
    BY <1>4, SameVerdicts
       DEF Restart, IInv, GlobalsDescribeHandle, Output, Delivery!dvars
<1>5. CASE UNCHANGED vars
    BY <1>5, SameVerdicts DEF vars, Output, Delivery!dvars
<1>6. CASE \E m \in Message : OnMessage(m)
    BY <1>1, <1>2, <1>6, MetadataBegins, ChunkReceives, LastChunkReports
       DEF OnMessage, Delivery!Next
<1> QED
    BY <1>3, <1>4, <1>5, <1>6 DEF Next

(* client_b.py implements FileDelivery: at most one verdict per transfer,  *)
(* given when the announced count is reached, and never "OK" for anything  *)
(* but the announced content.                                              *)
THEOREM ImplementsDelivery == Spec => DeliverySpec
<1>1. Init => Delivery!Init
  <2>1. ASSUME Init PROVE Verdicts = <<>>
      BY <2>1 DEF Init, Verdicts
  <2> QED
      BY <2>1 DEF Init, Output, Delivery!Init
<1> QED
    BY <1>1, Inductive, StepRefines, PTL DEF Spec, DeliverySpec, Delivery!Spec
=============================================================================
