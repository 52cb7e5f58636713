-------------------------- MODULE SharedDataProofs --------------------------
(***************************************************************************)
(* Proofs about SharedData: what is left of files that are received over   *)
(* themselves, for all files and any list of sends.                        *)
(***************************************************************************)
EXTENDS SharedData, MqttReceiverProofs

-----------------------------------------------------------------------------
(* Types.                                                                  *)
SharedMessage ==
    [topic : {TOPIC_CTRL}, filename : File, total_chunks : Nat,
     checksum : Digest, qos : {"X"}]
    \cup [topic : {TOPIC_DATA}, payload : Chunk \cup {None}]

SharedRow ==
    [file : File \cup {None}, qos : {"X", None}, file_size : Nat,
     receiver_duration : Int, latency : Int, integrity_ok : BOOLEAN]

ReceiverTyped ==
    /\ alive \in BOOLEAN
    /\ current_file_handle \in File \cup {None}
    /\ current_filename \in File \cup {None}
    /\ expected_chunks \in Nat /\ received_chunks \in Nat
    /\ received_bytes \in Nat /\ start_latency \in Int
    /\ metadata_arrival_time \in Int /\ transfer_start_time \in Int /\ now \in Int
    /\ current_qos \in {"X", None}
    /\ disk \in [File -> Seq(Chunk)]
    /\ buffer \in Seq(Chunk)
    /\ rows \in Seq(SharedRow)

DirectoryTyped ==
    /\ exists \subseteq File /\ overlapped \subseteq File
    /\ send \in Nat \ {0}
    /\ stage \in {"idle", "hash", "chunks"}
    /\ total_chunks \in Nat /\ chunk_num \in Nat /\ position \in Nat
    /\ hashed \in Seq(Chunk)
    /\ inbox \in Seq(SharedMessage)
    /\ announced \in Seq(File)

(* The open file is the one the globals name, and it lacks chunks, unless  *)
(* none were announced.                                                    *)
Described ==
    /\ current_file_handle # None =>
          /\ alive
          /\ current_filename = current_file_handle
          /\ received_chunks < expected_chunks \/ expected_chunks = 0
          /\ received_chunks <= expected_chunks
    /\ stage # "idle" => send <= Len(Sends)
    /\ stage = "chunks" => chunk_num <= total_chunks

(* Only files that exist are measured, announced and received.             *)
Known ==
    /\ current_file_handle # None => current_file_handle \in exists
    /\ stage # "idle" => filename \in exists
    /\ \A i \in 1 .. Len(inbox) :
          inbox[i].topic = TOPIC_CTRL => inbox[i].filename \in exists

-----------------------------------------------------------------------------
(* As many chunk messages follow metadata as it announces: after place k   *)
(* there are n of them, and then the next metadata or the end of what has  *)
(* been sent, m short of what the sender is about to send.                 *)
Followed(q, k, n, m) ==
    /\ \A i \in k + 1 .. k + n : i <= Len(q) => q[i].topic = TOPIC_DATA
    /\ \/ k + n = Len(q) + m
       \/ k + n < Len(q) /\ q[k + n + 1].topic = TOPIC_CTRL

(* What the sender has still to send, and the receiver to receive. *)
Pending == IF stage = "chunks" THEN total_chunks - chunk_num ELSE 0
Lacks == IF current_file_handle = None THEN 0 ELSE expected_chunks - received_chunks

Gapless ==
    /\ Followed(inbox, 0, Lacks, Pending)
    /\ \A k \in 1 .. Len(inbox) :
          inbox[k].topic = TOPIC_CTRL =>
              Followed(inbox, k, inbox[k].total_chunks, Pending)

(* Whose chunk a message carries, and which one: the message e, behind     *)
(* chunk r of file g, is chunk p of file f.                                *)
Places(e, g, r, f, p) ==
    IF e.topic = TOPIC_CTRL THEN f = e.filename /\ p = 0
    ELSE /\ f = g
         /\ IF e.payload = None THEN p = r
            ELSE /\ p = r + 1
                 /\ f \in File
                 /\ p <= Len(Content[f])
                 /\ e.payload = Content[f][p]

Placed(q, F, P) ==
    \A i \in 1 .. Len(q) : Places(q[i], F[i - 1], P[i - 1], F[i], P[i])

(* The inbox goes on where the receiver is, and the sender where the inbox *)
(* ends.                                                                   *)
Traced ==
    \E F \in [0 .. Len(inbox) -> File \cup {None}], P \in [0 .. Len(inbox) -> Nat] :
        /\ Placed(inbox, F, P)
        /\ current_file_handle # None =>
              F[0] = current_file_handle /\ P[0] = Len(Output)
        /\ Pending > 0 => F[Len(inbox)] = filename /\ P[Len(inbox)] = position

(* How many transfers of the list a have been announced up to a message,   *)
(* which is the number of the transfer it is of: m before message e, n     *)
(* with it.                                                                *)
Numbers(a, e, m, n) ==
    IF e.topic = TOPIC_CTRL /\ e.total_chunks > 0
    THEN n = m + 1 /\ a[n] = e.filename
    ELSE n = m

Numbered(a, q, N) == \A i \in 1 .. Len(q) : Numbers(a, q[i], N[i - 1], N[i])

(* What was announced is what has a row, then the open transfer, then what *)
(* the inbox announces.                                                    *)
Answered ==
    \E N \in [0 .. Len(inbox) -> 0 .. Len(announced)] :
        /\ Numbered(announced, inbox, N)
        /\ N[0] = Len(rows) + (IF Lacks > 0 THEN 1 ELSE 0)
        /\ N[Len(inbox)] = Len(announced)
        /\ Lacks > 0 => announced[N[0]] = current_file_handle
        /\ \A i \in 1 .. Len(rows) : rows[i].file = announced[i]

(* The receiver has died and messages are left over, for good.             *)
Stuck == ~alive /\ Len(inbox) + Pending > 0

Begins(s, t) == Len(s) <= Len(t) /\ \A i \in 1 .. Len(s) : s[i] = t[i]

Beginnings ==
    /\ \A f \in File : Begins(disk[f], Content[f])
    /\ current_file_handle # None => Begins(Output, Content[current_file_handle])

-----------------------------------------------------------------------------
(* The files of which the source should be intact.                         *)
Spotless ==
    {f \in exists \ (overlapped \cup cut) :
        \A i \in 1 .. Len(rows) : rows[i].file = f => rows[i].integrity_ok}

Intact(f) ==
    /\ current_file_handle # f => disk[f] = Content[f]
    /\ current_file_handle = f =>
          /\ expected_chunks = Len(Content[f])
          /\ expected_checksum = Sha256(Content[f])
    /\ \A i \in 1 .. Len(inbox) :
          inbox[i].topic = TOPIC_CTRL /\ inbox[i].filename = f =>
              /\ inbox[i].total_chunks = Len(Content[f])
              /\ inbox[i].checksum = Sha256(Content[f])
    /\ stage = "hash" /\ filename = f =>
          /\ ~Busy(f)
          /\ total_chunks = Len(Content[f])
          /\ Begins(hashed, Content[f])

SharedInv ==
    /\ ReceiverTyped /\ DirectoryTyped /\ Described /\ Known /\ Beginnings
    /\ Stuck \/ (Gapless /\ Traced /\ Answered)
    /\ \A f \in Spotless : Intact(f)
-----------------------------------------------------------------------------
(* Queues of messages: a message joins at the end, one leaves at the front. *)
LEMMA QueueFacts ==
    ASSUME NEW q \in Seq(SharedMessage)
    PROVE  /\ Len(q) \in Nat
           /\ \A i \in 1 .. Len(q) :
                 /\ q[i] \in SharedMessage
                 /\ \/ /\ q[i].topic = TOPIC_CTRL /\ q[i].topic # TOPIC_DATA
                       /\ q[i].filename \in File /\ q[i].total_chunks \in Nat
                       /\ q[i].checksum \in Digest /\ q[i].qos = "X"
                    \/ /\ q[i].topic = TOPIC_DATA /\ q[i].topic # TOPIC_CTRL
                       /\ q[i].payload \in Chunk \cup {None}
<1>1. Len(q) \in Nat /\ \A i \in 1 .. Len(q) : q[i] \in SharedMessage
    BY LenProperties, ElementOfSeq
<1>2. \A e \in SharedMessage :
         \/ /\ e.topic = TOPIC_CTRL /\ e.topic # TOPIC_DATA
            /\ e.filename \in File /\ e.total_chunks \in Nat
            /\ e.checksum \in Digest /\ e.qos = "X"
         \/ /\ e.topic = TOPIC_DATA /\ e.topic # TOPIC_CTRL
            /\ e.payload \in Chunk \cup {None}
    BY DEF SharedMessage, TOPIC_CTRL, TOPIC_DATA
<1> QED
    BY <1>1, <1>2

LEMMA QueueAppend ==
    ASSUME NEW q \in Seq(SharedMessage), NEW e \in SharedMessage
    PROVE  /\ Append(q, e) \in Seq(SharedMessage)
           /\ Len(q) \in Nat /\ Len(Append(q, e)) = Len(q) + 1
           /\ \A i \in 1 .. Len(q) : Append(q, e)[i] = q[i]
           /\ Append(q, e)[Len(q) + 1] = e
  BY LenProperties, AppendProperties

LEMMA QueueTail ==
    ASSUME NEW q \in Seq(SharedMessage), q # <<>>
    PROVE  /\ Len(q) \in Nat \ {0} /\ 1 \in 1 .. Len(q)
           /\ Head(q) = q[1] /\ Head(q) \in SharedMessage
           /\ Tail(q) \in Seq(SharedMessage) /\ Len(Tail(q)) = Len(q) - 1
           /\ \A i \in 1 .. Len(Tail(q)) :
                 Tail(q)[i] = q[i + 1] /\ i + 1 \in 1 .. Len(q)
<1>1. Len(q) \in Nat \ {0}
    BY LenProperties, EmptySeq
<1> QED
    BY <1>1, HeadTailProperties, QueueFacts

(* A chunk message joins: the sender has one fewer to send.                *)
LEMMA FollowedByChunk ==
    ASSUME NEW q \in Seq(SharedMessage), NEW e \in SharedMessage,
           e.topic = TOPIC_DATA,
           NEW k \in 0 .. Len(q), NEW n \in Nat, NEW m \in Nat \ {0},
           Followed(q, k, n, m)
    PROVE  Followed(Append(q, e), k, n, m - 1)
<1> DEFINE r == Append(q, e)
<1>1. /\ Len(q) \in Nat /\ Len(r) = Len(q) + 1
      /\ \A i \in 1 .. Len(q) : r[i] = q[i]
      /\ r[Len(q) + 1] = e
    BY QueueAppend
<1> HIDE DEF r
<1>2. \A i \in k + 1 .. k + n : i <= Len(r) => r[i].topic = TOPIC_DATA
  <2> SUFFICES ASSUME NEW i \in k + 1 .. k + n, i <= Len(r)
               PROVE  r[i].topic = TOPIC_DATA
      OBVIOUS
  <2>1. i \in 1 .. Len(q) \/ i = Len(q) + 1
      BY <1>1
  <2> QED
      BY <1>1, <2>1 DEF Followed
<1>3. CASE k + n = Len(q) + m
    BY <1>1, <1>2, <1>3 DEF Followed, r
<1>4. CASE k + n < Len(q) /\ q[k + n + 1].topic = TOPIC_CTRL
  <2>1. k + n + 1 \in 1 .. Len(q)
      BY <1>1, <1>4
  <2>2. r[k + n + 1] = q[k + n + 1] /\ k + n < Len(r)
      BY <1>1, <1>4, <2>1
  <2> QED
      BY <1>2, <1>4, <2>2 DEF Followed, r
<1> QED
    BY <1>3, <1>4 DEF Followed

(* Metadata joins, when nothing is left to send.                           *)
LEMMA FollowedByMetadata ==
    ASSUME NEW q \in Seq(SharedMessage), NEW e \in SharedMessage,
           e.topic = TOPIC_CTRL,
           NEW k \in 0 .. Len(q), NEW n \in Nat, NEW m \in Nat,
           Followed(q, k, n, 0)
    PROVE  Followed(Append(q, e), k, n, m)
<1> DEFINE r == Append(q, e)
<1>1. /\ Len(q) \in Nat /\ Len(r) = Len(q) + 1
      /\ \A i \in 1 .. Len(q) : r[i] = q[i]
      /\ r[Len(q) + 1] = e
    BY QueueAppend
<1> HIDE DEF r
<1>2. k + n <= Len(q)
    BY <1>1 DEF Followed
<1>3. \A i \in k + 1 .. k + n : r[i].topic = TOPIC_DATA
  <2> SUFFICES ASSUME NEW i \in k + 1 .. k + n
               PROVE  r[i].topic = TOPIC_DATA
      OBVIOUS
  <2>1. i \in 1 .. Len(q) /\ i <= Len(q)
      BY <1>1, <1>2
  <2> QED
      BY <1>1, <2>1 DEF Followed
<1>4. k + n < Len(r) /\ r[k + n + 1].topic = TOPIC_CTRL
  <2>1. CASE k + n = Len(q)
      BY <1>1, <2>1
  <2>2. CASE k + n < Len(q)
    <3>1. k + n + 1 \in 1 .. Len(q) /\ k + n # Len(q) + 0
        BY <1>1, <2>2
    <3> QED
        BY <1>1, <2>2, <3>1 DEF Followed
  <2> QED
      BY <1>1, <1>2, <2>1, <2>2
<1> QED
    BY <1>3, <1>4 DEF Followed, r

LEMMA FollowedBehind ==
    ASSUME NEW q, NEW m \in Nat, Len(q) \in Nat
    PROVE  Followed(q, Len(q), m, m)
  BY DEF Followed

(* A message leaves.                                                       *)
LEMMA FollowedShift ==
    ASSUME NEW q \in Seq(SharedMessage), q # <<>>, NEW k \in 1 .. Len(q),
           NEW n \in Nat, NEW m \in Nat, Followed(q, k, n, m)
    PROVE  Followed(Tail(q), k - 1, n, m)
<1> DEFINE r == Tail(q)
<1>1. /\ Len(q) \in Nat \ {0} /\ Len(r) = Len(q) - 1
      /\ \A i \in 1 .. Len(r) : r[i] = q[i + 1]
    BY QueueTail
<1> HIDE DEF r
<1>2. \A i \in (k - 1) + 1 .. (k - 1) + n : i <= Len(r) => r[i].topic = TOPIC_DATA
  <2> SUFFICES ASSUME NEW i \in (k - 1) + 1 .. (k - 1) + n, i <= Len(r)
               PROVE  r[i].topic = TOPIC_DATA
      OBVIOUS
  <2>1. i \in 1 .. Len(r) /\ i + 1 \in k + 1 .. k + n /\ i + 1 <= Len(q)
      BY <1>1
  <2> QED
      BY <1>1, <2>1 DEF Followed
<1>3. CASE k + n = Len(q) + m
  <2>1. (k - 1) + n = Len(r) + m
      BY <1>1, <1>3
  <2> QED
      BY <1>2, <2>1 DEF Followed, r
<1>4. CASE k + n < Len(q) /\ q[k + n + 1].topic = TOPIC_CTRL
  <2>1. /\ (k - 1) + n + 1 \in 1 .. Len(r) /\ ((k - 1) + n + 1) + 1 = k + n + 1
        /\ (k - 1) + n < Len(r)
      BY <1>1, <1>4
  <2>2. r[(k - 1) + n + 1] = q[k + n + 1]
      BY <1>1, <2>1
  <2> QED
      BY <1>2, <1>4, <2>1, <2>2 DEF Followed, r
<1> QED
    BY <1>3, <1>4 DEF Followed

(* The first message is a chunk exactly when the receiver lacks one.       *)
LEMMA FollowedFirst ==
    ASSUME NEW q \in Seq(SharedMessage), q # <<>>,
           NEW n \in Nat, NEW m \in Nat, Followed(q, 0, n, m)
    PROVE  /\ q[1].topic = TOPIC_CTRL => n = 0
           /\ q[1].topic = TOPIC_DATA => n > 0 /\ Followed(Tail(q), 0, n - 1, m)
<1>1. /\ Len(q) \in Nat \ {0} /\ 1 \in 1 .. Len(q)
      /\ q[1].topic = TOPIC_DATA => q[1].topic # TOPIC_CTRL
    BY QueueTail, QueueFacts
<1>2. n > 0 => q[1].topic = TOPIC_DATA
    BY <1>1 DEF Followed
<1>3. n = 0 => q[1].topic = TOPIC_CTRL
    BY <1>1 DEF Followed
<1>4. ASSUME n > 0 PROVE Followed(Tail(q), 0, n - 1, m)
  <2>1. Followed(q, 1, n - 1, m)
    <3>1. 1 + (n - 1) = 0 + n /\ 1 + (n - 1) + 1 = 0 + n + 1 /\ n - 1 \in Nat
        BY <1>4
    <3>2. \A i \in 1 + 1 .. 1 + (n - 1) : i \in 0 + 1 .. 0 + n
        OBVIOUS
    <3> QED
        BY <3>1, <3>2 DEF Followed
  <2>2. Followed(Tail(q), 1 - 1, n - 1, m)
      BY <1>1, <1>4, <2>1, FollowedShift
  <2> QED
      BY <2>2
<1> QED
    BY <1>1, <1>2, <1>3, <1>4
-----------------------------------------------------------------------------
(* What a delivery does, in terms of what the invariant speaks of.         *)
Same ==
    /\ alive' = alive /\ current_filename' = current_filename
    /\ expected_chunks' = expected_chunks
    /\ expected_checksum' = expected_checksum

Opens(m) ==
    /\ m.topic = TOPIC_CTRL /\ alive /\ alive'
    /\ current_file_handle' = m.filename /\ current_filename' = m.filename
    /\ expected_chunks' = m.total_chunks /\ received_chunks' = 0
    /\ expected_checksum' = m.checksum
    /\ disk' = [DiskAfterClose EXCEPT ![m.filename] = <<>>] /\ buffer' = <<>>
    /\ rows' = rows

Dies(m) ==
    /\ m.topic = TOPIC_CTRL /\ alive /\ ~alive'
    /\ current_file_handle' = None
    /\ disk' = DiskAfterClose /\ buffer' = <<>>
    /\ rows' = rows

(* A chunk or an empty message, and what the output is with it.            *)
Given(m) == IF m.payload = None THEN Output ELSE Append(Output, m.payload)

Takes(m) ==
    /\ m.topic = TOPIC_DATA /\ current_file_handle # None
    /\ received_chunks + 1 # expected_chunks
    /\ Same /\ received_chunks' = received_chunks + 1
    /\ current_file_handle' = current_file_handle
    /\ rows' = rows
    /\ Output' = Given(m)
    /\ \E s \in Seq(Chunk) : disk' = [disk EXCEPT ![current_file_handle] = s]

Completes(m) ==
    /\ m.topic = TOPIC_DATA /\ current_file_handle # None
    /\ received_chunks + 1 = expected_chunks
    /\ Same /\ received_chunks' = received_chunks + 1
    /\ current_file_handle' = None
    /\ disk' = [disk EXCEPT ![current_file_handle] = Given(m)] /\ buffer' = <<>>
    /\ \E s, t \in Seq(Chunk), row \in SharedRow :
          /\ s \o t = Given(m)
          /\ rows' = Append(rows, row)
          /\ row.file = current_filename
          /\ row.integrity_ok <=> expected_checksum = Sha256(s)

Ignores(m) ==
    /\ m.topic = TOPIC_DATA /\ alive /\ current_file_handle = None
    /\ UNCHANGED <<alive, current_file_handle, transfer, disk, buffer, rows>>

LEMMA OutputTyped ==
    ASSUME ReceiverTyped, current_file_handle # None
    PROVE  /\ current_file_handle \in File
           /\ disk[current_file_handle] \in Seq(Chunk) /\ buffer \in Seq(Chunk)
           /\ Output = disk[current_file_handle] \o buffer
           /\ Output \in Seq(Chunk)
<1>1. /\ current_file_handle \in File
      /\ disk[current_file_handle] \in Seq(Chunk) /\ buffer \in Seq(Chunk)
      /\ Output = disk[current_file_handle] \o buffer
    BY DEF ReceiverTyped, Output
<1>2. disk[current_file_handle] \o buffer \in Seq(Chunk)
    BY <1>1, ConcatProperties
<1> QED
    BY <1>1, <1>2

LEMMA ClosedTyped ==
    ASSUME ReceiverTyped
    PROVE  /\ DiskAfterClose \in [File -> Seq(Chunk)]
           /\ \A f \in File : DiskAfterClose[f] =
                 IF f = current_file_handle THEN Output ELSE disk[f]
<1>1. CASE current_file_handle = None
    BY <1>1, NoneAssumption DEF ReceiverTyped, DiskAfterClose
<1>2. CASE current_file_handle # None
    BY <1>2, OutputTyped DEF ReceiverTyped, DiskAfterClose
<1> QED
    BY <1>1, <1>2

(* The types of a receiver after a message with a chunk or without.        *)
ClocksTyped ==
    /\ start_latency \in Int /\ metadata_arrival_time \in Int
    /\ transfer_start_time \in Int /\ now \in Int

LEMMA ClocksKept ==
    ASSUME ReceiverTyped, NEW c, TakeChunk(c)
    PROVE  /\ ClocksTyped' /\ received_chunks' = received_chunks + 1
           /\ received_chunks' \in Nat /\ Same
           /\ current_qos' = current_qos
  BY DEF ReceiverTyped, ClocksTyped, TakeChunk, NoteFirstChunk, Same

LEMMA VerdictRow ==
    ASSUME ReceiverTyped, ClocksTyped', NEW bytes \in Nat, NEW onDisk,
           TransferCompleted(bytes, onDisk)
    PROVE  \E row \in SharedRow :
              /\ rows' = Append(rows, row)
              /\ row.file = current_filename
              /\ row.integrity_ok <=> expected_checksum = Sha256(onDisk)
<1> DEFINE ok == expected_checksum = Sha256(onDisk)
           duration == now' - transfer_start_time'
           row == [file |-> current_filename, qos |-> current_qos,
                   file_size |-> bytes, receiver_duration |-> duration,
                   latency |-> start_latency', integrity_ok |-> ok]
<1>1. ok \in BOOLEAN /\ duration \in Int /\ start_latency' \in Int
    BY DEF ClocksTyped
<1>2. current_filename \in File \cup {None} /\ current_qos \in {"X", None}
    BY DEF ReceiverTyped
<1>3. rows' = Append(rows, row)
    BY DEF TransferCompleted, RowOf
<1> HIDE DEF ok, duration
<1>4. row \in SharedRow /\ row.file = current_filename /\ row.integrity_ok = ok
    BY <1>1, <1>2 DEF SharedRow
<1> QED
    BY <1>3, <1>4 DEF ok

(* Writing to the open file.                                               *)
LEMMA Writes ==
    ASSUME ReceiverTyped, current_file_handle # None, NEW c \in Chunk
    PROVE  /\ Written(current_file_handle, c) \in Seq(Chunk)
           /\ Kept(buffer, c) \in Seq(Chunk)
           /\ Written(current_file_handle, c) \o Kept(buffer, c) = Append(Output, c)
<1> DEFINE h == current_file_handle
<1>1. disk[h] \in Seq(Chunk) /\ buffer \in Seq(Chunk) /\ Output = disk[h] \o buffer
    BY OutputTyped
<1>2. Kept(buffer, c) \in Seq(Chunk) /\ Flushed(buffer, c) \in Seq(Chunk)
    BY <1>1, WriterKeepsOrder
<1>3. Written(h, c) \in Seq(Chunk)
    BY <1>1, <1>2, ConcatProperties DEF Written
<1>4. (disk[h] \o Flushed(buffer, c)) \o Kept(buffer, c)
         = Append(disk[h] \o buffer, c)
    BY <1>1, WriterAppends
<1> QED
    BY <1>1, <1>2, <1>3, <1>4 DEF Written

(* on_message of a chunk that is not the last.                             *)
LEMMA ChunkTaken ==
    ASSUME ReceiverTyped, NEW m \in SharedMessage, m # ChunkMessage(None), OnChunk(m)
    PROVE  Takes(m) /\ ReceiverTyped'
<1> DEFINE h == current_file_handle
           s == Written(h, m.payload)
<1>1. /\ m.topic = TOPIC_DATA /\ h # None /\ received_chunks + 1 # expected_chunks
      /\ TakeChunk(m.payload)
      /\ disk' = [disk EXCEPT ![h] = s] /\ buffer' = Kept(buffer, m.payload)
      /\ current_file_handle' = h /\ rows' = rows
      /\ received_bytes' = received_bytes + Size[m.payload]
    BY DEF OnChunk
<1>2. m.payload \in Chunk /\ m.payload # None
  <2>1. m.payload \in Chunk \cup {None} /\ m = ChunkMessage(m.payload)
      BY <1>1 DEF SharedMessage, ChunkMessage, TOPIC_CTRL, TOPIC_DATA
  <2> QED
      BY <2>1
<1>3. /\ s \in Seq(Chunk) /\ Kept(buffer, m.payload) \in Seq(Chunk)
      /\ s \o Kept(buffer, m.payload) = Append(Output, m.payload)
    BY <1>1, <1>2, Writes
<1>4. /\ ClocksTyped' /\ received_chunks' = received_chunks + 1
      /\ received_chunks' \in Nat /\ Same /\ current_qos' = current_qos
    BY <1>1, ClocksKept
<1> HIDE DEF s
<1>5. h \in File /\ disk'[h] = s /\ disk' \in [File -> Seq(Chunk)]
    BY <1>1, <1>3 DEF ReceiverTyped
<1>6. Output' = Given(m)
    BY <1>1, <1>2, <1>3, <1>5 DEF Output, Given
<1>7. received_bytes' \in Nat
    BY <1>1, <1>2, SizeAssumption DEF ReceiverTyped
<1>8. ReceiverTyped'
    BY <1>1, <1>3, <1>4, <1>5, <1>7 DEF ReceiverTyped, ClocksTyped, Same
<1> QED
    BY <1>1, <1>3, <1>4, <1>6, <1>8 DEF Takes

(* on_message of the last chunk.                                           *)
LEMMA LastChunkTaken ==
    ASSUME ReceiverTyped, Described, NEW m \in SharedMessage, m # ChunkMessage(None),
           OnLastChunk(m)
    PROVE  Completes(m) /\ ReceiverTyped'
<1> DEFINE h == current_file_handle
           s == Written(h, m.payload)
           t == Kept(buffer, m.payload)
<1>1. /\ m.topic = TOPIC_DATA /\ h # None /\ received_chunks + 1 = expected_chunks
      /\ TakeChunk(m.payload)
      /\ TransferCompleted(received_bytes + Size[m.payload],
                           Written(current_filename, m.payload))
      /\ disk' = [disk EXCEPT ![h] = s \o t]
      /\ buffer' = <<>> /\ current_file_handle' = None /\ received_bytes' = 0
    BY DEF OnLastChunk, CloseFile
<1>2. m.payload \in Chunk /\ m.payload # None
  <2>1. m.payload \in Chunk \cup {None} /\ m = ChunkMessage(m.payload)
      BY <1>1 DEF SharedMessage, ChunkMessage, TOPIC_CTRL, TOPIC_DATA
  <2> QED
      BY <2>1
<1>3. /\ s \in Seq(Chunk) /\ t \in Seq(Chunk)
      /\ s \o t = Append(Output, m.payload)
    BY <1>1, <1>2, Writes
<1>4. /\ ClocksTyped' /\ received_chunks' = received_chunks + 1
      /\ received_chunks' \in Nat /\ Same /\ current_qos' = current_qos
    BY <1>1, ClocksKept
<1>5. current_filename = h
    BY <1>1 DEF Described
<1>6. received_bytes + Size[m.payload] \in Nat
    BY <1>2, SizeAssumption DEF ReceiverTyped
<1>7. PICK row \in SharedRow : /\ rows' = Append(rows, row)
                               /\ row.file = current_filename
                               /\ row.integrity_ok <=> expected_checksum = Sha256(s)
    BY <1>1, <1>4, <1>5, <1>6, VerdictRow
<1> HIDE DEF s, t
<1>8. Given(m) = s \o t /\ s \o t \in Seq(Chunk)
    BY <1>2, <1>3, ConcatProperties DEF Given
<1>9. rows' \in Seq(SharedRow) /\ disk' \in [File -> Seq(Chunk)] /\ buffer' \in Seq(Chunk)
    BY <1>1, <1>7, <1>8, AppendProperties, EmptySeq DEF ReceiverTyped
<1>10. ReceiverTyped'
    BY <1>1, <1>4, <1>9 DEF ReceiverTyped, ClocksTyped, Same
<1>11. \E x, y \in Seq(Chunk), r \in SharedRow :
          /\ x \o y = Given(m)
          /\ rows' = Append(rows, r)
          /\ r.file = current_filename
          /\ r.integrity_ok <=> expected_checksum = Sha256(x)
    BY <1>3, <1>7, <1>8
<1> QED
    BY <1>1, <1>4, <1>8, <1>10, <1>11 DEF Completes

(* on_message of an empty message.                                         *)
LEMMA EmptyTaken ==
    ASSUME ReceiverTyped, Described, OnEmptyChunk
    PROVE  /\ \/ Takes(ChunkMessage(None))
              \/ Completes(ChunkMessage(None))
           /\ ReceiverTyped'
<1> DEFINE h == current_file_handle
           m == ChunkMessage(None)
<1>1. /\ h # None /\ TakeChunk(None)
      /\ m.topic = TOPIC_DATA /\ Given(m) = Output
    BY DEF OnEmptyChunk, ChunkMessage, Given
<1>2. /\ h \in File /\ disk[h] \in Seq(Chunk) /\ buffer \in Seq(Chunk)
      /\ Output = disk[h] \o buffer /\ Output \in Seq(Chunk)
    BY <1>1, OutputTyped
<1>3. /\ ClocksTyped' /\ received_chunks' = received_chunks + 1
      /\ received_chunks' \in Nat /\ Same /\ current_qos' = current_qos
    BY <1>1, ClocksKept
<1> HIDE DEF m
<1>4. CASE received_chunks + 1 # expected_chunks
  <2>1. UNCHANGED <<received_bytes, disk, buffer, current_file_handle, rows>>
      BY <1>4 DEF OnEmptyChunk
  <2>2. Output' = Output /\ disk' = [disk EXCEPT ![h] = disk[h]]
      BY <2>1 DEF Output, ReceiverTyped
  <2>3. Takes(m)
      BY <1>1, <1>2, <1>3, <1>4, <2>1, <2>2 DEF Takes
  <2>4. ReceiverTyped'
      BY <1>3, <2>1 DEF ReceiverTyped, ClocksTyped, Same
  <2> QED
      BY <2>3, <2>4 DEF m
<1>5. CASE received_chunks + 1 = expected_chunks
  <2>1. /\ TransferCompleted(received_bytes, disk[current_filename])
        /\ received_bytes' = 0 /\ disk' = DiskAfterClose /\ buffer' = <<>>
        /\ current_file_handle' = None
      BY <1>5 DEF OnEmptyChunk, transfer_completed_handler
  <2>2. disk' = [disk EXCEPT ![h] = Given(m)] /\ current_filename = h
      BY <1>1, <1>2, <2>1 DEF DiskAfterClose, Described, ReceiverTyped
  <2>3. received_bytes \in Nat
      BY DEF ReceiverTyped
  <2>4. PICK row \in SharedRow :
              /\ rows' = Append(rows, row)
              /\ row.file = current_filename
              /\ row.integrity_ok <=> expected_checksum = Sha256(disk[h])
      BY <1>3, <2>1, <2>2, <2>3, VerdictRow
  <2>5. disk' \in [File -> Seq(Chunk)] /\ rows' \in Seq(SharedRow) /\ buffer' \in Seq(Chunk)
    <3>1. disk' \in [File -> Seq(Chunk)]
        BY <1>1, <1>2, <2>2 DEF ReceiverTyped
    <3>2. rows' \in Seq(SharedRow) /\ <<>> \in Seq(Chunk)
        BY <2>4, AppendProperties, EmptySeq DEF ReceiverTyped
    <3> QED
        BY <2>1, <3>1, <3>2
  <2>6. ReceiverTyped'
      BY <1>3, <2>1, <2>5 DEF ReceiverTyped, ClocksTyped, Same
  <2>7. \E x, y \in Seq(Chunk), r \in SharedRow :
          /\ x \o y = Given(m)
          /\ rows' = Append(rows, r)
          /\ r.file = current_filename
          /\ r.integrity_ok <=> expected_checksum = Sha256(x)
      BY <1>1, <1>2, <2>4
  <2>8. Completes(m)
      BY <1>1, <1>3, <1>5, <2>1, <2>2, <2>7 DEF Completes
  <2> QED
      BY <2>6, <2>8 DEF m
<1> QED
    BY <1>4, <1>5

(* on_message of metadata.                                                 *)
LEMMA MetadataTaken ==
    ASSUME ReceiverTyped, NEW m \in SharedMessage,
           OnMetadata(m) \/ OnMetadataOpenFails(m)
    PROVE  (Opens(m) \/ Dies(m)) /\ ReceiverTyped'
<1>1. /\ m.topic = TOPIC_CTRL /\ TakeMetadata(m)
      /\ m.filename \in File /\ m.total_chunks \in Nat /\ m.qos = "X"
  <2>1. m.topic = TOPIC_CTRL /\ TakeMetadata(m)
      BY DEF OnMetadata, OnMetadataOpenFails
  <2> QED
      BY <2>1 DEF SharedMessage, TOPIC_CTRL, TOPIC_DATA
<1>2. DiskAfterClose \in [File -> Seq(Chunk)] /\ <<>> \in Seq(Chunk)
    BY ClosedTyped, EmptySeq
<1>3. /\ current_filename' = m.filename /\ expected_chunks' = m.total_chunks
      /\ expected_checksum' = m.checksum /\ current_qos' = "X"
      /\ received_chunks' = 0 /\ received_bytes' = 0
      /\ ClocksTyped'
    BY <1>1 DEF TakeMetadata, Describe, ResetCounters, ResetClocks, ClocksTyped,
       ReceiverTyped
<1>4. CASE OnMetadata(m)
  <2>1. /\ alive /\ alive' = alive /\ rows' = rows /\ buffer' = <<>>
        /\ disk' = [DiskAfterClose EXCEPT ![m.filename] = <<>>]
        /\ current_file_handle' = m.filename
      BY <1>4 DEF OnMetadata
  <2>2. disk' \in [File -> Seq(Chunk)]
      BY <1>2, <2>1
  <2>3. ReceiverTyped'
      BY <1>1, <1>2, <1>3, <2>1, <2>2 DEF ReceiverTyped, ClocksTyped
  <2> QED
      BY <1>1, <1>3, <2>1, <2>3 DEF Opens
<1>5. CASE OnMetadataOpenFails(m)
  <2>1. /\ alive /\ alive' = FALSE /\ rows' = rows /\ buffer' = <<>>
        /\ disk' = DiskAfterClose
        /\ current_file_handle' = None
      BY <1>5 DEF OnMetadataOpenFails
  <2>2. ReceiverTyped'
      BY <1>1, <1>2, <1>3, <2>1 DEF ReceiverTyped, ClocksTyped
  <2> QED
      BY <1>1, <2>1, <2>2 DEF Dies
<1> QED
    BY <1>4, <1>5

(* The first message is delivered, with one of these outcomes.             *)
LEMMA Delivered ==
    ASSUME ReceiverTyped, DirectoryTyped, Described, on_message
    PROVE  /\ inbox # <<>> /\ inbox' = Tail(inbox)
           /\ UNCHANGED <<exists, sending, announced, overlapped, cut>>
           /\ Opens(inbox[1]) \/ Dies(inbox[1]) \/ Takes(inbox[1])
                 \/ Completes(inbox[1]) \/ Ignores(inbox[1])
           /\ ReceiverTyped'
<1> DEFINE m == inbox[1]
<1>1. /\ inbox # <<>> /\ inbox' = Tail(inbox) /\ Head(inbox) = m /\ m \in SharedMessage
      /\ UNCHANGED <<exists, sending, announced, overlapped, cut>>
    BY QueueTail DEF on_message, DirectoryTyped
<1>2. CASE m = ChunkMessage(None)
  <2>1. OnEmptyChunk
      BY <1>1, <1>2 DEF on_message
  <2> QED
      BY <1>1, <1>2, <2>1, EmptyTaken
<1>3. CASE m # ChunkMessage(None)
  <2>1. OnMessage(m)
      BY <1>1, <1>3 DEF on_message
  <2>2. CASE OnMetadata(m) \/ OnMetadataOpenFails(m)
      BY <1>1, <2>2, MetadataTaken
  <2>3. CASE OnChunk(m)
      BY <1>1, <1>3, <2>3, ChunkTaken
  <2>4. CASE OnLastChunk(m)
      BY <1>1, <1>3, <2>4, LastChunkTaken
  <2>5. CASE OnStrayChunk(m)
    <3>1. Ignores(m)
        BY <2>5 DEF OnStrayChunk, Ignores
    <3>2. ReceiverTyped'
        BY <2>5 DEF OnStrayChunk, ReceiverTyped, transfer
    <3> QED
        BY <1>1, <3>1, <3>2
  <2> QED
      BY <2>1, <2>2, <2>3, <2>4, <2>5 DEF OnMessage
<1> QED
    BY <1>2, <1>3

-----------------------------------------------------------------------------
(* Types and what goes with them.                                          *)
Setting == ReceiverTyped /\ DirectoryTyped /\ Described /\ Known

LEMMA FilenameTyped ==
    ASSUME DirectoryTyped, send <= Len(Sends)
    PROVE  filename \in File
<1>1. send \in 1 .. Len(Sends)
    BY SendsAssumption, LenProperties DEF DirectoryTyped
<1> QED
    BY <1>1, SendsAssumption, ElementOfSeq DEF filename

LEMMA GeneratorKeeps ==
    ASSUME Setting, NEW f \in File, Generate(f) \/ GenerateCut(f)
    PROVE  /\ Setting'
           /\ f \notin exists /\ exists' = exists \cup {f}
           /\ Quiet /\ inbox' = inbox /\ stage' = stage
           /\ current_file_handle # f
           /\ \E s \in Seq(Chunk) :
                 /\ Begins(s, Content[f])
                 /\ Generate(f) => s = Content[f]
                 /\ ~Generate(f) => f \in cut'
                 /\ disk' = [disk EXCEPT ![f] = s]
<1>1. /\ f \notin exists /\ exists' = exists \cup {f} /\ Quiet
      /\ UNCHANGED <<alive, current_file_handle, transfer, buffer, rows, now,
                     sending, inbox, announced, overlapped>>
    BY DEF Generate, GenerateCut
<1>2. \E s \in Seq(Chunk) :
         /\ Begins(s, Content[f])
         /\ Generate(f) => s = Content[f]
         /\ ~Generate(f) => f \in cut'
         /\ disk' = [disk EXCEPT ![f] = s]
  <2>1. Content[f] \in Seq(Chunk) /\ Len(Content[f]) \in Nat
      BY ContentTyped
  <2>2. CASE Generate(f)
    <3>1. disk' = [disk EXCEPT ![f] = Content[f]] /\ Begins(Content[f], Content[f])
        BY <2>1, <2>2 DEF Generate, Begins
    <3> QED
        BY <2>1, <2>2, <3>1
  <2>3. CASE ~Generate(f)
    <3>1. PICK n \in 0 .. Len(Content[f]) - 1 :
                 disk' = [disk EXCEPT ![f] = SubSeq(Content[f], 1, n)]
        BY <2>3 DEF GenerateCut
    <3> DEFINE s == SubSeq(Content[f], 1, n)
    <3>2. /\ s \in Seq(Chunk) /\ Len(s) = n
          /\ \A i \in 1 .. n : s[i] = Content[f][i]
        BY <2>1, <3>1, SubSeqProperties
    <3> HIDE DEF s
    <3>3. Begins(s, Content[f]) /\ f \in cut'
        BY <2>1, <2>3, <3>2 DEF Begins, GenerateCut
    <3> QED
        BY <2>3, <3>1, <3>2, <3>3 DEF s
  <2> QED
      BY <2>2, <2>3
<1>3. PICK s \in Seq(Chunk) : disk' = [disk EXCEPT ![f] = s]
    BY <1>2
<1>4. disk' \in [File -> Seq(Chunk)]
    BY <1>3 DEF Setting, ReceiverTyped
<1>5. ReceiverTyped'
    BY <1>1, <1>4 DEF Setting, ReceiverTyped, transfer
<1>6. DirectoryTyped'
    BY <1>1 DEF Setting, DirectoryTyped, sending
<1>7. Described' /\ Known'
    BY <1>1 DEF Setting, Described, Known, sending, transfer, filename, DirectoryTyped
<1>8. inbox' = inbox /\ stage' = stage /\ current_file_handle # f
    BY <1>1, NoneAssumption DEF Setting, Known, sending, ReceiverTyped
<1> QED
    BY <1>1, <1>2, <1>5, <1>6, <1>7, <1>8 DEF Setting

(* The messages the sender publishes.                                      *)
Announcement ==
    [topic |-> TOPIC_CTRL, filename |-> filename, total_chunks |-> total_chunks,
     checksum |-> Sha256(hashed), qos |-> "X"]
NextRead == IF AtEnd THEN None ELSE disk[filename][position + 1]

LEMMA AnnouncementTyped ==
    ASSUME Setting, stage = "hash"
    PROVE  /\ Announcement \in SharedMessage /\ Announcement.topic = TOPIC_CTRL
           /\ Announcement.filename = filename /\ filename \in File
           /\ Announcement.total_chunks = total_chunks
           /\ Announcement.checksum = Sha256(hashed)
<1>1. filename \in File
    BY FilenameTyped DEF Setting, Described
<1>2. Sha256(hashed) \in Digest /\ total_chunks \in Nat
    BY DEF Setting, DirectoryTyped, Sha256, Digest
<1> QED
    BY <1>1, <1>2 DEF Announcement, SharedMessage

LEMMA NextReadTyped ==
    ASSUME Setting, stage = "chunks"
    PROVE  /\ ChunkMessage(NextRead) \in SharedMessage
           /\ ChunkMessage(NextRead).topic = TOPIC_DATA
           /\ ChunkMessage(NextRead).payload = NextRead
           /\ filename \in File /\ disk[filename] \in Seq(Chunk)
           /\ AtEnd => NextRead = None
           /\ ~AtEnd => /\ NextRead \in Chunk /\ NextRead # None
                        /\ position + 1 \in 1 .. Len(disk[filename])
                        /\ NextRead = disk[filename][position + 1]
<1>1. filename \in File /\ disk[filename] \in Seq(Chunk) /\ position \in Nat
    BY FilenameTyped DEF Setting, Described, ReceiverTyped, DirectoryTyped
<1>2. ~AtEnd => position + 1 \in 1 .. Len(disk[filename])
    BY <1>1, LenProperties DEF AtEnd
<1>3. ~AtEnd => disk[filename][position + 1] \in Chunk
    BY <1>1, <1>2, ElementOfSeq
<1>4. NextRead \in Chunk \cup {None}
    BY <1>3 DEF NextRead
<1> HIDE DEF AtEnd
<1>5. /\ AtEnd => NextRead = None
      /\ ~AtEnd => NextRead = disk[filename][position + 1] /\ NextRead # None
    BY <1>3, NoChunkAssumption DEF NextRead
<1> QED
    BY <1>1, <1>2, <1>3, <1>4, <1>5 DEF ChunkMessage, SharedMessage

LEMMA CountsTyped ==
    ASSUME Setting
    PROVE  Lacks \in Nat /\ Pending \in Nat
<1>1. /\ received_chunks \in Nat /\ expected_chunks \in Nat
      /\ total_chunks \in Nat /\ chunk_num \in Nat
    BY DEF Setting, ReceiverTyped, DirectoryTyped
<1> QED
    BY <1>1 DEF Lacks, Pending, Setting, Described

LEMMA SettingKeeps ==
    ASSUME Setting, Stuck \/ Gapless, [SharedNext]_dvars
    PROVE  Setting'
<1>1. CASE \E f \in File : Generate(f) \/ GenerateCut(f)
    BY <1>1, GeneratorKeeps
<1>2. CASE SkipMissing
  <2>1. ReceiverTyped' /\ DirectoryTyped'
      BY <1>2 DEF Setting, SkipMissing, vars, transfer, ReceiverTyped, DirectoryTyped
  <2>2. Described' /\ Known'
      BY <1>2 DEF Setting, SkipMissing, vars, transfer, Described, Known
  <2> QED
      BY <2>1, <2>2 DEF Setting
<1>3. CASE calculate_total_chunks
  <2>1. filename \in File /\ filename \in exists /\ Len(disk[filename]) \in Nat
      BY <1>3, FilenameTyped, LenProperties
      DEF calculate_total_chunks, Setting, ReceiverTyped
  <2>2. ReceiverTyped'
      BY <1>3 DEF Setting, calculate_total_chunks, vars, transfer, ReceiverTyped
  <2>3. overlapped' \subseteq File /\ hashed' \in Seq(Chunk) /\ total_chunks' \in Nat
      BY <1>3, <2>1, EmptySeq DEF Setting, calculate_total_chunks, DirectoryTyped
  <2>4. DirectoryTyped'
      BY <1>3, <2>3 DEF Setting, calculate_total_chunks, DirectoryTyped
  <2>5. Described'
      BY <1>3 DEF Setting, calculate_total_chunks, vars, transfer, Described
  <2>6. Known'
      BY <1>3, <2>1 DEF Setting, calculate_total_chunks, vars, Known, filename
  <2> QED
      BY <2>2, <2>4, <2>5, <2>6 DEF Setting
<1>4. CASE HashChunk
  <2>1. hashed' \in Seq(Chunk)
    <3>1. filename \in File /\ disk[filename] \in Seq(Chunk) /\ hashed \in Seq(Chunk)
        BY <1>4, FilenameTyped
        DEF HashChunk, Setting, Described, ReceiverTyped, DirectoryTyped
    <3>2. Len(hashed) + 1 \in 1 .. Len(disk[filename])
        BY <1>4, <3>1, LenProperties DEF HashChunk
    <3>3. disk[filename][Len(hashed) + 1] \in Chunk
        BY <3>1, <3>2, ElementOfSeq
    <3> QED
        BY <1>4, <3>1, <3>3, AppendProperties DEF HashChunk
  <2>2. ReceiverTyped' /\ DirectoryTyped'
      BY <1>4, <2>1
      DEF Setting, HashChunk, vars, transfer, ReceiverTyped, DirectoryTyped
  <2>3. Described' /\ Known'
      BY <1>4 DEF Setting, HashChunk, vars, transfer, Described, Known, filename
  <2> QED
      BY <2>2, <2>3 DEF Setting
<1>5. CASE send_metadata
  <2> DEFINE m == Announcement
  <2>1. /\ m \in SharedMessage /\ m.topic = TOPIC_CTRL
        /\ m.filename = filename /\ filename \in File /\ filename \in exists
        /\ inbox' = Append(inbox, m) /\ inbox \in Seq(SharedMessage)
      BY <1>5, AnnouncementTyped
      DEF send_metadata, Announcement, Setting, Known, DirectoryTyped
  <2> HIDE DEF m
  <2>2. /\ inbox' \in Seq(SharedMessage) /\ Len(inbox) \in Nat
        /\ Len(inbox') = Len(inbox) + 1 /\ inbox'[Len(inbox) + 1] = m
        /\ \A i \in 1 .. Len(inbox) : inbox'[i] = inbox[i]
      BY <2>1, QueueAppend
  <2>3. announced' \in Seq(File)
      BY <1>5, <2>1, AppendProperties DEF send_metadata, Setting, DirectoryTyped
  <2>4. ReceiverTyped' /\ DirectoryTyped'
      BY <1>5, <2>2, <2>3
      DEF Setting, send_metadata, vars, transfer, ReceiverTyped, DirectoryTyped
  <2>5. Described'
      BY <1>5 DEF Setting, send_metadata, vars, transfer, Described, DirectoryTyped
  <2>6. \A i \in 1 .. Len(inbox') : i \in 1 .. Len(inbox) \/ i = Len(inbox) + 1
      BY <2>2
  <2>7. Known'
    <3>1. \A i \in 1 .. Len(inbox') :
             inbox'[i].topic = TOPIC_CTRL => inbox'[i].filename \in exists
        BY <2>1, <2>2, <2>6 DEF Setting, Known
    <3> QED
        BY <1>5, <3>1 DEF Setting, send_metadata, vars, Known, filename
  <2> QED
      BY <2>4, <2>5, <2>7 DEF Setting
<1>6. CASE SendChunk
  <2> DEFINE m == ChunkMessage(NextRead)
  <2>1. /\ m \in SharedMessage /\ m.topic = TOPIC_DATA /\ m.topic # TOPIC_CTRL
        /\ inbox' = Append(inbox, m) /\ inbox \in Seq(SharedMessage)
      BY <1>6, NextReadTyped
      DEF SendChunk, NextRead, Setting, DirectoryTyped, TOPIC_CTRL, TOPIC_DATA
  <2> HIDE DEF m
  <2>2. /\ inbox' \in Seq(SharedMessage) /\ Len(inbox) \in Nat
        /\ Len(inbox') = Len(inbox) + 1 /\ inbox'[Len(inbox) + 1] = m
        /\ \A i \in 1 .. Len(inbox) : inbox'[i] = inbox[i]
      BY <2>1, QueueAppend
  <2>3. chunk_num' \in Nat /\ position' \in Nat /\ chunk_num' <= total_chunks
      BY <1>6 DEF SendChunk, Setting, DirectoryTyped
  <2>4. ReceiverTyped' /\ DirectoryTyped'
      BY <1>6, <2>2, <2>3
      DEF Setting, SendChunk, vars, transfer, ReceiverTyped, DirectoryTyped
  <2>5. Described'
      BY <1>6, <2>3 DEF Setting, SendChunk, vars, transfer, Described
  <2>6. \A i \in 1 .. Len(inbox') : i \in 1 .. Len(inbox) \/ i = Len(inbox) + 1
      BY <2>2
  <2>7. Known'
    <3>1. \A i \in 1 .. Len(inbox') :
             inbox'[i].topic = TOPIC_CTRL => inbox'[i].filename \in exists
        BY <2>1, <2>2, <2>6 DEF Setting, Known
    <3> QED
        BY <1>6, <3>1 DEF Setting, SendChunk, vars, Known, filename
  <2> QED
      BY <2>4, <2>5, <2>7 DEF Setting
<1>7. CASE Sent
  <2>1. ReceiverTyped' /\ DirectoryTyped'
      BY <1>7 DEF Setting, Sent, vars, transfer, ReceiverTyped, DirectoryTyped
  <2>2. Described' /\ Known'
      BY <1>7 DEF Setting, Sent, vars, transfer, Described, Known
  <2> QED
      BY <2>1, <2>2 DEF Setting
<1>8. CASE on_message
  <2>1. /\ inbox # <<>> /\ inbox' = Tail(inbox)
        /\ UNCHANGED <<exists, sending, announced, overlapped, cut>>
        /\ Opens(inbox[1]) \/ Dies(inbox[1]) \/ Takes(inbox[1])
             \/ Completes(inbox[1]) \/ Ignores(inbox[1])
        /\ ReceiverTyped'
      BY <1>8, Delivered DEF Setting
  <2>2. /\ Len(inbox) \in Nat \ {0} /\ 1 \in 1 .. Len(inbox)
        /\ inbox' \in Seq(SharedMessage) /\ Len(inbox') = Len(inbox) - 1
        /\ \A i \in 1 .. Len(inbox') :
              inbox'[i] = inbox[i + 1] /\ i + 1 \in 1 .. Len(inbox)
      BY <2>1, QueueTail DEF Setting, DirectoryTyped
  <2>3. inbox[1].topic = TOPIC_CTRL =>
           inbox[1].filename \in exists /\ inbox[1].total_chunks \in Nat
      BY <2>2, QueueFacts DEF Setting, DirectoryTyped, Known
  <2>4. DirectoryTyped'
      BY <2>1, <2>2 DEF Setting, DirectoryTyped, sending
  <2>5. Described'
    <3>1. current_file_handle' # None =>
             /\ alive' /\ current_filename' = current_file_handle'
             /\ received_chunks' < expected_chunks' \/ expected_chunks' = 0
             /\ received_chunks' <= expected_chunks'
      <4>1. CASE Opens(inbox[1])
          BY <2>3, <4>1 DEF Opens
      <4>2. CASE Dies(inbox[1]) \/ Completes(inbox[1])
          BY <4>2 DEF Dies, Completes
      <4>3. CASE Takes(inbox[1])
        <5>1. received_chunks \in Nat /\ expected_chunks \in Nat
            BY DEF Setting, ReceiverTyped
        <5>2. received_chunks < expected_chunks
          <6>1. Gapless
              BY <4>3 DEF Takes, Setting, Described, Stuck
          <6>2. Lacks \in Nat /\ Pending \in Nat
              BY CountsTyped
          <6>3. Lacks > 0
              BY <2>1, <2>2, <4>3, <6>1, <6>2, FollowedFirst
              DEF Gapless, Takes, Setting, DirectoryTyped
          <6> QED
              BY <5>1, <6>3, <4>3 DEF Lacks, Takes
        <5> QED
            BY <4>3, <5>1, <5>2 DEF Setting, Described, Takes, Same
      <4>4. CASE Ignores(inbox[1])
          BY <4>4 DEF Ignores
      <4> QED
          BY <2>1, <4>1, <4>2, <4>3, <4>4
    <3> QED
        BY <2>1, <3>1 DEF Setting, Described, sending
  <2>6. Known'
    <3>1. current_file_handle' # None => current_file_handle' \in exists
        BY <2>1, <2>3 DEF Setting, Known, Opens, Dies, Takes, Completes, Ignores
    <3>2. \A i \in 1 .. Len(inbox') :
             inbox'[i].topic = TOPIC_CTRL => inbox'[i].filename \in exists
        BY <2>2 DEF Setting, Known
    <3> QED
        BY <2>1, <3>1, <3>2 DEF Setting, Known, sending, filename
  <2> QED
      BY <2>1, <2>4, <2>5, <2>6 DEF Setting
<1>9. CASE UNCHANGED dvars
  <2>1. ReceiverTyped' /\ DirectoryTyped'
      BY <1>9
      DEF Setting, dvars, vars, transfer, sending, ReceiverTyped, DirectoryTyped
  <2>2. Described' /\ Known'
      BY <1>9 DEF Setting, dvars, vars, transfer, sending, Described, Known, filename
  <2> QED
      BY <2>1, <2>2 DEF Setting
<1> QED
    BY <1>1, <1>2, <1>3, <1>4, <1>5, <1>6, <1>7, <1>8, <1>9 DEF SharedNext

-----------------------------------------------------------------------------
(* Sequences that begin another one.                                       *)
LEMMA BeginsPart ==
    ASSUME NEW s \in Seq(Chunk), NEW t \in Seq(Chunk), NEW u \in Seq(Chunk),
           Begins(s \o t, u)
    PROVE  Begins(s, u)
<1> DEFINE r == s \o t
<1>1. /\ Len(s) \in Nat /\ Len(t) \in Nat /\ Len(u) \in Nat
      /\ Len(r) = Len(s) + Len(t)
      /\ \A i \in 1 .. Len(r) : r[i] = IF i <= Len(s) THEN s[i] ELSE t[i - Len(s)]
    BY LenProperties, ConcatProperties
<1>2. Len(r) <= Len(u) /\ \A i \in 1 .. Len(r) : r[i] = u[i]
    BY DEF Begins
<1> HIDE DEF r
<1>3. \A i \in 1 .. Len(s) : i \in 1 .. Len(r) /\ r[i] = s[i]
    BY <1>1
<1> QED
    BY <1>1, <1>2, <1>3 DEF Begins

LEMMA BeginsNext ==
    ASSUME NEW s \in Seq(Chunk), NEW u \in Seq(Chunk), Begins(s, u),
           Len(s) + 1 <= Len(u), NEW c \in Chunk, c = u[Len(s) + 1]
    PROVE  Begins(Append(s, c), u)
<1> DEFINE r == Append(s, c)
<1>1. /\ Len(s) \in Nat /\ Len(u) \in Nat /\ Len(r) = Len(s) + 1
      /\ \A i \in 1 .. Len(s) : r[i] = s[i]
      /\ r[Len(s) + 1] = c
    BY LenProperties, AppendProperties
<1> HIDE DEF r
<1>2. \A i \in 1 .. Len(r) : i \in 1 .. Len(s) \/ i = Len(s) + 1
    BY <1>1
<1> QED
    BY <1>1, <1>2 DEF Begins, r

LEMMA BeginsAll ==
    ASSUME NEW s \in Seq(Chunk), NEW u \in Seq(Chunk), Begins(s, u), Len(s) >= Len(u)
    PROVE  s = u
<1>1. Len(s) = Len(u) /\ \A i \in 1 .. Len(s) : s[i] = u[i]
    BY LenProperties DEF Begins
<1> QED
    BY <1>1, SeqEqual

LEMMA NothingBegins ==
    ASSUME NEW u \in Seq(Chunk)
    PROVE  Begins(<<>>, u) /\ <<>> \in Seq(Chunk) /\ Len(<<>>) = 0
<1>1. Len(<<>>) = 0 /\ Len(u) \in Nat /\ <<>> \in Seq(Chunk)
    BY EmptySeq, LenProperties
<1> QED
    BY <1>1 DEF Begins

(* While the receiver is dead and messages are left, that stays so.        *)
LEMMA StuckStays ==
    ASSUME Setting, Stuck, [SharedNext]_dvars
    PROVE  Stuck'
<1>1. Len(inbox) \in Nat /\ Pending \in Nat /\ inbox \in Seq(SharedMessage)
    BY CountsTyped, LenProperties DEF Setting, DirectoryTyped
<1>2. CASE \E f \in File : Generate(f) \/ GenerateCut(f)
    BY <1>2, <1>1 DEF Generate, GenerateCut, Stuck, Pending, sending
<1>3. CASE SkipMissing
    BY <1>3, <1>1 DEF SkipMissing, vars, Stuck, Pending
<1>4. CASE calculate_total_chunks
    BY <1>4, <1>1 DEF calculate_total_chunks, vars, Stuck, Pending
<1>5. CASE HashChunk
    BY <1>5, <1>1 DEF HashChunk, vars, Stuck, Pending
<1>6. CASE send_metadata
  <2>1. /\ Announcement \in SharedMessage /\ inbox' = Append(inbox, Announcement)
        /\ alive' = alive /\ stage' = "chunks" /\ chunk_num' = 0
        /\ total_chunks' = total_chunks /\ total_chunks \in Nat
      BY <1>6, AnnouncementTyped
      DEF send_metadata, Announcement, vars, Setting, DirectoryTyped
  <2>2. Len(inbox') = Len(inbox) + 1
      BY <1>1, <2>1, QueueAppend
  <2> QED
      BY <1>1, <2>1, <2>2 DEF Stuck, Pending
<1>7. CASE SendChunk
  <2>1. /\ ChunkMessage(NextRead) \in SharedMessage
        /\ inbox' = Append(inbox, ChunkMessage(NextRead))
        /\ alive' = alive /\ stage' = "chunks"
        /\ total_chunks' = total_chunks /\ total_chunks \in Nat
        /\ chunk_num' = chunk_num + 1 /\ chunk_num \in Nat /\ chunk_num < total_chunks
      BY <1>7, NextReadTyped
      DEF SendChunk, NextRead, vars, Setting, DirectoryTyped
  <2>2. Len(inbox') = Len(inbox) + 1
      BY <1>1, <2>1, QueueAppend
  <2> QED
      BY <1>1, <2>1, <2>2 DEF Stuck, Pending
<1>8. CASE Sent
    BY <1>8, <1>1 DEF Sent, vars, Stuck, Pending, Setting, DirectoryTyped
<1>9. CASE on_message
  <2>1. Opens(inbox[1]) \/ Dies(inbox[1]) \/ Takes(inbox[1])
             \/ Completes(inbox[1]) \/ Ignores(inbox[1])
      BY <1>9, Delivered DEF Setting
  <2> QED
      BY <2>1
      DEF Stuck, Opens, Dies, Takes, Completes, Ignores, Setting, Described
<1>10. CASE UNCHANGED dvars
    BY <1>10 DEF dvars, vars, sending, Stuck, Pending
<1> QED
    BY <1>2, <1>3, <1>4, <1>5, <1>6, <1>7, <1>8, <1>9, <1>10 DEF SharedNext

-----------------------------------------------------------------------------
(* What the receiver is given next is the file's next chunk.               *)
LEMMA NextGiven ==
    ASSUME Setting, Beginnings, Traced, inbox # <<>>,
           inbox[1].topic = TOPIC_DATA, current_file_handle # None
    PROVE  /\ Begins(Given(inbox[1]), Content[current_file_handle])
           /\ Given(inbox[1]) \in Seq(Chunk)
<1> DEFINE h == current_file_handle
           m == inbox[1]
<1>1. /\ h \in File /\ Output \in Seq(Chunk) /\ Content[h] \in Seq(Chunk)
      /\ Begins(Output, Content[h]) /\ Len(Output) \in Nat /\ Len(Content[h]) \in Nat
    BY OutputTyped, ContentTyped, LenProperties DEF Setting, Beginnings
<1>2. /\ 1 \in 1 .. Len(inbox) /\ Len(inbox) \in Nat /\ m.topic # TOPIC_CTRL
      /\ m.payload \in Chunk \cup {None}
    BY QueueTail, QueueFacts DEF Setting, DirectoryTyped
<1>3. PICK F \in [0 .. Len(inbox) -> File \cup {None}],
           P \in [0 .. Len(inbox) -> Nat] :
           /\ Placed(inbox, F, P)
           /\ F[0] = h /\ P[0] = Len(Output)
    BY DEF Traced
<1>4. Places(m, F[0], P[0], F[1], P[1])
  <2>1. Places(inbox[1], F[1 - 1], P[1 - 1], F[1], P[1])
      BY <1>2, <1>3 DEF Placed
  <2> QED
      BY <2>1
<1>5. CASE m.payload = None
    BY <1>1, <1>5 DEF Given
<1>6. CASE m.payload # None
  <2>1. /\ Len(Output) + 1 <= Len(Content[h]) /\ m.payload \in Chunk
        /\ m.payload = Content[h][Len(Output) + 1]
      BY <1>2, <1>3, <1>4, <1>6 DEF Places
  <2> QED
      BY <1>1, <1>6, <2>1, BeginsNext, AppendProperties DEF Given
<1> QED
    BY <1>5, <1>6

LEMMA BeginningsKeeps ==
    ASSUME Setting, Setting', Beginnings, Stuck \/ (Gapless /\ Traced),
           [SharedNext]_dvars
    PROVE  Beginnings'
<1>0. /\ disk \in [File -> Seq(Chunk)] /\ disk' \in [File -> Seq(Chunk)]
      /\ current_file_handle \in File \cup {None}
    BY DEF Setting, ReceiverTyped
<1>1. ASSUME NEW f \in File, Generate(f) \/ GenerateCut(f) PROVE Beginnings'
  <2>1. /\ current_file_handle # f
        /\ \E s \in Seq(Chunk) :
              /\ Begins(s, Content[f])
              /\ disk' = [disk EXCEPT ![f] = s]
      BY <1>1, GeneratorKeeps
  <2>2. current_file_handle' = current_file_handle /\ buffer' = buffer
      BY <1>1 DEF Generate, GenerateCut
  <2>3. current_file_handle # None => Output' = Output
      BY <1>0, <2>1, <2>2 DEF Output
  <2> QED
      BY <1>0, <2>1, <2>2, <2>3 DEF Beginnings
<1>2. CASE on_message
  <2> DEFINE h == current_file_handle
             m == inbox[1]
  <2>1. /\ inbox # <<>>
        /\ Opens(m) \/ Dies(m) \/ Takes(m) \/ Completes(m) \/ Ignores(m)
      BY <1>2, Delivered DEF Setting
  <2>2. Traced
      BY <2>1 DEF Stuck, Opens, Dies, Takes, Completes, Ignores, Setting, Described
  <2>3. \A f \in File : Begins(DiskAfterClose[f], Content[f])
      BY ClosedTyped, NoneAssumption DEF Setting, Beginnings
  <2>4. CASE Opens(m)
    <3>1. m.filename \in File /\ Content[m.filename] \in Seq(Chunk)
        BY <2>1, <2>4, QueueTail, QueueFacts, ContentTyped
        DEF Setting, DirectoryTyped, Opens
    <3>2. /\ disk' = [DiskAfterClose EXCEPT ![m.filename] = <<>>]
          /\ current_file_handle' = m.filename /\ buffer' = <<>>
          /\ DiskAfterClose \in [File -> Seq(Chunk)]
        BY <2>4, ClosedTyped DEF Opens, Setting
    <3>3. disk'[m.filename] = <<>> /\ Output' = <<>> \o <<>>
        BY <3>1, <3>2, NoneAssumption DEF Output
    <3>4. Output' = <<>>
        BY <3>3, ConcatEmptySeq, EmptySeq
    <3> QED
        BY <2>3, <3>1, <3>2, <3>3, <3>4, NothingBegins DEF Beginnings
  <2>5. CASE Dies(m)
      BY <2>3, <2>5 DEF Dies, Beginnings
  <2>6. CASE Takes(m)
    <3>1. /\ h # None /\ h \in File /\ current_file_handle' = h /\ Output' = Given(m)
          /\ Begins(Given(m), Content[h]) /\ Content[h] \in Seq(Chunk)
          /\ \E s \in Seq(Chunk) : disk' = [disk EXCEPT ![h] = s]
        BY <1>0, <2>1, <2>2, <2>6, NextGiven, ContentTyped DEF Takes
    <3>2. Output' = disk'[h] \o buffer' /\ disk'[h] \in Seq(Chunk) /\ buffer' \in Seq(Chunk)
        BY <3>1 DEF Setting, ReceiverTyped, Output
    <3>3. Begins(disk'[h], Content[h])
        BY <3>1, <3>2, BeginsPart
    <3> QED
        BY <1>0, <3>1, <3>3 DEF Beginnings
  <2>7. CASE Completes(m)
    <3>1. /\ h # None /\ h \in File /\ current_file_handle' = None
          /\ Begins(Given(m), Content[h])
          /\ disk' = [disk EXCEPT ![h] = Given(m)]
        BY <1>0, <2>1, <2>2, <2>7, NextGiven DEF Completes
    <3> QED
        BY <1>0, <3>1 DEF Beginnings
  <2>8. CASE Ignores(m)
      BY <2>8 DEF Ignores, Beginnings, Output
  <2> QED
      BY <2>1, <2>4, <2>5, <2>6, <2>7, <2>8
<1>3. CASE \/ SkipMissing \/ calculate_total_chunks \/ HashChunk \/ send_metadata
           \/ SendChunk \/ Sent \/ UNCHANGED dvars
  <2>1. UNCHANGED <<disk, buffer, current_file_handle>>
      BY <1>3
      DEF SkipMissing, calculate_total_chunks, HashChunk, send_metadata, SendChunk,
          Sent, dvars, vars
  <2> QED
      BY <2>1 DEF Beginnings, Output
<1> QED
    BY <1>1, <1>2, <1>3 DEF SharedNext

-----------------------------------------------------------------------------
(* What the sender does to the inbox.                                      *)
SendsNothing ==
    /\ inbox' = inbox /\ Pending' = Pending
    /\ Pending > 0 => filename' = filename /\ position' = position
    /\ announced' = announced

SendsMetadata ==
    /\ stage = "hash" /\ Pending = 0 /\ Pending' = total_chunks
    /\ inbox' = Append(inbox, Announcement)
    /\ filename' = filename /\ position' = 0
    /\ announced' = IF total_chunks > 0 THEN Append(announced, filename) ELSE announced

SendsChunk ==
    /\ stage = "chunks" /\ Pending > 0 /\ Pending' = Pending - 1
    /\ inbox' = Append(inbox, ChunkMessage(NextRead))
    /\ filename' = filename
    /\ position' = IF AtEnd THEN position ELSE position + 1
    /\ announced' = announced

(* The receiver's state, which only its own steps change. *)
Receiving == <<alive, current_file_handle, transfer, buffer, rows>>

LEMMA SenderSteps ==
    ASSUME Setting, [SharedNext]_dvars, ~on_message
    PROVE  /\ SendsNothing \/ SendsMetadata \/ SendsChunk
           /\ UNCHANGED Receiving /\ Lacks' = Lacks
           /\ current_file_handle # None => Output' = Output
<1>1. UNCHANGED Receiving
    BY DEF SharedNext, Generate, GenerateCut, SkipMissing, calculate_total_chunks,
       HashChunk, send_metadata, SendChunk, Sent, dvars, vars, Receiving
<1>2. Lacks' = Lacks
    BY <1>1 DEF Receiving, transfer, Lacks
<1>3. current_file_handle # None => Output' = Output
  <2>1. CASE disk' = disk
      BY <1>1, <2>1 DEF Receiving, Output
  <2>2. ASSUME NEW f \in File, Generate(f) \/ GenerateCut(f), current_file_handle # None
        PROVE  Output' = Output
    <3>1. /\ current_file_handle # f
          /\ \E s \in Seq(Chunk) : disk' = [disk EXCEPT ![f] = s]
        BY <2>2, GeneratorKeeps
    <3>2. disk'[current_file_handle] = disk[current_file_handle]
        BY <3>1, <2>2 DEF Setting, ReceiverTyped
    <3> QED
        BY <1>1, <3>2 DEF Receiving, Output
  <2> QED
      BY <2>1, <2>2
      DEF SharedNext, SkipMissing, calculate_total_chunks, HashChunk,
          send_metadata, SendChunk, Sent, dvars, vars
<1>4. ASSUME \E f \in File : Generate(f) \/ GenerateCut(f)
      PROVE  SendsNothing \/ SendsMetadata \/ SendsChunk
    BY <1>4 DEF Generate, GenerateCut, SendsNothing, Pending, sending, filename
<1>5. ASSUME SkipMissing
      PROVE  SendsNothing \/ SendsMetadata \/ SendsChunk
    BY <1>5 DEF SkipMissing, SendsNothing, Pending
<1>6. ASSUME calculate_total_chunks
      PROVE  SendsNothing \/ SendsMetadata \/ SendsChunk
    BY <1>6 DEF calculate_total_chunks, SendsNothing, Pending
<1>7. ASSUME HashChunk
      PROVE  SendsNothing \/ SendsMetadata \/ SendsChunk
    BY <1>7 DEF HashChunk, SendsNothing, Pending
<1>8. ASSUME send_metadata
      PROVE  SendsNothing \/ SendsMetadata \/ SendsChunk
    BY <1>8
    DEF send_metadata, SendsMetadata, Pending, Announcement, filename, Setting,
        DirectoryTyped
<1>9. ASSUME SendChunk
      PROVE  SendsNothing \/ SendsMetadata \/ SendsChunk
  <2>1. /\ total_chunks \in Nat /\ chunk_num \in Nat /\ chunk_num < total_chunks
        /\ chunk_num' = chunk_num + 1 /\ total_chunks' = total_chunks
        /\ stage = "chunks" /\ stage' = stage
      BY <1>9 DEF SendChunk, Setting, DirectoryTyped
  <2>2. Pending > 0 /\ Pending' = Pending - 1
      BY <2>1 DEF Pending
  <2> QED
      BY <1>9, <2>1, <2>2 DEF SendChunk, SendsChunk, NextRead, filename
<1>10. ASSUME Sent
      PROVE  SendsNothing \/ SendsMetadata \/ SendsChunk
    BY <1>10 DEF Sent, SendsNothing, Pending, Setting, DirectoryTyped
<1>11. ASSUME UNCHANGED dvars
      PROVE  SendsNothing \/ SendsMetadata \/ SendsChunk
    BY <1>11 DEF dvars, sending, SendsNothing, Pending, filename
<1> QED
    BY <1>1, <1>2, <1>3, <1>4, <1>5, <1>6, <1>7, <1>8, <1>9, <1>10, <1>11
    DEF SharedNext

(* What a delivery does to the inbox.                                      *)
LEMMA DeliverySteps ==
    ASSUME Setting, Stuck \/ Gapless, on_message
    PROVE  /\ ~Stuck /\ inbox # <<>> /\ inbox' = Tail(inbox)
           /\ UNCHANGED <<exists, sending, announced, overlapped, cut>>
           /\ Pending' = Pending /\ filename' = filename
           /\ Lacks \in Nat /\ Pending \in Nat
           /\ \/ /\ Opens(inbox[1])
                 /\ Lacks = 0 /\ Lacks' = inbox[1].total_chunks
              \/ /\ Dies(inbox[1])
                 /\ Lacks = 0 /\ Lacks' = 0
              \/ /\ Takes(inbox[1])
                 /\ Lacks > 1 /\ Lacks' = Lacks - 1
              \/ /\ Completes(inbox[1])
                 /\ Lacks = 1 /\ Lacks' = 0
<1> DEFINE m == inbox[1]
<1>1. /\ inbox # <<>> /\ inbox' = Tail(inbox)
      /\ UNCHANGED <<exists, sending, announced, overlapped, cut>>
      /\ Opens(m) \/ Dies(m) \/ Takes(m) \/ Completes(m) \/ Ignores(m)
    BY Delivered DEF Setting
<1>2. ~Stuck /\ Gapless
    BY <1>1
    DEF Stuck, Opens, Dies, Takes, Completes, Ignores, Setting, Described
<1>3. Lacks \in Nat /\ Pending \in Nat /\ Pending' = Pending /\ filename' = filename
    BY <1>1, CountsTyped DEF Pending, sending, filename
<1>4. /\ m.topic = TOPIC_CTRL => Lacks = 0
      /\ m.topic = TOPIC_DATA => Lacks > 0
    BY <1>1, <1>2, <1>3, FollowedFirst DEF Gapless, Setting, DirectoryTyped
<1>5. CASE Opens(m)
  <2>1. m.filename \in File /\ m.total_chunks \in Nat
      BY <1>1, <1>5, QueueTail, QueueFacts DEF Setting, DirectoryTyped, Opens
  <2>2. Lacks' = m.total_chunks
      BY <1>5, <2>1, NoneAssumption DEF Lacks, Opens
  <2> QED
      BY <1>1, <1>2, <1>3, <1>4, <1>5, <2>2 DEF Opens
<1>6. CASE Dies(m)
    BY <1>1, <1>2, <1>3, <1>4, <1>6 DEF Dies, Lacks
<1>7. received_chunks \in Nat /\ expected_chunks \in Nat
    BY DEF Setting, ReceiverTyped
<1>8. CASE Takes(m)
  <2>1. Lacks > 0 /\ Lacks = expected_chunks - received_chunks
      BY <1>4, <1>8 DEF Takes, Lacks
  <2>2. Lacks' = expected_chunks - (received_chunks + 1)
      BY <1>8 DEF Takes, Lacks, Same
  <2>3. Lacks > 1 /\ Lacks' = Lacks - 1
      BY <1>7, <1>8, <2>1, <2>2 DEF Takes
  <2> QED
      BY <1>1, <1>2, <1>3, <1>8, <2>3
<1>9. CASE Completes(m)
  <2>1. Lacks = 1 /\ Lacks' = 0
      BY <1>7, <1>9 DEF Completes, Lacks
  <2> QED
      BY <1>1, <1>2, <1>3, <1>9, <2>1
<1>10. ~Ignores(m)
    BY <1>4 DEF Ignores, Lacks
<1> QED
    BY <1>1, <1>5, <1>6, <1>8, <1>9, <1>10

(* The counts go on meeting.                                               *)
LEMMA GaplessKeeps ==
    ASSUME Setting, Gapless, [SharedNext]_dvars
    PROVE  Stuck' \/ Gapless'
<1>1. /\ inbox \in Seq(SharedMessage) /\ Len(inbox) \in Nat
      /\ Lacks \in Nat /\ Pending \in Nat
      /\ \A k \in 1 .. Len(inbox) :
            inbox[k].topic = TOPIC_CTRL => inbox[k].total_chunks \in Nat
    BY CountsTyped, QueueFacts DEF Setting, DirectoryTyped
<1>2. CASE ~on_message /\ SendsNothing
  <2>1. inbox' = inbox /\ Pending' = Pending /\ Lacks' = Lacks
      BY <1>2, SenderSteps DEF SendsNothing
  <2> QED
      BY <2>1 DEF Gapless
<1>3. CASE ~on_message /\ SendsMetadata
  <2> DEFINE m == Announcement
  <2>1. /\ m \in SharedMessage /\ m.topic = TOPIC_CTRL /\ m.total_chunks = total_chunks
        /\ inbox' = Append(inbox, m) /\ Lacks' = Lacks
        /\ Pending = 0 /\ Pending' = total_chunks /\ total_chunks \in Nat
      BY <1>3, SenderSteps, AnnouncementTyped DEF SendsMetadata, Setting, DirectoryTyped
  <2> HIDE DEF m
  <2>2. /\ Len(inbox') = Len(inbox) + 1 /\ inbox'[Len(inbox) + 1] = m
        /\ \A i \in 1 .. Len(inbox) : inbox'[i] = inbox[i]
      BY <1>1, <2>1, QueueAppend
  <2>3. Followed(inbox', 0, Lacks', Pending')
      BY <1>1, <2>1, FollowedByMetadata DEF Gapless
  <2>4. ASSUME NEW k \in 1 .. Len(inbox'), inbox'[k].topic = TOPIC_CTRL
        PROVE  Followed(inbox', k, inbox'[k].total_chunks, Pending')
    <3>1. CASE k \in 1 .. Len(inbox)
      <4>1. /\ k \in 0 .. Len(inbox) /\ inbox'[k] = inbox[k]
            /\ inbox[k].total_chunks \in Nat
            /\ Followed(inbox, k, inbox[k].total_chunks, 0)
          BY <1>1, <2>1, <2>2, <2>4, <3>1 DEF Gapless
      <4> QED
          BY <1>1, <2>1, <4>1, FollowedByMetadata
    <3>2. CASE k = Len(inbox')
      <4>1. Len(inbox') \in Nat /\ inbox'[k].total_chunks = total_chunks
          BY <1>1, <2>1, <2>2, <3>2
      <4>2. Followed(inbox', Len(inbox'), total_chunks, total_chunks)
          BY <2>1, <4>1, FollowedBehind
      <4> QED
          BY <2>1, <3>2, <4>1, <4>2
    <3> QED
        BY <1>1, <2>2, <3>1, <3>2
  <2> QED
      BY <2>3, <2>4 DEF Gapless
<1>4. CASE ~on_message /\ SendsChunk
  <2> DEFINE m == ChunkMessage(NextRead)
  <2>1. /\ m \in SharedMessage /\ m.topic = TOPIC_DATA /\ m.topic # TOPIC_CTRL
        /\ inbox' = Append(inbox, m) /\ Lacks' = Lacks
        /\ Pending \in Nat \ {0} /\ Pending' = Pending - 1
      BY <1>1, <1>4, SenderSteps, NextReadTyped DEF SendsChunk, TOPIC_CTRL, TOPIC_DATA
  <2> HIDE DEF m
  <2>2. /\ Len(inbox') = Len(inbox) + 1 /\ inbox'[Len(inbox) + 1] = m
        /\ \A i \in 1 .. Len(inbox) : inbox'[i] = inbox[i]
      BY <1>1, <2>1, QueueAppend
  <2>3. Followed(inbox', 0, Lacks', Pending')
      BY <1>1, <2>1, FollowedByChunk DEF Gapless
  <2>4. ASSUME NEW k \in 1 .. Len(inbox'), inbox'[k].topic = TOPIC_CTRL
        PROVE  Followed(inbox', k, inbox'[k].total_chunks, Pending')
    <3>1. k \in 1 .. Len(inbox)
        BY <1>1, <2>1, <2>2, <2>4
    <3>2. /\ k \in 0 .. Len(inbox) /\ inbox'[k] = inbox[k]
          /\ inbox[k].total_chunks \in Nat
          /\ Followed(inbox, k, inbox[k].total_chunks, Pending)
        BY <1>1, <2>2, <2>4, <3>1 DEF Gapless
    <3> QED
        BY <1>1, <2>1, <3>2, FollowedByChunk
  <2> QED
      BY <2>3, <2>4 DEF Gapless
<1>5. CASE on_message
  <2> DEFINE m == inbox[1]
  <2>1. /\ inbox # <<>> /\ inbox' = Tail(inbox) /\ Pending' = Pending
        /\ \/ Opens(m) /\ Lacks' = m.total_chunks
           \/ Dies(m) /\ Lacks' = 0
           \/ (Takes(m) \/ Completes(m)) /\ Lacks' = Lacks - 1
      BY <1>5, DeliverySteps
  <2>2. /\ Len(inbox) \in Nat \ {0} /\ 1 \in 1 .. Len(inbox)
        /\ Len(inbox') = Len(inbox) - 1
        /\ \A i \in 1 .. Len(inbox') :
              inbox'[i] = inbox[i + 1] /\ i + 1 \in 1 .. Len(inbox)
      BY <1>1, <2>1, QueueTail
  <2>3. ASSUME NEW k \in 1 .. Len(inbox'), inbox'[k].topic = TOPIC_CTRL
        PROVE  Followed(inbox', k, inbox'[k].total_chunks, Pending')
    <3>1. /\ k + 1 \in 1 .. Len(inbox) /\ inbox'[k] = inbox[k + 1]
          /\ inbox[k + 1].total_chunks \in Nat /\ (k + 1) - 1 = k
          /\ Followed(inbox, k + 1, inbox[k + 1].total_chunks, Pending)
        BY <1>1, <2>2, <2>3 DEF Gapless
    <3>2. Followed(Tail(inbox), (k + 1) - 1, inbox[k + 1].total_chunks, Pending)
        BY <1>1, <2>1, <3>1, FollowedShift
    <3> QED
        BY <2>1, <3>1, <3>2
  <2>4. CASE Opens(m) \/ Dies(m)
    <3>1. m.total_chunks \in Nat /\ Followed(inbox, 1, m.total_chunks, Pending)
        BY <1>1, <2>2, <2>4 DEF Gapless, Opens, Dies
    <3>2. Followed(Tail(inbox), 1 - 1, m.total_chunks, Pending)
        BY <1>1, <2>1, <2>2, <3>1, FollowedShift
    <3>3. CASE Lacks' = m.total_chunks
        BY <2>1, <2>3, <3>2, <3>3 DEF Gapless
    <3>4. CASE Lacks' # m.total_chunks
      <4>1. ~alive' /\ m.total_chunks > 0
          BY <2>1, <2>4, <3>1, <3>4 DEF Dies, Opens, Takes, Completes,
             TOPIC_CTRL, TOPIC_DATA
      <4>2. 1 + m.total_chunks <= Len(inbox) + Pending
          BY <1>1, <3>1 DEF Followed
      <4> QED
          BY <1>1, <2>1, <2>2, <3>1, <4>1, <4>2 DEF Stuck
    <3> QED
        BY <3>3, <3>4
  <2>5. CASE Takes(m) \/ Completes(m)
    <3>1. m.topic = TOPIC_DATA /\ Lacks' = Lacks - 1
        BY <2>1, <2>5 DEF Takes, Completes, Opens, Dies, TOPIC_CTRL, TOPIC_DATA
    <3>2. Followed(Tail(inbox), 0, Lacks - 1, Pending)
        BY <1>1, <2>1, <3>1, FollowedFirst DEF Gapless
    <3> QED
        BY <2>1, <2>3, <3>1, <3>2 DEF Gapless
  <2> QED
      BY <2>1, <2>4, <2>5
<1> QED
    BY <1>2, <1>3, <1>4, <1>5, SenderSteps

-----------------------------------------------------------------------------
(* Whose chunks the messages are, as the queue moves.                      *)
LEMMA PlacedAppend ==
    ASSUME NEW q \in Seq(SharedMessage), NEW e \in SharedMessage,
           NEW F \in [0 .. Len(q) -> File \cup {None}],
           NEW P \in [0 .. Len(q) -> Nat], Placed(q, F, P),
           NEW f \in File \cup {None}, NEW p \in Nat,
           Places(e, F[Len(q)], P[Len(q)], f, p)
    PROVE  \E G \in [0 .. Len(Append(q, e)) -> File \cup {None}],
              Q \in [0 .. Len(Append(q, e)) -> Nat] :
              /\ Placed(Append(q, e), G, Q)
              /\ G[0] = F[0] /\ Q[0] = P[0]
              /\ G[Len(q) + 1] = f /\ Q[Len(q) + 1] = p
<1> DEFINE r == Append(q, e)
           n == Len(q)
           G == [i \in 0 .. n + 1 |-> IF i <= n THEN F[i] ELSE f]
           Q == [i \in 0 .. n + 1 |-> IF i <= n THEN P[i] ELSE p]
<1>1. /\ n \in Nat /\ Len(r) = n + 1
      /\ \A i \in 1 .. n : r[i] = q[i]
      /\ r[n + 1] = e
    BY QueueAppend
<1> HIDE DEF r
<1>2. G \in [0 .. n + 1 -> File \cup {None}] /\ Q \in [0 .. n + 1 -> Nat]
    BY <1>1
<1>3. /\ \A i \in 0 .. n : G[i] = F[i] /\ Q[i] = P[i]
      /\ G[n + 1] = f /\ Q[n + 1] = p
    BY <1>1
<1> HIDE DEF G, Q
<1>4. ASSUME NEW i \in 1 .. n + 1 PROVE Places(r[i], G[i - 1], Q[i - 1], G[i], Q[i])
  <2>1. CASE i \in 1 .. n
    <3>1. i \in 0 .. n /\ i - 1 \in 0 .. n
        BY <1>1, <2>1
    <3>2. Places(q[i], F[i - 1], P[i - 1], F[i], P[i])
        BY <2>1 DEF Placed
    <3> QED
        BY <1>1, <1>3, <2>1, <3>1, <3>2
  <2>2. CASE i = n + 1
    <3>1. i - 1 = n /\ n \in 0 .. n
        BY <1>1, <2>2
    <3>2. r[i] = e /\ G[i] = f /\ Q[i] = p /\ G[i - 1] = F[n] /\ Q[i - 1] = P[n]
        BY <1>1, <1>3, <2>2, <3>1
    <3> QED
        BY <3>2
  <2> QED
      BY <1>1, <2>1, <2>2
<1>5. Placed(r, G, Q)
    BY <1>1, <1>4 DEF Placed
<1>6. 0 \in 0 .. n
    BY <1>1
<1> QED
    BY <1>1, <1>2, <1>3, <1>5, <1>6 DEF r

LEMMA PlacedTail ==
    ASSUME NEW q \in Seq(SharedMessage), q # <<>>,
           NEW F \in [0 .. Len(q) -> File \cup {None}],
           NEW P \in [0 .. Len(q) -> Nat], Placed(q, F, P)
    PROVE  \E G \in [0 .. Len(Tail(q)) -> File \cup {None}],
              Q \in [0 .. Len(Tail(q)) -> Nat] :
              /\ Placed(Tail(q), G, Q)
              /\ G[0] = F[1] /\ Q[0] = P[1]
              /\ G[Len(Tail(q))] = F[Len(q)] /\ Q[Len(Tail(q))] = P[Len(q)]
<1> DEFINE r == Tail(q)
           n == Len(q)
           G == [i \in 0 .. n - 1 |-> F[i + 1]]
           Q == [i \in 0 .. n - 1 |-> P[i + 1]]
<1>1. /\ n \in Nat \ {0} /\ Len(r) = n - 1
      /\ \A i \in 1 .. Len(r) : r[i] = q[i + 1] /\ i + 1 \in 1 .. n
    BY QueueTail
<1> HIDE DEF r
<1>2. \A i \in 0 .. n - 1 : i + 1 \in 0 .. n
    BY <1>1
<1>3. G \in [0 .. n - 1 -> File \cup {None}] /\ Q \in [0 .. n - 1 -> Nat]
    BY <1>1, <1>2
<1>4. \A i \in 0 .. n - 1 : G[i] = F[i + 1] /\ Q[i] = P[i + 1]
    BY <1>1
<1> HIDE DEF G, Q
<1>5. ASSUME NEW i \in 1 .. n - 1 PROVE Places(r[i], G[i - 1], Q[i - 1], G[i], Q[i])
  <2>1. /\ i \in 0 .. n - 1 /\ i - 1 \in 0 .. n - 1
        /\ (i - 1) + 1 = i /\ (i + 1) - 1 = i
      BY <1>1
  <2>2. i \in 1 .. Len(r) /\ i + 1 \in 1 .. n /\ r[i] = q[i + 1]
      BY <1>1
  <2>3. Places(q[i + 1], F[(i + 1) - 1], P[(i + 1) - 1], F[i + 1], P[i + 1])
      BY <2>2 DEF Placed
  <2>4. /\ G[i] = F[i + 1] /\ Q[i] = P[i + 1]
        /\ G[i - 1] = F[i] /\ Q[i - 1] = P[i]
      BY <1>4, <2>1
  <2> QED
      BY <2>1, <2>2, <2>3, <2>4
<1>6. Placed(r, G, Q)
    BY <1>1, <1>5 DEF Placed
<1>7. 0 \in 0 .. n - 1 /\ 0 + 1 = 1 /\ n - 1 \in 0 .. n - 1 /\ (n - 1) + 1 = n
    BY <1>1
<1>8. G[0] = F[1] /\ Q[0] = P[1] /\ G[n - 1] = F[n] /\ Q[n - 1] = P[n]
    BY <1>4, <1>7
<1> QED
    BY <1>1, <1>3, <1>6, <1>8 DEF r

LEMMA TracedKeeps ==
    ASSUME Setting, Setting', Beginnings, Gapless, Traced, [SharedNext]_dvars
    PROVE  Traced'
<1>1. /\ inbox \in Seq(SharedMessage) /\ Len(inbox) \in Nat
      /\ Lacks \in Nat /\ Pending \in Nat
    BY CountsTyped, QueueFacts DEF Setting, DirectoryTyped
<1>2. PICK F \in [0 .. Len(inbox) -> File \cup {None}],
           P \in [0 .. Len(inbox) -> Nat] :
           /\ Placed(inbox, F, P)
           /\ current_file_handle # None =>
                 F[0] = current_file_handle /\ P[0] = Len(Output)
           /\ Pending > 0 => F[Len(inbox)] = filename /\ P[Len(inbox)] = position
    BY DEF Traced
<1>3. ASSUME ~on_message
      PROVE  current_file_handle' # None =>
                 F[0] = current_file_handle' /\ P[0] = Len(Output')
    BY <1>2, <1>3, SenderSteps DEF Receiving
<1>4. CASE ~on_message /\ SendsNothing
  <2>1. inbox' = inbox
      BY <1>4 DEF SendsNothing
  <2>2. Pending' > 0 => F[Len(inbox)] = filename' /\ P[Len(inbox)] = position'
      BY <1>2, <1>4 DEF SendsNothing
  <2>3. Placed(inbox, F, P)
      BY <1>2
  <2> QED
      BY <1>3, <1>4, <2>1, <2>2, <2>3 DEF Traced
<1>5. CASE ~on_message /\ SendsMetadata
  <2> DEFINE m == Announcement
  <2>1. /\ m \in SharedMessage /\ m.topic = TOPIC_CTRL /\ m.filename = filename
        /\ filename \in File /\ inbox' = Append(inbox, m)
        /\ filename' = filename /\ position' = 0
      BY <1>5, AnnouncementTyped DEF SendsMetadata
  <2> HIDE DEF m
  <2>2. Places(m, F[Len(inbox)], P[Len(inbox)], filename, 0)
      BY <2>1 DEF Places
  <2>3. Len(inbox') = Len(inbox) + 1 /\ Placed(inbox, F, P)
      BY <1>1, <1>2, <2>1, QueueAppend
  <2>4. PICK G \in [0 .. Len(inbox') -> File \cup {None}],
             Q \in [0 .. Len(inbox') -> Nat] :
              /\ Placed(inbox', G, Q)
              /\ G[0] = F[0] /\ Q[0] = P[0]
              /\ G[Len(inbox) + 1] = filename /\ Q[Len(inbox) + 1] = 0
    <3>1. filename \in File \cup {None} /\ 0 \in Nat
        BY <2>1
    <3>2. \E G \in [0 .. Len(Append(inbox, m)) -> File \cup {None}],
             Q \in [0 .. Len(Append(inbox, m)) -> Nat] :
              /\ Placed(Append(inbox, m), G, Q)
              /\ G[0] = F[0] /\ Q[0] = P[0]
              /\ G[Len(inbox) + 1] = filename /\ Q[Len(inbox) + 1] = 0
        BY <1>1, <2>1, <2>2, <2>3, <3>1, PlacedAppend
    <3> QED
        BY <2>1, <3>2
  <2>5. /\ current_file_handle' # None =>
              G[0] = current_file_handle' /\ Q[0] = Len(Output')
        /\ G[Len(inbox')] = filename' /\ Q[Len(inbox')] = position'
      BY <1>3, <1>5, <2>1, <2>3, <2>4
  <2> QED
      BY <2>4, <2>5 DEF Traced
<1>6. CASE ~on_message /\ SendsChunk
  <2> DEFINE m == ChunkMessage(NextRead)
             f == filename
             p == IF AtEnd THEN position ELSE position + 1
  <2>1. /\ m \in SharedMessage /\ m.topic # TOPIC_CTRL /\ m.payload = NextRead
        /\ f \in File /\ inbox' = Append(inbox, m) /\ position \in Nat
        /\ filename' = f /\ position' = p
        /\ F[Len(inbox)] = f /\ P[Len(inbox)] = position
      BY <1>2, <1>6, NextReadTyped
      DEF SendsChunk, TOPIC_CTRL, TOPIC_DATA, Setting, DirectoryTyped
  <2>2. Places(m, f, position, f, p)
    <3>1. CASE AtEnd
        BY <1>6, <2>1, <3>1, NextReadTyped DEF Places, SendsChunk
    <3>2. CASE ~AtEnd
      <4>1. /\ NextRead # None /\ position + 1 \in 1 .. Len(disk[f])
            /\ NextRead = disk[f][position + 1] /\ p = position + 1
          BY <1>6, <3>2, NextReadTyped DEF SendsChunk
      <4>2. /\ Len(disk[f]) <= Len(Content[f])
            /\ disk[f][position + 1] = Content[f][position + 1]
          BY <2>1, <4>1 DEF Beginnings, Begins
      <4>3. Len(disk[f]) \in Nat /\ Len(Content[f]) \in Nat
          BY <2>1, ContentTyped, LenProperties DEF Setting, ReceiverTyped
      <4>4. p <= Len(Content[f])
          BY <2>1, <4>1, <4>2, <4>3
      <4> QED
          BY <2>1, <4>1, <4>2, <4>4 DEF Places
    <3> QED
        BY <3>1, <3>2
  <2>3. p \in Nat
      BY <2>1
  <2> HIDE DEF m, f, p
  <2>4. Len(inbox') = Len(inbox) + 1
      BY <1>1, <2>1, QueueAppend
  <2>5. PICK G \in [0 .. Len(inbox') -> File \cup {None}],
             Q \in [0 .. Len(inbox') -> Nat] :
              /\ Placed(inbox', G, Q)
              /\ G[0] = F[0] /\ Q[0] = P[0]
              /\ G[Len(inbox) + 1] = f /\ Q[Len(inbox) + 1] = p
      BY <1>1, <1>2, <2>1, <2>2, <2>3, PlacedAppend
  <2>6. /\ current_file_handle' # None =>
              G[0] = current_file_handle' /\ Q[0] = Len(Output')
        /\ G[Len(inbox')] = filename' /\ Q[Len(inbox')] = position'
      BY <1>3, <1>6, <2>1, <2>4, <2>5
  <2> QED
      BY <2>5, <2>6 DEF Traced
<1>7. CASE on_message
  <2> DEFINE m == inbox[1]
  <2>1. /\ inbox # <<>> /\ inbox' = Tail(inbox)
        /\ Pending' = Pending /\ filename' = filename /\ position' = position
        /\ Opens(m) \/ Dies(m) \/ Takes(m) \/ Completes(m)
      BY <1>7, DeliverySteps DEF sending
  <2>2. PICK G \in [0 .. Len(inbox') -> File \cup {None}],
             Q \in [0 .. Len(inbox') -> Nat] :
              /\ Placed(inbox', G, Q)
              /\ G[0] = F[1] /\ Q[0] = P[1]
              /\ G[Len(inbox')] = F[Len(inbox)] /\ Q[Len(inbox')] = P[Len(inbox)]
      BY <1>1, <1>2, <2>1, PlacedTail
  <2>3. /\ 1 \in 1 .. Len(inbox) /\ m \in SharedMessage
        /\ m.topic = TOPIC_DATA => m.topic # TOPIC_CTRL /\ m.payload \in Chunk \cup {None}
        /\ m.topic = TOPIC_CTRL => m.filename \in File
      BY <1>1, <2>1, QueueTail, QueueFacts
  <2>4. Places(m, F[0], P[0], F[1], P[1])
    <3>1. Places(inbox[1], F[1 - 1], P[1 - 1], F[1], P[1])
        BY <1>2, <2>3 DEF Placed
    <3> QED
        BY <3>1
  <2>5. current_file_handle' # None =>
           F[1] = current_file_handle' /\ P[1] = Len(Output')
    <3>1. CASE Opens(m)
      <4>1. /\ current_file_handle' = m.filename /\ m.filename \in File
            /\ disk' = [DiskAfterClose EXCEPT ![m.filename] = <<>>]
            /\ DiskAfterClose \in [File -> Seq(Chunk)] /\ buffer' = <<>>
          BY <2>3, <3>1, ClosedTyped DEF Opens, Setting
      <4>2. Output' = <<>> \o <<>>
          BY <4>1, NoneAssumption DEF Output
      <4>3. Len(Output') = 0
          BY <4>2, ConcatEmptySeq, EmptySeq
      <4> QED
          BY <2>4, <3>1, <4>1, <4>3 DEF Places, Opens
    <3>2. CASE Dies(m) \/ Completes(m)
        BY <3>2 DEF Dies, Completes
    <3>3. CASE Takes(m)
      <4>1. /\ current_file_handle # None /\ current_file_handle' = current_file_handle
            /\ Output' = Given(m) /\ m.topic # TOPIC_CTRL
            /\ m.payload \in Chunk \cup {None}
            /\ F[0] = current_file_handle /\ P[0] = Len(Output)
          BY <1>2, <2>3, <3>3 DEF Takes
      <4>2. Output \in Seq(Chunk)
          BY <4>1, OutputTyped DEF Setting
      <4>3. CASE m.payload = None
          BY <2>4, <4>1, <4>3 DEF Places, Given
      <4>4. CASE m.payload # None
        <5>1. m.payload \in Chunk /\ Output' = Append(Output, m.payload)
            BY <4>1, <4>4 DEF Given
        <5>2. Len(Output') = Len(Output) + 1
            BY <4>2, <5>1, AppendProperties
        <5>3. F[1] = F[0] /\ P[1] = P[0] + 1
            BY <2>4, <4>1, <4>4 DEF Places
        <5> QED
            BY <4>1, <5>2, <5>3
      <4> QED
          BY <4>3, <4>4
    <3> QED
        BY <2>1, <3>1, <3>2, <3>3
  <2>6. /\ current_file_handle' # None =>
              G[0] = current_file_handle' /\ Q[0] = Len(Output')
        /\ Pending' > 0 => G[Len(inbox')] = filename' /\ Q[Len(inbox')] = position'
      BY <1>2, <2>1, <2>2, <2>5
  <2> QED
      BY <2>2, <2>6 DEF Traced
<1> QED
    BY <1>4, <1>5, <1>6, <1>7, SenderSteps

-----------------------------------------------------------------------------
(* Which transfers the messages are of, as the queue moves.                *)
LEMMA NumberedAppend ==
    ASSUME NEW q \in Seq(SharedMessage), NEW e \in SharedMessage,
           NEW a \in Seq(File), NEW b \in Seq(File),
           Len(a) <= Len(b), \A i \in 1 .. Len(a) : b[i] = a[i],
           NEW N \in [0 .. Len(q) -> 0 .. Len(a)], Numbered(a, q, N),
           Numbers(b, e, N[Len(q)], Len(b))
    PROVE  \E M \in [0 .. Len(Append(q, e)) -> 0 .. Len(b)] :
              /\ Numbered(b, Append(q, e), M)
              /\ M[0] = N[0] /\ M[Len(q) + 1] = Len(b)
<1> DEFINE r == Append(q, e)
           n == Len(q)
           M == [i \in 0 .. n + 1 |-> IF i <= n THEN N[i] ELSE Len(b)]
<1>1. /\ n \in Nat /\ Len(r) = n + 1
      /\ \A i \in 1 .. n : r[i] = q[i]
      /\ r[n + 1] = e
      /\ Len(a) \in Nat /\ Len(b) \in Nat
    BY QueueAppend, LenProperties
<1> HIDE DEF r
<1>2. \A i \in 0 .. n : N[i] \in 0 .. Len(b)
    BY <1>1
<1>3. M \in [0 .. n + 1 -> 0 .. Len(b)]
    BY <1>1, <1>2
<1>4. /\ \A i \in 0 .. n : M[i] = N[i]
      /\ M[n + 1] = Len(b)
    BY <1>1
<1> HIDE DEF M
<1>5. ASSUME NEW i \in 1 .. n + 1 PROVE Numbers(b, r[i], M[i - 1], M[i])
  <2>1. CASE i \in 1 .. n
    <3>1. i \in 0 .. n /\ i - 1 \in 0 .. n
        BY <1>1, <2>1
    <3>2. Numbers(a, q[i], N[i - 1], N[i])
        BY <2>1 DEF Numbered
    <3>3. N[i - 1] \in 0 .. Len(a) /\ N[i] \in 0 .. Len(a)
        BY <3>1
    <3>4. N[i] = N[i - 1] + 1 => N[i] \in 1 .. Len(a)
        BY <1>1, <3>3
    <3>5. Numbers(b, q[i], N[i - 1], N[i])
        BY <3>2, <3>4 DEF Numbers
    <3> QED
        BY <1>1, <1>4, <2>1, <3>1, <3>5
  <2>2. CASE i = n + 1
    <3>1. i - 1 = n /\ n \in 0 .. n
        BY <1>1, <2>2
    <3>2. r[i] = e /\ M[i] = Len(b) /\ M[i - 1] = N[n]
        BY <1>1, <1>4, <2>2, <3>1
    <3> QED
        BY <3>2
  <2> QED
      BY <1>1, <2>1, <2>2
<1>6. Numbered(b, r, M)
    BY <1>1, <1>5 DEF Numbered
<1>7. 0 \in 0 .. n
    BY <1>1
<1> QED
    BY <1>1, <1>3, <1>4, <1>6, <1>7 DEF r

LEMMA NumberedTail ==
    ASSUME NEW q \in Seq(SharedMessage), q # <<>>, NEW a \in Seq(File),
           NEW N \in [0 .. Len(q) -> 0 .. Len(a)], Numbered(a, q, N)
    PROVE  \E M \in [0 .. Len(Tail(q)) -> 0 .. Len(a)] :
              /\ Numbered(a, Tail(q), M)
              /\ M[0] = N[1] /\ M[Len(Tail(q))] = N[Len(q)]
<1> DEFINE r == Tail(q)
           n == Len(q)
           M == [i \in 0 .. n - 1 |-> N[i + 1]]
<1>1. /\ n \in Nat \ {0} /\ Len(r) = n - 1
      /\ \A i \in 1 .. Len(r) : r[i] = q[i + 1] /\ i + 1 \in 1 .. n
    BY QueueTail
<1> HIDE DEF r
<1>2. \A i \in 0 .. n - 1 : i + 1 \in 0 .. n
    BY <1>1
<1>3. M \in [0 .. n - 1 -> 0 .. Len(a)]
    BY <1>1, <1>2
<1>4. \A i \in 0 .. n - 1 : M[i] = N[i + 1]
    BY <1>1
<1> HIDE DEF M
<1>5. ASSUME NEW i \in 1 .. n - 1 PROVE Numbers(a, r[i], M[i - 1], M[i])
  <2>1. /\ i \in 0 .. n - 1 /\ i - 1 \in 0 .. n - 1
        /\ (i - 1) + 1 = i /\ (i + 1) - 1 = i
      BY <1>1
  <2>2. i \in 1 .. Len(r) /\ i + 1 \in 1 .. n /\ r[i] = q[i + 1]
      BY <1>1
  <2>3. Numbers(a, q[i + 1], N[(i + 1) - 1], N[i + 1])
      BY <2>2 DEF Numbered
  <2>4. M[i] = N[i + 1] /\ M[i - 1] = N[i]
      BY <1>4, <2>1
  <2> QED
      BY <2>1, <2>2, <2>3, <2>4
<1>6. Numbered(a, r, M)
    BY <1>1, <1>5 DEF Numbered
<1>7. 0 \in 0 .. n - 1 /\ 0 + 1 = 1 /\ n - 1 \in 0 .. n - 1 /\ (n - 1) + 1 = n
    BY <1>1
<1>8. M[0] = N[1] /\ M[n - 1] = N[n]
    BY <1>4, <1>7
<1> QED
    BY <1>1, <1>3, <1>6, <1>8 DEF r

LEMMA AnsweredKeeps ==
    ASSUME Setting, Gapless, Answered, [SharedNext]_dvars
    PROVE  Stuck' \/ Answered'
<1>1. /\ inbox \in Seq(SharedMessage) /\ Len(inbox) \in Nat
      /\ Lacks \in Nat /\ Pending \in Nat
      /\ announced \in Seq(File) /\ Len(announced) \in Nat
      /\ rows \in Seq(SharedRow) /\ Len(rows) \in Nat
    BY CountsTyped, QueueFacts, LenProperties
    DEF Setting, DirectoryTyped, ReceiverTyped
<1> DEFINE open == IF Lacks > 0 THEN 1 ELSE 0
<1>2. PICK N \in [0 .. Len(inbox) -> 0 .. Len(announced)] :
        /\ Numbered(announced, inbox, N)
        /\ N[0] = Len(rows) + open
        /\ N[Len(inbox)] = Len(announced)
        /\ Lacks > 0 => announced[N[0]] = current_file_handle
        /\ \A i \in 1 .. Len(rows) : rows[i].file = announced[i]
    BY DEF Answered
<1>3. N[0] \in 0 .. Len(announced) /\ Len(rows) <= Len(announced)
  <2>1. 0 \in 0 .. Len(inbox)
      BY <1>1
  <2> QED
      BY <1>1, <1>2, <2>1
<1>4. ASSUME ~on_message
      PROVE  rows' = rows /\ Lacks' = Lacks /\ current_file_handle' = current_file_handle
    BY <1>4, SenderSteps DEF Receiving
<1>5. CASE ~on_message /\ SendsNothing
  <2>1. inbox' = inbox /\ announced' = announced
      BY <1>5 DEF SendsNothing
  <2> QED
      BY <1>2, <1>4, <1>5, <2>1 DEF Answered
<1>6. CASE ~on_message /\ (SendsMetadata \/ SendsChunk)
  <2>1. \E e \in SharedMessage :
           /\ inbox' = Append(inbox, e)
           /\ announced' \in Seq(File) /\ Len(announced') \in Nat
           /\ Len(announced) <= Len(announced')
           /\ \A i \in 1 .. Len(announced) : announced'[i] = announced[i]
           /\ Numbers(announced', e, Len(announced), Len(announced'))
    <3>1. CASE SendsMetadata
      <4> DEFINE m == Announcement
      <4>1. /\ m \in SharedMessage /\ m.topic = TOPIC_CTRL
            /\ m.filename = filename /\ m.total_chunks = total_chunks
            /\ filename \in File /\ inbox' = Append(inbox, m)
            /\ announced' = IF total_chunks > 0 THEN Append(announced, filename)
                            ELSE announced
          BY <3>1, AnnouncementTyped DEF SendsMetadata
      <4> HIDE DEF m
      <4>2. CASE total_chunks > 0
        <5>1. /\ announced' \in Seq(File) /\ Len(announced') = Len(announced) + 1
              /\ \A i \in 1 .. Len(announced) : announced'[i] = announced[i]
              /\ announced'[Len(announced) + 1] = filename
            BY <1>1, <4>1, <4>2, AppendProperties
        <5>2. Numbers(announced', m, Len(announced), Len(announced'))
            BY <4>1, <4>2, <5>1 DEF Numbers
        <5> QED
            BY <1>1, <4>1, <5>1, <5>2
      <4>3. CASE ~(total_chunks > 0)
        <5>1. Numbers(announced', m, Len(announced), Len(announced'))
            BY <4>1, <4>3 DEF Numbers
        <5> QED
            BY <1>1, <4>1, <4>3, <5>1
      <4> QED
          BY <4>2, <4>3
    <3>2. CASE SendsChunk
      <4> DEFINE m == ChunkMessage(NextRead)
      <4>1. /\ m \in SharedMessage /\ m.topic # TOPIC_CTRL
            /\ inbox' = Append(inbox, m) /\ announced' = announced
          BY <3>2, NextReadTyped DEF SendsChunk, TOPIC_CTRL, TOPIC_DATA
      <4> HIDE DEF m
      <4>2. Numbers(announced', m, Len(announced), Len(announced'))
          BY <4>1 DEF Numbers
      <4> QED
          BY <1>1, <4>1, <4>2
    <3> QED
        BY <1>6, <3>1, <3>2
  <2>2. PICK e \in SharedMessage :
           /\ inbox' = Append(inbox, e)
           /\ announced' \in Seq(File) /\ Len(announced') \in Nat
           /\ Len(announced) <= Len(announced')
           /\ \A i \in 1 .. Len(announced) : announced'[i] = announced[i]
           /\ Numbers(announced', e, Len(announced), Len(announced'))
      BY <2>1
  <2>3. Len(inbox') = Len(inbox) + 1
      BY <1>1, <2>2, QueueAppend
  <2>4. PICK M \in [0 .. Len(inbox') -> 0 .. Len(announced')] :
           /\ Numbered(announced', inbox', M)
           /\ M[0] = N[0] /\ M[Len(inbox) + 1] = Len(announced')
    <3>1. /\ Numbered(announced, inbox, N)
          /\ Numbers(announced', e, N[Len(inbox)], Len(announced'))
        BY <1>2, <2>2
    <3>2. \E M \in [0 .. Len(Append(inbox, e)) -> 0 .. Len(announced')] :
              /\ Numbered(announced', Append(inbox, e), M)
              /\ M[0] = N[0] /\ M[Len(inbox) + 1] = Len(announced')
        BY <1>1, <2>2, <3>1, NumberedAppend
    <3> QED
        BY <2>2, <3>2
  <2>5. Lacks > 0 => N[0] \in 1 .. Len(announced)
      BY <1>1, <1>2, <1>3
  <2>6. \A i \in 1 .. Len(rows) : i \in 1 .. Len(announced)
      BY <1>1, <1>3
  <2>7. /\ M[0] = Len(rows') + (IF Lacks' > 0 THEN 1 ELSE 0)
        /\ M[Len(inbox')] = Len(announced')
        /\ Lacks' > 0 => announced'[M[0]] = current_file_handle'
        /\ \A i \in 1 .. Len(rows') : rows'[i].file = announced'[i]
      BY <1>2, <1>4, <1>6, <2>2, <2>3, <2>4, <2>5, <2>6
  <2> QED
      BY <2>4, <2>7 DEF Answered
<1>7. CASE on_message
  <2> DEFINE m == inbox[1]
  <2>1. /\ inbox # <<>> /\ inbox' = Tail(inbox) /\ announced' = announced
        /\ \/ Opens(m) /\ Lacks = 0 /\ Lacks' = m.total_chunks
           \/ Dies(m) /\ Lacks = 0 /\ Lacks' = 0
           \/ Takes(m) /\ Lacks > 1 /\ Lacks' = Lacks - 1
           \/ Completes(m) /\ Lacks = 1 /\ Lacks' = 0
      BY <1>7, DeliverySteps
  <2>2. /\ Len(inbox) \in Nat \ {0} /\ 1 \in 1 .. Len(inbox)
        /\ Len(inbox') = Len(inbox) - 1
        /\ m.topic = TOPIC_CTRL => m.total_chunks \in Nat /\ m.filename \in File
      BY <1>1, <2>1, QueueTail, QueueFacts
  <2>3. PICK M \in [0 .. Len(inbox') -> 0 .. Len(announced)] :
           /\ Numbered(announced, inbox', M)
           /\ M[0] = N[1] /\ M[Len(inbox')] = N[Len(inbox)]
      BY <1>1, <1>2, <2>1, NumberedTail
  <2>4. Numbers(announced, m, N[0], N[1])
    <3>1. Numbers(announced, inbox[1], N[1 - 1], N[1])
        BY <1>2, <2>2 DEF Numbered
    <3> QED
        BY <3>1
  <2>5. Stuck' \/
        /\ M[0] = Len(rows') + (IF Lacks' > 0 THEN 1 ELSE 0)
        /\ Lacks' > 0 => announced[M[0]] = current_file_handle'
        /\ \A i \in 1 .. Len(rows') : rows'[i].file = announced[i]
    <3>1. CASE Opens(m) /\ Lacks = 0 /\ Lacks' = m.total_chunks
      <4>1. /\ m.topic = TOPIC_CTRL /\ rows' = rows /\ m.total_chunks \in Nat
            /\ current_file_handle' = m.filename
          BY <2>2, <3>1 DEF Opens
      <4>2. N[0] = Len(rows)
          BY <1>1, <1>2, <3>1
      <4>3. CASE m.total_chunks > 0
          BY <1>2, <2>3, <2>4, <3>1, <4>1, <4>2, <4>3 DEF Numbers
      <4>4. CASE ~(m.total_chunks > 0)
          BY <1>2, <2>3, <2>4, <3>1, <4>1, <4>2, <4>4 DEF Numbers
      <4> QED
          BY <4>3, <4>4
    <3>2. CASE Dies(m) /\ Lacks = 0 /\ Lacks' = 0
      <4>1. CASE m.total_chunks = 0
          BY <1>1, <1>2, <2>2, <2>3, <2>4, <3>2, <4>1 DEF Dies, Numbers
      <4>2. CASE m.total_chunks # 0
        <5>1. Followed(inbox, 1, m.total_chunks, Pending) /\ m.total_chunks \in Nat
            BY <2>2, <3>2 DEF Gapless, Dies
        <5>2. 1 + m.total_chunks <= Len(inbox) + Pending
            BY <1>1, <5>1 DEF Followed
        <5>3. ~alive' /\ Pending' = Pending
            BY <1>7, <3>2, DeliverySteps DEF Dies
        <5> QED
            BY <1>1, <2>2, <4>2, <5>1, <5>2, <5>3 DEF Stuck
      <4> QED
          BY <4>1, <4>2
    <3>3. CASE Takes(m) /\ Lacks > 1 /\ Lacks' = Lacks - 1
      <4>1. m.topic # TOPIC_CTRL /\ Lacks > 0 /\ Lacks' > 0
          BY <1>1, <3>3 DEF Takes, TOPIC_CTRL, TOPIC_DATA
      <4> QED
          BY <1>1, <1>2, <2>3, <2>4, <3>3, <4>1 DEF Takes, Numbers
    <3>4. CASE Completes(m) /\ Lacks = 1 /\ Lacks' = 0
      <4>1. PICK row \in SharedRow :
               rows' = Append(rows, row) /\ row.file = current_filename
          BY <3>4 DEF Completes
      <4>2. /\ Len(rows') = Len(rows) + 1 /\ rows'[Len(rows) + 1] = row
            /\ \A i \in 1 .. Len(rows) : rows'[i] = rows[i]
          BY <1>1, <4>1, AppendProperties
      <4>3. row.file = current_file_handle /\ m.topic # TOPIC_CTRL
          BY <3>4, <4>1 DEF Completes, Setting, Described, TOPIC_CTRL, TOPIC_DATA
      <4>4. N[0] = Len(rows) + 1 /\ announced[N[0]] = current_file_handle
          BY <1>2, <3>4
      <4>5. M[0] = N[0]
          BY <2>3, <2>4, <4>3 DEF Numbers
      <4>6. \A i \in 1 .. Len(rows') : i \in 1 .. Len(rows) \/ i = Len(rows) + 1
          BY <1>1, <4>2
      <4>7. \A i \in 1 .. Len(rows') : rows'[i].file = announced[i]
          BY <1>2, <4>2, <4>3, <4>4, <4>6
      <4>8. M[0] = Len(rows') + (IF Lacks' > 0 THEN 1 ELSE 0)
          BY <3>4, <4>2, <4>4, <4>5
      <4> QED
          BY <3>4, <4>7, <4>8
    <3> QED
        BY <2>1, <3>1, <3>2, <3>3, <3>4
  <2>6. M[Len(inbox')] = Len(announced)
      BY <1>2, <2>3
  <2> QED
      BY <2>1, <2>3, <2>5, <2>6 DEF Answered
<1> QED
    BY <1>5, <1>6, <1>7, SenderSteps

-----------------------------------------------------------------------------
(* The files whose source should be intact, and those it is not yet of.    *)
LEMMA RowsGrow ==
    ASSUME Setting, Stuck \/ Gapless, [SharedNext]_dvars
    PROVE  /\ Len(rows) \in Nat /\ Len(rows') \in Nat /\ Len(rows) <= Len(rows')
           /\ \A i \in 1 .. Len(rows) : rows'[i] = rows[i]
           /\ exists \subseteq exists' /\ overlapped \subseteq overlapped'
           /\ cut \subseteq cut'
<1>1. rows \in Seq(SharedRow) /\ Len(rows) \in Nat
    BY LenProperties DEF Setting, ReceiverTyped
<1>2. ASSUME rows' = rows
      PROVE  Len(rows') \in Nat /\ Len(rows) <= Len(rows')
             /\ \A i \in 1 .. Len(rows) : rows'[i] = rows[i]
    BY <1>1, <1>2
<1>3. CASE on_message
  <2>1. UNCHANGED <<exists, sending, announced, overlapped, cut>>
      BY <1>3, DeliverySteps
  <2>2. rows' = rows \/ \E row \in SharedRow : rows' = Append(rows, row)
      BY <1>3, DeliverySteps DEF Opens, Dies, Takes, Completes
  <2>3. CASE \E row \in SharedRow : rows' = Append(rows, row)
    <3>1. PICK row \in SharedRow : rows' = Append(rows, row)
        BY <2>3
    <3>2. /\ Len(rows') = Len(rows) + 1
          /\ \A i \in 1 .. Len(rows) : rows'[i] = rows[i]
        BY <1>1, <3>1, AppendProperties
    <3> QED
        BY <1>1, <2>1, <3>2
  <2> QED
      BY <1>1, <1>2, <2>1, <2>2, <2>3
<1>4. CASE ~on_message
  <2>1. rows' = rows
      BY <1>4, SenderSteps DEF Receiving
  <2>2. exists \subseteq exists' /\ overlapped \subseteq overlapped' /\ cut \subseteq cut'
      BY <1>4
      DEF SharedNext, Generate, GenerateCut, SkipMissing, calculate_total_chunks,
          HashChunk, send_metadata, SendChunk, Sent, dvars
  <2> QED
      BY <1>1, <1>2, <2>1, <2>2
<1> QED
    BY <1>3, <1>4

LEMMA SpotlessBefore ==
    ASSUME Setting, Stuck \/ Gapless, [SharedNext]_dvars,
           NEW f \in exists, f \in Spotless'
    PROVE  f \in Spotless
<1>1. /\ f \notin overlapped' /\ f \notin cut'
      /\ \A i \in 1 .. Len(rows') : rows'[i].file = f => rows'[i].integrity_ok
    BY DEF Spotless
<1>2. \A i \in 1 .. Len(rows) : i \in 1 .. Len(rows') /\ rows'[i] = rows[i]
    BY RowsGrow
<1> QED
    BY <1>1, <1>2, RowsGrow DEF Spotless

(* Which files are being received.                                         *)
LEMMA BusyMeans ==
    ASSUME DirectoryTyped, NEW f
    PROVE  Busy(f) <=> \/ current_file_handle = f
                       \/ \E i \in 1 .. Len(inbox) :
                             inbox[i].topic = TOPIC_CTRL /\ inbox[i].filename = f
<1>1. DOMAIN inbox = 1 .. Len(inbox)
    BY LenProperties DEF DirectoryTyped
<1> QED
    BY <1>1 DEF Busy

(* A file whose source is intact stays so when the sender moves ...        *)
LEMMA SenderSpares ==
    ASSUME Setting, Setting', [SharedNext]_dvars, ~on_message,
           Stuck \/ Gapless,
           NEW f \in File, f \in exists, Intact(f), f \in Spotless'
    PROVE  Intact(f)'
<1>1. /\ inbox \in Seq(SharedMessage) /\ Len(inbox) \in Nat
      /\ disk \in [File -> Seq(Chunk)] /\ hashed \in Seq(Chunk)
      /\ Content[f] \in Seq(Chunk) /\ Len(Content[f]) \in Nat
      /\ DirectoryTyped /\ DirectoryTyped'
    BY QueueFacts, ContentTyped DEF Setting, DirectoryTyped, ReceiverTyped
<1>2. /\ current_file_handle' = current_file_handle
      /\ expected_chunks' = expected_chunks /\ expected_checksum' = expected_checksum
    BY SenderSteps DEF Receiving, transfer
<1>3. disk'[f] = disk[f]
  <2>1. ASSUME NEW g \in File, Generate(g) \/ GenerateCut(g) PROVE disk'[f] = disk[f]
    <3>1. g # f /\ \E s \in Seq(Chunk) : disk' = [disk EXCEPT ![g] = s]
        BY <2>1, GeneratorKeeps
    <3> QED
        BY <1>1, <3>1
  <2> QED
      BY <2>1
      DEF SharedNext, SkipMissing, calculate_total_chunks, HashChunk,
          send_metadata, SendChunk, Sent, dvars, vars
<1>4. /\ current_file_handle' # f => disk'[f] = Content[f]
      /\ current_file_handle' = f =>
          /\ expected_chunks' = Len(Content[f])
          /\ expected_checksum' = Sha256(Content[f])
    BY <1>2, <1>3 DEF Intact
<1>5. ASSUME inbox' = inbox PROVE Busy(f)' <=> Busy(f)
    BY <1>2, <1>5 DEF Busy
<1>6. ASSUME inbox' = inbox, stage' # "hash" PROVE Intact(f)'
    BY <1>4, <1>6 DEF Intact
<1>7. CASE \E g \in File : Generate(g) \/ GenerateCut(g)
    BY <1>6, <1>7 DEF Generate, GenerateCut, Quiet, sending
<1>8. CASE SkipMissing
    BY <1>6, <1>8 DEF SkipMissing
<1>9. CASE calculate_total_chunks
  <2>1. inbox' = inbox /\ stage' = "hash" /\ filename' = filename
      BY <1>9 DEF calculate_total_chunks, filename
  <2>2. filename = f => ~Busy(f) /\ current_file_handle # f
      BY <1>9, <1>1, BusyMeans DEF calculate_total_chunks, Spotless
  <2>3. filename = f => total_chunks' = Len(Content[f])
      BY <1>9, <2>2 DEF calculate_total_chunks, Intact
  <2>4. Begins(hashed', Content[f])
      BY <1>1, <1>9, NothingBegins DEF calculate_total_chunks
  <2> QED
      BY <1>4, <1>5, <2>1, <2>2, <2>3, <2>4 DEF Intact
<1>10. CASE HashChunk
  <2>1. inbox' = inbox /\ filename' = filename /\ stage' = stage
        /\ total_chunks' = total_chunks /\ stage = "hash"
      BY <1>10 DEF HashChunk, filename
  <2>2. filename = f => ~Busy(f) /\ disk[f] = Content[f] /\ Begins(hashed, Content[f])
                        /\ total_chunks = Len(Content[f])
      BY <1>1, <2>1, BusyMeans DEF Intact
  <2>3. filename = f => Begins(hashed', Content[f])
    <3> SUFFICES ASSUME filename = f PROVE Begins(hashed', Content[f])
        OBVIOUS
    <3> DEFINE c == Content[f][Len(hashed) + 1]
    <3>1. /\ hashed' = Append(hashed, c) /\ Len(hashed) \in Nat
          /\ Len(hashed) + 1 \in 1 .. Len(Content[f])
        BY <1>1, <1>10, <2>2, LenProperties DEF HashChunk
    <3>2. c \in Chunk /\ Len(hashed) + 1 <= Len(Content[f])
        BY <1>1, <3>1, ElementOfSeq
    <3>3. c = Content[f][Len(hashed) + 1]
        OBVIOUS
    <3> HIDE DEF c
    <3>4. Begins(Append(hashed, c), Content[f])
        BY <1>1, <2>2, <3>1, <3>2, <3>3, BeginsNext
    <3> QED
        BY <3>1, <3>4
  <2> QED
      BY <1>4, <1>5, <2>1, <2>2, <2>3 DEF Intact
<1>11. CASE send_metadata \/ SendChunk
  <2>1. \E e \in SharedMessage :
           /\ inbox' = Append(inbox, e)
           /\ e.topic = TOPIC_CTRL /\ e.filename = f =>
                 /\ e.total_chunks = Len(Content[f])
                 /\ e.checksum = Sha256(Content[f])
    <3>1. CASE send_metadata
      <4> DEFINE m == Announcement
      <4>1. /\ m \in SharedMessage /\ inbox' = Append(inbox, m)
            /\ m.filename = filename /\ m.total_chunks = total_chunks
            /\ m.checksum = Sha256(hashed) /\ stage = "hash"
            /\ Len(hashed) >= Len(disk[filename])
          BY <3>1, AnnouncementTyped DEF send_metadata, Announcement
      <4> HIDE DEF m
      <4>2. ASSUME filename = f
            PROVE  total_chunks = Len(Content[f]) /\ hashed = Content[f]
        <5>1. /\ disk[f] = Content[f] /\ Begins(hashed, Content[f])
              /\ total_chunks = Len(Content[f])
            BY <1>1, <4>1, <4>2, BusyMeans DEF Intact
        <5> QED
            BY <1>1, <4>1, <4>2, <5>1, BeginsAll
      <4> QED
          BY <4>1, <4>2
    <3>2. CASE SendChunk
      <4>1. /\ ChunkMessage(NextRead) \in SharedMessage
            /\ ChunkMessage(NextRead).topic # TOPIC_CTRL
            /\ inbox' = Append(inbox, ChunkMessage(NextRead))
          BY <3>2, NextReadTyped DEF SendChunk, NextRead, TOPIC_CTRL, TOPIC_DATA
      <4> QED
          BY <4>1
    <3> QED
        BY <1>11, <3>1, <3>2
  <2>2. PICK e \in SharedMessage :
           /\ inbox' = Append(inbox, e)
           /\ e.topic = TOPIC_CTRL /\ e.filename = f =>
                 /\ e.total_chunks = Len(Content[f])
                 /\ e.checksum = Sha256(Content[f])
      BY <2>1
  <2>3. /\ Len(inbox') = Len(inbox) + 1 /\ inbox'[Len(inbox) + 1] = e
        /\ \A i \in 1 .. Len(inbox) : inbox'[i] = inbox[i]
      BY <1>1, <2>2, QueueAppend
  <2>4. \A i \in 1 .. Len(inbox') : i \in 1 .. Len(inbox) \/ i = Len(inbox) + 1
      BY <1>1, <2>3
  <2>5. \A i \in 1 .. Len(inbox') :
           inbox'[i].topic = TOPIC_CTRL /\ inbox'[i].filename = f =>
              /\ inbox'[i].total_chunks = Len(Content[f])
              /\ inbox'[i].checksum = Sha256(Content[f])
      BY <2>2, <2>3, <2>4 DEF Intact
  <2>6. stage' = "chunks"
      BY <1>11 DEF send_metadata, SendChunk
  <2> QED
      BY <1>4, <2>5, <2>6 DEF Intact
<1>12. CASE Sent
    BY <1>6, <1>12 DEF Sent
<1>13. CASE UNCHANGED dvars
  <2>1. UNCHANGED <<inbox, stage, filename, total_chunks, hashed>>
      BY <1>13 DEF dvars, sending, filename
  <2> QED
      BY <1>4, <1>5, <2>1 DEF Intact
<1> QED
    BY <1>7, <1>8, <1>9, <1>10, <1>11, <1>12, <1>13 DEF SharedNext

(* ... and when the receiver does, unless it reports the file as damaged.  *)
LEMMA ReceiverSpares ==
    ASSUME Setting, Setting', Beginnings, Stuck \/ (Gapless /\ Traced), on_message,
           NEW f \in File, Intact(f), f \in Spotless'
    PROVE  Intact(f)'
<1> DEFINE h == current_file_handle
           m == inbox[1]
<1>1. /\ inbox \in Seq(SharedMessage) /\ disk \in [File -> Seq(Chunk)]
      /\ Content[f] \in Seq(Chunk) /\ Len(Content[f]) \in Nat
      /\ DirectoryTyped /\ DirectoryTyped' /\ f # None
      /\ received_chunks \in Nat /\ expected_chunks \in Nat
    BY ContentTyped, NoneAssumption DEF Setting, DirectoryTyped, ReceiverTyped
<1>2. /\ ~Stuck /\ inbox # <<>> /\ inbox' = Tail(inbox)
      /\ UNCHANGED <<stage, total_chunks, hashed>> /\ filename' = filename
      /\ \/ (Opens(m) \/ Dies(m)) /\ Lacks = 0
         \/ Takes(m) \/ Completes(m)
    BY DeliverySteps DEF sending
<1>3. /\ 1 \in 1 .. Len(inbox)
      /\ \A i \in 1 .. Len(inbox') :
            inbox'[i] = inbox[i + 1] /\ i + 1 \in 1 .. Len(inbox)
    BY <1>1, <1>2, QueueTail
<1>4. \A i \in 1 .. Len(inbox') :
         inbox'[i].topic = TOPIC_CTRL /\ inbox'[i].filename = f =>
              /\ inbox'[i].total_chunks = Len(Content[f])
              /\ inbox'[i].checksum = Sha256(Content[f])
    BY <1>3 DEF Intact
<1>5. Busy(f)' => Busy(f)
  <2>1. current_file_handle' = f => Busy(f)
      BY <1>1, <1>2, <1>3, BusyMeans DEF Opens, Dies, Takes, Completes
  <2>2. (\E i \in 1 .. Len(inbox') :
            inbox'[i].topic = TOPIC_CTRL /\ inbox'[i].filename = f) => Busy(f)
      BY <1>1, <1>3, BusyMeans
  <2>3. DOMAIN inbox' = 1 .. Len(inbox')
      BY <1>1, LenProperties DEF DirectoryTyped
  <2> QED
      BY <2>1, <2>2, <2>3 DEF Busy
<1>6. (Opens(m) \/ Dies(m)) /\ Lacks = 0 => DiskAfterClose[f] = Content[f]
  <2> SUFFICES ASSUME Lacks = 0 PROVE DiskAfterClose[f] = Content[f]
      OBVIOUS
  <2>1. CASE h = f
    <3>1. expected_chunks = 0 /\ expected_chunks = Len(Content[f])
        BY <1>1, <2>1 DEF Lacks, Setting, Described, Intact
    <3>2. Output \in Seq(Chunk) /\ Begins(Output, Content[f]) /\ Len(Output) \in Nat
        BY <1>1, <2>1, OutputTyped, LenProperties DEF Setting, Beginnings
    <3>3. Output = Content[f]
        BY <1>1, <3>1, <3>2, BeginsAll
    <3> QED
        BY <2>1, <3>3, ClosedTyped DEF Setting
  <2>2. CASE h # f
      BY <2>2, ClosedTyped DEF Setting, Intact
  <2> QED
      BY <2>1, <2>2
<1>7. /\ current_file_handle' # f => disk'[f] = Content[f]
      /\ current_file_handle' = f =>
            /\ expected_chunks' = Len(Content[f])
            /\ expected_checksum' = Sha256(Content[f])
  <2>1. CASE Opens(m) /\ Lacks = 0
    <3>1. m.filename = f => m.total_chunks = Len(Content[f])
                            /\ m.checksum = Sha256(Content[f])
        BY <1>3, <2>1 DEF Intact, Opens
    <3>2. /\ disk' = [DiskAfterClose EXCEPT ![m.filename] = <<>>]
          /\ DiskAfterClose \in [File -> Seq(Chunk)]
        BY <2>1, ClosedTyped DEF Opens, Setting
    <3>3. m.filename # f => disk'[f] = Content[f]
        BY <1>6, <2>1, <3>2
    <3> QED
        BY <2>1, <3>1, <3>3 DEF Opens
  <2>2. CASE Dies(m) /\ Lacks = 0
      BY <1>1, <1>6, <2>2 DEF Dies
  <2>3. CASE Takes(m)
      BY <1>1, <2>3 DEF Takes, Same, Intact
  <2>4. CASE Completes(m)
    <3>1. /\ h # None /\ current_file_handle' = None /\ current_filename = h
          /\ disk' = [disk EXCEPT ![h] = Given(m)]
        BY <2>4 DEF Completes, Setting, Described
    <3>2. CASE h # f
        BY <1>1, <3>1, <3>2 DEF Intact
    <3>3. CASE h = f
      <4>1. PICK s \in Seq(Chunk), t \in Seq(Chunk), row \in SharedRow :
                /\ s \o t = Given(m)
                /\ rows' = Append(rows, row)
                /\ row.file = current_filename
                /\ row.integrity_ok <=> expected_checksum = Sha256(s)
          BY <2>4 DEF Completes
      <4>2. row.integrity_ok
        <5>1. rows \in Seq(SharedRow) /\ Len(rows) \in Nat
            BY LenProperties DEF Setting, ReceiverTyped
        <5>2. Len(rows') = Len(rows) + 1 /\ rows'[Len(rows) + 1] = row
            BY <4>1, <5>1, AppendProperties
        <5>3. Len(rows) + 1 \in 1 .. Len(rows')
            BY <5>1, <5>2
        <5> QED
            BY <3>1, <3>3, <4>1, <5>2, <5>3 DEF Spotless
      <4>3. s = Content[f]
          BY <3>3, <4>1, <4>2 DEF Intact, Sha256
      <4>4. Begins(Given(m), Content[f]) /\ Given(m) \in Seq(Chunk)
          BY <1>2, <2>4, <3>1, <3>3, NextGiven DEF Completes
      <4>5. Len(Given(m)) >= Len(Content[f])
        <5>1. Len(s \o t) = Len(s) + Len(t) /\ Len(s) \in Nat /\ Len(t) \in Nat
            BY ConcatProperties, LenProperties
        <5> QED
            BY <4>1, <4>3, <5>1
      <4>6. Given(m) = Content[f]
          BY <1>1, <4>4, <4>5, BeginsAll
      <4> QED
          BY <1>1, <3>1, <3>3, <4>6
    <3> QED
        BY <3>2, <3>3
  <2> QED
      BY <1>2, <2>1, <2>2, <2>3, <2>4
<1> QED
    BY <1>2, <1>4, <1>5, <1>7 DEF Intact

(* A file the generator has just written is intact.                        *)
LEMMA NewIsIntact ==
    ASSUME Setting, NEW f \in File, Generate(f)
    PROVE  Intact(f)'
<1>1. /\ inbox' = <<>> /\ stage' = "idle" /\ current_file_handle # f
      /\ current_file_handle' = current_file_handle
    BY GeneratorKeeps DEF Generate, Quiet
<1>2. disk'[f] = Content[f]
    BY DEF Generate, Setting, ReceiverTyped
<1>3. Len(inbox') = 0
    BY <1>1, EmptySeq
<1>4. \A i \in 1 .. Len(inbox') :
         inbox'[i].topic = TOPIC_CTRL /\ inbox'[i].filename = f =>
              /\ inbox'[i].total_chunks = Len(Content[f])
              /\ inbox'[i].checksum = Sha256(Content[f])
    BY <1>3
<1> QED
    BY <1>1, <1>2, <1>4 DEF Intact

LEMMA SpotlessKeeps ==
    ASSUME Setting, Setting', Beginnings, Stuck \/ (Gapless /\ Traced),
           \A f \in Spotless : Intact(f), [SharedNext]_dvars
    PROVE  (\A f \in Spotless : Intact(f))'
<1>1. Spotless' \subseteq File /\ Spotless' \subseteq exists'
    BY DEF Spotless, Setting, DirectoryTyped
<1>2. ASSUME NEW f \in Spotless', f \in exists PROVE Intact(f)'
  <2>1. f \in Spotless /\ f \in File
      BY <1>1, <1>2, SpotlessBefore
  <2>2. Intact(f)
      BY <2>1
  <2> QED
      BY <1>2, <2>1, <2>2, SenderSpares, ReceiverSpares
<1>3. ASSUME NEW f \in Spotless', f \notin exists PROVE Intact(f)'
  <2>1. f \in exists' /\ f \in File /\ f \notin cut'
      BY <1>1 DEF Spotless
  <2>2. PICK g \in File : (Generate(g) \/ GenerateCut(g)) /\ exists' = exists \cup {g}
      BY <1>3, <2>1
      DEF SharedNext, Generate, GenerateCut, SkipMissing, calculate_total_chunks,
          HashChunk, send_metadata, SendChunk, Sent, on_message, dvars
  <2>3. g = f
      BY <1>3, <2>1, <2>2
  <2>4. Generate(f)
      BY <2>1, <2>2, <2>3, GeneratorKeeps
  <2> QED
      BY <2>1, <2>4, NewIsIntact
<1>4. ASSUME NEW f \in Spotless' PROVE Intact(f)'
    BY <1>2, <1>3
<1> QED
    BY <1>4

-----------------------------------------------------------------------------
(* The invariant.                                                          *)
LEMMA StartsSet ==
    SharedInit => Setting /\ Beginnings /\ Gapless /\ Spotless = {}
<1> SUFFICES ASSUME SharedInit PROVE Setting /\ Beginnings /\ Gapless /\ Spotless = {}
    OBVIOUS
<1>1. /\ <<>> \in Seq(Chunk) /\ <<>> \in Seq(SharedRow) /\ <<>> \in Seq(SharedMessage)
      /\ <<>> \in Seq(File) /\ Len(<<>>) = 0
    BY EmptySeq
<1>2. ReceiverTyped
    BY <1>1 DEF SharedInit, Init, ReceiverTyped
<1>3. DirectoryTyped /\ Described /\ Known
    BY <1>1 DEF SharedInit, Init, DirectoryTyped, Described, Known
<1>4. Beginnings
  <2>1. disk = [f \in File |-> <<>>] /\ current_file_handle = None
      BY DEF SharedInit, Init
  <2>2. ASSUME NEW f \in File PROVE Begins(disk[f], Content[f])
    <3>1. disk[f] = <<>>
        BY <2>1
    <3>2. Begins(<<>>, Content[f])
        BY ContentTyped, NothingBegins
    <3> QED
        BY <3>1, <3>2
  <2> QED
      BY <2>1, <2>2 DEF Beginnings
<1>5. Gapless
  <2>1. Lacks = 0 /\ Pending = 0 /\ inbox = <<>>
      BY DEF SharedInit, Init, Lacks, Pending
  <2>2. Len(inbox) = 0
      BY <1>1, <2>1
  <2>3. Followed(inbox, 0, 0, 0)
      BY <2>2 DEF Followed
  <2> QED
      BY <2>1, <2>2, <2>3 DEF Gapless
<1>6. Spotless = {}
    BY DEF SharedInit, Spotless
<1> QED
    BY <1>2, <1>3, <1>4, <1>5, <1>6 DEF Setting

LEMMA StartsTraced == SharedInit => Traced /\ Answered
<1> SUFFICES ASSUME SharedInit PROVE Traced /\ Answered
    OBVIOUS
<1>1. /\ inbox = <<>> /\ rows = <<>> /\ announced = <<>>
      /\ Len(inbox) = 0 /\ Len(rows) = 0 /\ Len(announced) = 0
      /\ Lacks = 0 /\ Pending = 0 /\ current_file_handle = None
    BY EmptySeq DEF SharedInit, Init, Lacks, Pending
<1> DEFINE F == [i \in 0 .. Len(inbox) |-> None]
           Z == [i \in 0 .. Len(inbox) |-> 0]
<1>2. /\ F \in [0 .. Len(inbox) -> File \cup {None}]
      /\ Z \in [0 .. Len(inbox) -> Nat]
      /\ Z \in [0 .. Len(inbox) -> 0 .. Len(announced)]
      /\ Z[0] = 0 /\ Z[Len(inbox)] = 0
    BY <1>1
<1> HIDE DEF F, Z
<1>3. Placed(inbox, F, Z) /\ Numbered(announced, inbox, Z)
    BY <1>1 DEF Placed, Numbered
<1>4. Traced
    BY <1>1, <1>2, <1>3 DEF Traced
<1>5. Answered
  <2>1. /\ Z[0] = Len(rows) + (IF Lacks > 0 THEN 1 ELSE 0)
        /\ Z[Len(inbox)] = Len(announced)
        /\ Lacks > 0 => announced[Z[0]] = current_file_handle
        /\ \A i \in 1 .. Len(rows) : rows[i].file = announced[i]
      BY <1>1, <1>2
  <2> QED
      BY <1>2, <1>3, <2>1 DEF Answered
<1> QED
    BY <1>4, <1>5

LEMMA SharedStarts == SharedInit => SharedInv
    BY StartsSet, StartsTraced DEF SharedInv, Setting

LEMMA SharedKeeps == SharedInv /\ [SharedNext]_dvars => SharedInv'
<1> SUFFICES ASSUME SharedInv, [SharedNext]_dvars PROVE SharedInv'
    OBVIOUS
<1>1. /\ Setting /\ Beginnings
      /\ Stuck \/ (Gapless /\ Traced /\ Answered)
      /\ \A f \in Spotless : Intact(f)
    BY DEF SharedInv, Setting
<1>2. Setting'
    BY <1>1, SettingKeeps
<1>3. Beginnings'
    BY <1>1, <1>2, BeginningsKeeps
<1>4. Stuck' \/ (Gapless' /\ Traced' /\ Answered')
    BY <1>1, <1>2, StuckStays, GaplessKeeps, TracedKeeps, AnsweredKeeps
<1>5. (\A f \in Spotless : Intact(f))'
    BY <1>1, <1>2, SpotlessKeeps
<1> QED
    BY <1>2, <1>3, <1>4, <1>5 DEF SharedInv, Setting

(* The invariant behind the three properties of SharedData: the inbox      *)
(* holds what was announced, chunk by chunk, in order, and a file nobody   *)
(* has reported as damaged is whole wherever it is.                        *)
THEOREM SharedInductive == SharedSpec => []SharedInv
    BY SharedStarts, SharedKeeps, PTL DEF SharedSpec

-----------------------------------------------------------------------------
(* mqtt_client_b.py:97.  Received over itself, a file only ever loses its  *)
(* end.                                                                    *)
THEOREM OnlyTheEndIsLost == SharedSpec => []SourceIsPrefix
<1>1. ASSUME SharedInv PROVE SourceIsPrefix
  <2>1. ASSUME NEW f \in File PROVE IsPrefix(disk[f], Content[f])
    <3>1. /\ disk[f] \in Seq(Chunk) /\ Content[f] \in Seq(Chunk)
          /\ Begins(disk[f], Content[f])
        BY <1>1, ContentTyped DEF SharedInv, ReceiverTyped, Beginnings
    <3> DEFINE n == Len(disk[f])
    <3>2. n \in Nat /\ Len(Content[f]) \in Nat /\ n <= Len(Content[f])
        BY <3>1, LenProperties DEF Begins
    <3>3. /\ SubSeq(Content[f], 1, n) \in Seq(Chunk)
          /\ Len(SubSeq(Content[f], 1, n)) = n
          /\ \A i \in 1 .. n : SubSeq(Content[f], 1, n)[i] = Content[f][i]
        BY <3>1, <3>2, SubSeqProperties
    <3>4. SubSeq(disk[f], 1, n) = disk[f]
        BY <3>1, <3>2
    <3>5. SubSeq(Content[f], 1, n) = disk[f]
        BY <3>1, <3>2, <3>3, SeqEqual DEF Begins
    <3> QED
        BY <3>2, <3>4, <3>5 DEF IsPrefix
  <2>2. \A f \in File : IsPrefix(disk[f], Content[f])
      BY <2>1, Zenon
  <2> QED
      BY <2>2, Zenon DEF SourceIsPrefix
<1> QED
    BY <1>1, SharedInductive, PTL

(* mqtt_client_b.py:112-117.  Once everything is sent and taken, there is  *)
(* a row for each transfer that was announced, in that order.              *)
THEOREM AnnouncedRunsGetRows == SharedSpec => []EveryRunAnswered
<1>1. ASSUME SharedInv PROVE EveryRunAnswered
  <2> SUFFICES ASSUME Quiet
               PROVE  [i \in DOMAIN rows |-> rows[i].file] = announced
      BY DEF EveryRunAnswered
  <2>1. /\ Len(inbox) = 0 /\ Pending = 0 /\ Lacks \in Nat
        /\ rows \in Seq(SharedRow) /\ Len(rows) \in Nat
        /\ announced \in Seq(File) /\ Len(announced) \in Nat
      BY <1>1, CountsTyped, EmptySeq, LenProperties
      DEF SharedInv, Setting, Quiet, Pending, ReceiverTyped, DirectoryTyped
  <2>2. Gapless /\ Answered
      BY <1>1, <2>1 DEF SharedInv, Stuck
  <2>3. Lacks = 0
      BY <2>1, <2>2 DEF Gapless, Followed
  <2>4. PICK N \in [0 .. Len(inbox) -> 0 .. Len(announced)] :
           /\ N[0] = Len(rows) + (IF Lacks > 0 THEN 1 ELSE 0)
           /\ N[Len(inbox)] = Len(announced)
           /\ \A i \in 1 .. Len(rows) : rows[i].file = announced[i]
      BY <2>2 DEF Answered
  <2>5. Len(rows) = Len(announced)
      BY <2>1, <2>3, <2>4
  <2>6. /\ DOMAIN rows = 1 .. Len(rows)
        /\ announced = [i \in 1 .. Len(announced) |-> announced[i]]
      BY <2>1, LenProperties
  <2> QED
      BY <2>4, <2>5, <2>6
<1> QED
    BY <1>1, SharedInductive, PTL

(* mqtt_client_b.py:37-46.  A file that is not whole, and is not being     *)
(* received, was reported CORRUPTED, unless its transfers overlapped or it *)
(* was never whole.                                                        *)
THEOREM DamageIsReported == SharedSpec => []DamageReported
<1>1. ASSUME SharedInv PROVE DamageReported
  <2> SUFFICES ASSUME NEW f \in exists \ (overlapped \cup cut),
                      ~Busy(f), disk[f] # Content[f]
               PROVE  \E i \in DOMAIN rows : rows[i].file = f /\ ~rows[i].integrity_ok
      BY DEF DamageReported
  <2>1. current_file_handle # f
      BY DEF Busy
  <2>2. f \notin Spotless
      BY <1>1, <2>1 DEF SharedInv, Intact
  <2>3. DOMAIN rows = 1 .. Len(rows)
      BY <1>1, LenProperties DEF SharedInv, ReceiverTyped
  <2> QED
      BY <2>2, <2>3 DEF Spotless
<1> QED
    BY <1>1, SharedInductive, PTL
=============================================================================
