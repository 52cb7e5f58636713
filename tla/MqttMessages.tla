---------------------------- MODULE MqttMessages ----------------------------
(***************************************************************************)
(* The messages the MQTT sender (client_a.py) and the MQTT receiver        *)
(* (client_b.py) exchange through the broker: one metadata message on the  *)
(* control topic, then the file's chunks on the data topic.  A chunk is an *)
(* uninterpreted value; what the two programs tell apart is which chunk it *)
(* is, in which order chunks come, and how many bytes each one has.        *)
(***************************************************************************)
EXTENDS Integers, Sequences

CONSTANTS
    File,      \* names of the files of the data directory
    Chunk,     \* the chunks those files are cut into
    Content,   \* Content[f]: the file f, chunk by chunk
    Qos        \* the quality-of-service levels transfers are made at

ASSUME ContentAssumption == Content \in [File -> Seq(Chunk)]

TOPIC_CTRL == "file/control"
TOPIC_DATA == "file/data"

(* A digest of the bytes of a file.  SHA-256 is taken to be injective: two  *)
(* files have the same digest only if they have the same chunks.           *)
Sha256(data) == [sha256 |-> data]

(* The control message of file f sent at level q.                          *)
Metadata(f, q) ==
    [topic |-> TOPIC_CTRL, filename |-> f, total_chunks |-> Len(Content[f]),
     checksum |-> Sha256(Content[f]), qos |-> q]

(* The data message that carries chunk c: it says neither the file nor the *)
(* position the chunk belongs to.                                          *)
ChunkMessage(c) == [topic |-> TOPIC_DATA, payload |-> c]

Message == {Metadata(f, q) : f \in File, q \in Qos}
              \cup {ChunkMessage(c) : c \in Chunk}
=============================================================================
