---------------------------- MODULE WireOverhead ----------------------------
(***************************************************************************)
(* The overhead formulas of the MQTT and CoAP clients: the framing of MQTT *)
(* PUBLISH packets (mqtt_client_a.py) and of CoAP blocks                   *)
(* (coap_client_v2.py, coap_client.py), and the chunks client_a.py cuts a  *)
(* file into.  Lengths of names and payloads stand for the strings.        *)
(***************************************************************************)
EXTENDS Integers, Sequences, SequencesExt, FiniteSets, FiniteSetsExt

CONSTANTS
    Lengths,        \* lengths of files and of payloads to check
    CHUNK_SIZE,     \* client_a.py's chunk
    BLOCK_SIZE,     \* CoAP's block: 1024 bytes
    NameLengths     \* lengths of topics and file names

ASSUME SizesAssumption == {CHUNK_SIZE, BLOCK_SIZE} \subseteq Nat \ {0}
ASSUME LengthsAssumption == Lengths \subseteq Nat /\ NameLengths \subseteq Nat

CeilDiv(n, k) == (n + k - 1) \div k

(* The while loop that counts the bytes of MQTT's remaining length.        *)
RlBytes[x \in Nat] == IF x \div 128 = 0 THEN 1 ELSE 1 + RlBytes[x \div 128]

packet_bytes_qos2(topic, payload, qos) ==   \* mutant: an id only at level 2
    LET remaining_length == 2 + topic + (IF qos > 1 THEN 2 ELSE 0) + payload
    IN  1 + RlBytes[remaining_length] + remaining_length

mqtt_publish_packet_bytes(topic, payload, qos) ==
    LET remaining_length == 2 + topic + (IF qos > 0 THEN 2 ELSE 0) + payload
    IN  1 + RlBytes[remaining_length] + remaining_length

overhead_of_chunks(topic_ctrl, topic_data, metadata, chunks, qos, size) ==
    \* mutant: the metadata is left out
    FoldSeq(LAMBDA plen, acc : acc + mqtt_publish_packet_bytes(topic_data, plen, qos),
            0, chunks) - size

mqtt_transfer_overhead_bytes(topic_ctrl, topic_data, metadata, chunks, qos, size) ==
    FoldSeq(LAMBDA plen, acc : acc + mqtt_publish_packet_bytes(topic_data, plen, qos),
            mqtt_publish_packet_bytes(topic_ctrl, metadata, qos), chunks) - size

(* calculate_total_chunks, and the lengths f.read(CHUNK_SIZE) returns.     *)
total_chunks(size) == CeilDiv(size, CHUNK_SIZE)

ReadLengths(size) ==
    [i \in 1 .. total_chunks(size) |->
        IF i * CHUNK_SIZE <= size THEN CHUNK_SIZE ELSE size % CHUNK_SIZE]

(* calculate_payload_overhead of coap_client_v2: header 4, token 8, Block1 *)
(* option 3 and ACK 4 per block, then the path and the query, once.        *)
one_block_more(name, checksum, size) ==   \* mutant: floor and one
    (4 + 8 + 3 + 4) * (size \div BLOCK_SIZE + 1) + 8 + (name + 4) + (checksum + 4)

coap_overhead_v2(name, checksum, size) ==
    (4 + 8 + 3 + 4) * CeilDiv(size, BLOCK_SIZE) + 8 + (name + 4) + (checksum + 4)

(* _calculate_payload_overhead of coap_client: the framing of one request  *)
(* and one response, and 24 bytes for every further block.                 *)
coap_overhead_v1(req_oh, res_oh, size) ==
    LET blocks == CeilDiv(size, BLOCK_SIZE)
    IN  req_oh + res_oh + ((IF blocks > 1 THEN blocks ELSE 1) - 1) * 24

-----------------------------------------------------------------------------
(* The inputs of the formulas: chosen once, never changed.                 *)
VARIABLES length, name, qos

inputs == <<length, name, qos>>

InputsInit == length \in Lengths /\ name \in NameLengths /\ qos \in 0 .. 2

-----------------------------------------------------------------------------
Packet == mqtt_publish_packet_bytes(name, length, qos)

(* MQTT 3.1.1 codes a remaining length in one byte up to 127, two up to    *)
(* 16 383, three up to 2 097 151 and four above, so the packet is that     *)
(* much longer than its variable header and payload.                       *)
PublishLength ==
    LET rest == 2 + name + length + (IF qos = 0 THEN 0 ELSE 2)
    IN  Packet - rest = 1 + (IF rest <= 127 THEN 1 ELSE IF rest <= 16383 THEN 2
                             ELSE IF rest <= 2097151 THEN 3 ELSE 4)

(* What the transfer costs above the file is the framing of its packets    *)
(* and the metadata: the payload cancels, whatever the chunks are.         *)
OverheadIsFraming ==
    mqtt_transfer_overhead_bytes(name, name, 10, ReadLengths(length), qos, length)
        = mqtt_publish_packet_bytes(name, 10, qos)
          + MapThenSumSet(LAMBDA i : mqtt_publish_packet_bytes(name, ReadLengths(length)[i], qos)
                                         - ReadLengths(length)[i],
                          1 .. total_chunks(length))

(* CoAP's blocks: the last one is the only one not full, so the number of  *)
(* blocks both versions pay for is the number of offsets 0, 1024, ... that *)
(* lie inside the file (version 1 pays for the request in any case).       *)
BlocksPaid ==
    LET offsets == {k \in 0 .. length \div BLOCK_SIZE : k * BLOCK_SIZE < length}
    IN  /\ coap_overhead_v2(name, 64, length)
              = 19 * Cardinality(offsets) + coap_overhead_v2(name, 64, 0)
        /\ length > 0 => coap_overhead_v1(48, 32, length) - coap_overhead_v1(48, 32, 0)
                          = 24 * (Cardinality(offsets) - 1)
=============================================================================
