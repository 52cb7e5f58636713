---------------------------- MODULE PcapAnalysis ----------------------------
(***************************************************************************)
(* analyze_pcap, common/pcap_analyzer.py: three passes over what tshark    *)
(* prints of one capture, a header line and a line for every frame its     *)
(* display filter lets through, and the numbers made from them.  A capture *)
(* is the sequence of its frames; a frame is what the fields of its lines  *)
(* say, where Bad is a field that int() or float() refuses.                *)
(***************************************************************************)
EXTENDS Integers, Sequences, SequencesExt, FiniteSets, FiniteSetsExt

CONSTANTS
    Length,      \* frame.len values
    Time,        \* frame.time_relative values; early frames may be below 0
    MsgType,     \* mqtt.msgtype values
    NotMqtt,     \* a frame the filter "mqtt" drops
    Unknown,     \* the code's "UNKNOWN", for a frame without a type
    Bad,
    FileSizes,   \* values of file_size_bytes
    MaxFrames    \* bound: frames of a capture

ASSUME LengthAssumption == Length \subseteq Nat /\ Time \subseteq Int
ASSUME BadAssumption == Bad \notin Length \cup Time
ASSUME FileSizesAssumption == FileSizes \subseteq Nat
ASSUME TypesAssumption == NotMqtt \notin MsgType \cup {Unknown}

Frames == [len : Length \cup {Bad}, time : Time \cup {Bad},
           type : MsgType \cup {NotMqtt, Unknown}, retransmission : BOOLEAN]

-----------------------------------------------------------------------------
(* The first loop: lines whose length or time does not parse are skipped.  *)
CountUntimed(frames) ==   \* mutant: a line whose time is bad is counted first
    FoldLeft(LAMBDA acc, line :
                 IF line.len = Bad THEN acc
                 ELSE [packets |-> acc.packets + 1,
                       bytes |-> acc.bytes + line.len,
                       last |-> IF line.time # Bad /\ line.time > acc.last
                                THEN line.time ELSE acc.last],
             [packets |-> 0, bytes |-> 0, last |-> 0], frames)

CountFrames(frames) ==
    FoldLeft(LAMBDA acc, line :
                 IF line.len = Bad \/ line.time = Bad THEN acc
                 ELSE [packets |-> acc.packets + 1,
                       bytes |-> acc.bytes + line.len,
                       last |-> IF line.time > acc.last THEN line.time ELSE acc.last],
             [packets |-> 0, bytes |-> 0, last |-> 0], frames)

(* The second loop, over the frames of the filter "mqtt" (there are no     *)
(* lines of the others): only the length has to parse.                     *)
CountMqtt(frames) ==
    FoldLeft(LAMBDA acc, line :
                 IF line.type = NotMqtt \/ line.len = Bad THEN acc
                 ELSE [packets |-> acc.packets + 1,
                       bytes |-> acc.bytes + line.len,
                       types |-> [acc.types EXCEPT ![line.type] = @ + 1]],
             [packets |-> 0, bytes |-> 0,
              types |-> [t \in MsgType \cup {Unknown} |-> 0]],
             frames)

(* A quotient as numerator and divisor, without the code's constant scale; *)
(* for a divisor that is not positive the code says 0.                     *)
Ratio(p, q) == IF q > 0 THEN <<p, q>> ELSE <<0, 1>>

Raises == [raises |-> TRUE]

analyze_pcap(frames, file_size_bytes) ==
    IF frames = <<>> THEN Raises
    ELSE LET all == CountFrames(frames)
             mqtt == CountMqtt(frames)
             overhead == all.bytes - file_size_bytes
         IN  [raises |-> FALSE,
              total_packets |-> all.packets,
              total_wire_bytes |-> all.bytes,
              mqtt_packets |-> mqtt.packets,
              mqtt_wire_bytes |-> mqtt.bytes,
              mqtt_packet_types |-> mqtt.types,
              tcp_retransmissions |->
                  Len(SelectSeq(frames, LAMBDA line : line.retransmission)),
              duration_seconds |-> all.last,
              total_overhead_bytes |-> overhead,
              overhead_percentage |-> Ratio(overhead * 100, file_size_bytes),
              wire_throughput_mbps |-> Ratio(all.bytes * 8, all.last),
              goodput_mbps |-> Ratio(file_size_bytes * 8, all.last)]

-----------------------------------------------------------------------------
(* Every capture of at most MaxFrames frames, grown frame by frame, and    *)
(* the result of analysing it.                                             *)
VARIABLES capture, file_size_bytes, result

captureVars == <<capture, file_size_bytes, result>>

CaptureInit ==
    /\ capture = <<>>
    /\ file_size_bytes \in FileSizes
    /\ result = analyze_pcap(capture, file_size_bytes)

CaptureNext ==
    /\ Len(capture) < MaxFrames
    /\ \E frame \in Frames : capture' = Append(capture, frame)
    /\ result' = analyze_pcap(capture', file_size_bytes)
    /\ UNCHANGED file_size_bytes

CaptureSpec == CaptureInit /\ [][CaptureNext]_captureVars

-----------------------------------------------------------------------------
Parsed == {i \in DOMAIN capture : capture[i].len # Bad}
Timed == {i \in Parsed : capture[i].time # Bad}
OfType(t) == {i \in Parsed : capture[i].type = t}
Bytes(S) == MapThenSumSet(LAMBDA i : capture[i].len, S)

(* pcap_analyzer.py:78-194.  The loops count every frame they should once, *)
(* by a definition without loops: sets of positions in the capture.  Of an *)
(* empty file, or of a capture without a time above 0, nothing is divided  *)
(* by 0.  And goodput exceeds the wire's throughput exactly when fewer     *)
(* bytes were captured than the file has.                                  *)
CountsRight ==
    ~result.raises =>
        /\ result.total_packets = Cardinality(Timed)
        /\ result.total_wire_bytes = Bytes(Timed)
        /\ \A i \in Timed : capture[i].time <= result.duration_seconds
        /\ result.duration_seconds \in {capture[i].time : i \in Timed} \cup {0}
        /\ \A t \in MsgType \cup {Unknown} :
              result.mqtt_packet_types[t] = Cardinality(OfType(t))
        /\ result.mqtt_packets = Cardinality({i \in Parsed : capture[i].type # NotMqtt})
        /\ result.mqtt_wire_bytes = Bytes({i \in Parsed : capture[i].type # NotMqtt})
        /\ \A q \in {result.overhead_percentage, result.wire_throughput_mbps,
                    result.goodput_mbps} : q[2] > 0
        /\ result.duration_seconds > 0 =>
              (result.goodput_mbps[1] > result.wire_throughput_mbps[1]
                  <=> Bytes(Timed) < file_size_bytes)
=============================================================================
