------------------------------ MODULE MCRecords -----------------------------
(* What the benchmarks record, in four parts that share no state, so that  *)
(* a behaviour moves in one of them only:                                  *)
(*   log       the sender and the receiver append to one CSV file, and two *)
(*             versions of the CoAP client to another;                     *)
(*   monitor   two measurements with one monitor, two samples a thread;    *)
(*   capture   captures of up to two frames, two lengths, three times;     *)
(*   formulas  the formulas at lengths around every boundary they have.    *)
EXTENDS MeasurementLog, ResourceMonitor, PcapAnalysis, WireOverhead

CONSTANTS sender, receiver, coap_v1, coap_v2, publish, puback

Kinds == (sender :> "mqtt") @@ (receiver :> "mqtt")
            @@ (coap_v1 :> "coap") @@ (coap_v2 :> "coap_2")
OneSuffix == [w \in Writer |-> "_testing"]

Times == {-1, 0, 2}

Around(n) == {n - 2, n - 1, n, n + 1}
Boundaries ==
    (0 .. 9) \cup
    UNION {Around(n) : n \in {112, 120, 124, 128, 1024, 2048, 16364, 16384,
                              524288, 1048576, 2097136, 2097152}}

VARIABLE part

records == <<part, logVars, monitorVars, captureVars, inputs>>

RecordsInit ==
    /\ part \in {"log", "monitor", "capture", "formulas"}
    /\ LogInit /\ MonitorInit /\ CaptureInit /\ InputsInit
    /\ part # "capture" => file_size_bytes = 0
    /\ part # "formulas" => length = 0 /\ name = 1 /\ qos = 0

RecordsNext ==
    /\ UNCHANGED <<part, inputs>>
    /\ \/ part = "log" /\ LogNext /\ UNCHANGED <<monitorVars, captureVars>>
       \/ part = "monitor" /\ MonitorNext /\ UNCHANGED <<logVars, captureVars>>
       \/ part = "capture" /\ CaptureNext /\ UNCHANGED <<logVars, monitorVars>>

RecordsSpec == RecordsInit /\ [][RecordsNext]_records /\ MonitorFairness
=============================================================================
