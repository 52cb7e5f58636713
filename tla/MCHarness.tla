------------------------------ MODULE MCHarness -----------------------------
(* The two programs on the host that run benchmarks, each by itself:       *)
(* capture_mqtt_single_file of benchmark_manager.py, with one file and so  *)
(* two transfers, called twice; and runner.py with two plans, both longer  *)
(* than the one entry its lists have in the repository, one with a profile *)
(* that the script does not know.                                          *)
EXTENDS CaptureHarness, Experiments

CONSTANT f

TwoPlans ==
    {[PROTOCOLS |-> <<"coap", "mqtt">>, PROFILES |-> <<"mobile", "iot">>],
     [PROTOCOLS |-> <<"coap", "http">>, PROFILES |-> <<"good", "lte">>]}
FirstPlan == [PROTOCOLS |-> <<"coap", "mqtt">>, PROFILES |-> <<"mobile", "iot">>]

VARIABLE part

harness == <<part, managerVars, runnerVars>>

HarnessInit ==
    /\ part \in {"manager", "runner"}
    /\ ManagerInit /\ RunnerInit
    /\ part = "manager" => plan = FirstPlan

HarnessNext ==
    /\ UNCHANGED part
    /\ \/ part = "manager" /\ ManagerNext /\ UNCHANGED runnerVars
       \/ part = "runner" /\ RunnerNext /\ UNCHANGED managerVars

HarnessSpec == HarnessInit /\ [][HarnessNext]_harness
=============================================================================
