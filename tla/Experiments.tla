---------------------------- MODULE Experiments -----------------------------
(***************************************************************************)
(* runner.py: one experiment per protocol and network profile, each a      *)
(* `docker compose up` of the automated file, which ends with the first    *)
(* container that exits, and a `docker compose down` of the default file.  *)
(* Every container but the broker runs scripts/network_chaos.sh, which     *)
(* shapes its interface with two tc commands and then becomes the program. *)
(* What compose does is here as the runner uses it: a container is created *)
(* again when its environment has changed, and `down` removes those of the *)
(* services its file names, no others.                                     *)
(***************************************************************************)
EXTENDS Integers, Sequences, FiniteSets

CONSTANTS
    Plans,      \* what PROTOCOLS and PROFILES are set to before a run
    Refusals    \* bound: tc commands, containers and compose commands that
                \* fail

ASSUME PlansAssumption ==
    \A p \in Plans : /\ p.PROTOCOLS \in Seq({"mqtt", "http", "coap"}) \ {<<>>}
                      /\ p.PROFILES \in Seq(STRING) \ {<<>>}

VARIABLES
    plan,         \* the lists of this run
    experiment,   \* the experiment the loop is at
    step,         \* where the runner is
    check,        \* the command check=True looks at has failed
    container,    \* container[s]: absent, created, del, netem, tbf, app, exited
    env,          \* env[s]: the experiment it was created for
    qdisc,        \* qdisc[s]: the qdiscs of its interface, with their profile
    rows,         \* the measurements: of which suffix, under which qdiscs
    refused       \* how much has failed so far

runnerVars ==
    <<plan, experiment, step, check, container, env, qdisc, rows, refused>>

PROTOCOLS == plan.PROTOCOLS
PROFILES == plan.PROFILES
Experiment == 1 .. Len(PROTOCOLS) * Len(PROFILES)

(* itertools.product: the profiles turn faster.                            *)
Protocol(e) == PROTOCOLS[((e - 1) \div Len(PROFILES)) + 1]
Profile(e) == PROFILES[((e - 1) % Len(PROFILES)) + 1]

(* docker-compose.automated.yaml: the services of a protocol, those that   *)
(* measure, those that are given NETWORK_PROFILE; and docker-compose.yaml. *)
Services(p) ==
    CASE p = "mqtt" -> {"mosquitto-broker", "mqtt-client-a", "mqtt-client-b"}
      [] p = "http" -> {"http-server", "http-client"}
      [] p = "coap" -> {"coap-server", "coap-client"}
Clients == {"mqtt-client-a", "http-client", "coap-client"}
DependsOn(s) ==
    CASE s \in {"mqtt-client-a", "mqtt-client-b"} -> {"mosquitto-broker"}
      [] s = "http-client" -> {"http-server"}
      [] s = "coap-client" -> {"coap-server"}
      [] OTHER -> {}
DownFile == {"mosquitto-broker", "mqtt-client-a", "mqtt-client-b", "mqtt-capture"}

Service == UNION {Services(p) : p \in {"mqtt", "http", "coap"}}

(* NETWORK_PROFILE:-iot of the script, in experiment e.                    *)
ProfileOf(s, e) == IF s \in Clients THEN Profile(e) ELSE "iot"

RunnerInit ==
    /\ plan \in Plans
    /\ experiment = 1 /\ step = "build" /\ check = FALSE
    /\ container = [s \in Service |-> "absent"]
    /\ env = [s \in Service |-> 0]
    /\ qdisc = [s \in Service |-> <<>>]
    /\ rows = {} /\ refused = 0

Up == Services(Protocol(experiment))
Running == {s \in Service : container[s] \notin {"absent", "created", "exited"}}

Refuse == refused < Refusals /\ refused' = refused + 1

Goto(s, place) == container' = [container EXCEPT ![s] = place]

-----------------------------------------------------------------------------
build ==
    /\ step = "build"
    /\ \/ step' = "up" /\ UNCHANGED refused
       \/ step' = "raised" /\ Refuse
    /\ UNCHANGED <<plan, experiment, check, container, env, qdisc, rows>>

(* compose up creates what is missing or was created for another one.      *)
Create ==
    /\ container' = [s \in Service |-> IF s \in Up THEN "created" ELSE container[s]]
    /\ env' = [s \in Service |-> IF s \in Up THEN experiment ELSE env[s]]

ComposeUp ==
    /\ step = "up"
    /\ Create
    /\ qdisc' = [s \in Service |-> IF s \in Up THEN <<>> ELSE qdisc[s]]
    /\ step' = "wait"
    /\ UNCHANGED <<plan, experiment, check, rows, refused>>

(* It starts a container after those it depends on, which need not be      *)
(* ready; or it cannot, and gives up with the others left as they are.     *)
Start(s) ==
    /\ step = "wait" /\ s \in Up
    /\ container[s] = "created" /\ DependsOn(s) \cap Running = DependsOn(s)
    /\ Goto(s, IF s = "mosquitto-broker" THEN "app" ELSE "del")
    /\ UNCHANGED <<plan, experiment, step, check, env, qdisc, rows, refused>>

UpFails ==
    /\ step = "wait" /\ \E s \in Up : container[s] = "created"
    /\ Refuse
    /\ check' = TRUE
    /\ step' = "down"
    /\ UNCHANGED <<plan, experiment, container, env, qdisc, rows>>

-----------------------------------------------------------------------------
(* The first container that exits decides how up ends; the others are then *)
(* told to stop.                                                           *)
Exit(s, code) ==
    /\ Goto(s, "exited")
    /\ step' = IF step = "wait" THEN "stop" ELSE step
    /\ check' = (check \/ (step = "wait" /\ code # 0))
    /\ UNCHANGED <<plan, experiment, env, qdisc, rows>>

(* network_chaos.sh: the old qdiscs go, then two commands for one of the   *)
(* five profiles, then the program; set -e ends it at what fails.          *)
Known == {"good", "iot", "harsh", "mobile", "satellite"}

UnknownProfile(s) ==
    /\ container[s] = "del"
    /\ ProfileOf(s, env[s]) \notin Known
    /\ Exit(s, 1) /\ UNCHANGED refused

QdiscDel(s) ==
    /\ container[s] = "del"
    /\ ProfileOf(s, env[s]) \in Known
    /\ qdisc' = [qdisc EXCEPT ![s] = <<>>]
    /\ Goto(s, "netem")
    /\ UNCHANGED <<plan, experiment, step, check, env, rows, refused>>

QdiscAdd(s) ==
    /\ container[s] \in {"netem", "tbf"}
    /\ qdisc' = [qdisc EXCEPT ![s] =
                     Append(@, <<container[s], ProfileOf(s, env[s])>>)]
    /\ Goto(s, IF container[s] = "netem" THEN "tbf" ELSE "app")
    /\ UNCHANGED <<plan, experiment, step, check, env, rows, refused>>

CarryOn(s) ==   \* mutant: without set -e
    /\ container[s] \in {"netem", "tbf"}
    /\ Refuse
    /\ Goto(s, IF container[s] = "netem" THEN "tbf" ELSE "app")
    /\ UNCHANGED <<plan, experiment, step, check, env, qdisc, rows>>

QdiscFails(s) ==
    /\ container[s] \in {"netem", "tbf"}
    /\ Refuse
    /\ Exit(s, 1)

(* Of the three clients only coap_client_v2 measures: client_a asks for    *)
(* arguments it is not given and http_client_v3 for a function             *)
(* packet_capture does not have, and both exit at once.                    *)
Measure ==
    /\ container["coap-client"] = "app"
    /\ rows' = rows \cup {[suffix |-> <<"coap", Profile(env["coap-client"])>>,
                           qdisc |-> qdisc["coap-client"]]}
    /\ UNCHANGED <<plan, experiment, step, check, container, env, qdisc, refused>>

ClientEnds(s) ==
    /\ s \in Clients /\ container[s] = "app"
    /\ Exit(s, IF s = "coap-client" THEN 0 ELSE 1)
    /\ UNCHANGED refused

Crash(s) == container[s] = "app" /\ Refuse /\ Exit(s, 1)

-----------------------------------------------------------------------------
(* Up stops the containers one by one and returns.                         *)
Stop(s) ==
    /\ step = "stop" /\ s \in Up \cap Running
    /\ Goto(s, "exited")
    /\ UNCHANGED <<plan, experiment, step, check, env, qdisc, rows, refused>>

UpReturnsAtOnce ==   \* mutant: up returns with the first container
    /\ step = "stop"
    /\ step' = "down"
    /\ UNCHANGED <<plan, experiment, check, container, env, qdisc, rows, refused>>

UpReturns ==
    /\ step = "stop" /\ Up \cap Running = {}
    /\ step' = "down"
    /\ UNCHANGED <<plan, experiment, check, container, env, qdisc, rows, refused>>

(* finally: down; then the exception goes on, or the loop does.            *)
down ==
    /\ step = "down"
    /\ container' = [s \in Service |-> IF s \in DownFile THEN "absent" ELSE container[s]]
    /\ step' = IF check THEN "raised" ELSE IF experiment + 1 \in Experiment THEN "up" ELSE "ended"
    /\ experiment' = IF step' = "up" THEN experiment + 1 ELSE experiment
    /\ UNCHANGED <<plan, check, env, qdisc, rows, refused>>

RunnerNext ==
    \/ build \/ ComposeUp \/ UpFails \/ UpReturns \/ down
    \/ Measure
    \/ \E s \in Service :
          \/ Start(s) \/ Stop(s)
          \/ UnknownProfile(s) \/ QdiscDel(s) \/ QdiscAdd(s) \/ QdiscFails(s)
          \/ ClientEnds(s) \/ Crash(s)

RunnerSpec == RunnerInit /\ [][RunnerNext]_runnerVars

-----------------------------------------------------------------------------
(* runner.py:21-22, network_chaos.sh:2.  A row in the file of a profile    *)
(* was measured by a client whose interface had that profile, all of it:   *)
(* containers that outlive their experiment and tc commands that fail do   *)
(* not put a measurement into another profile's file.                      *)
RowsUnderProfile ==
    \A row \in rows :
        row.qdisc = <<<<"netem", row.suffix[2]>>, <<"tbf", row.suffix[2]>>>>

(* runner.py:32.  When up is called nothing is running of the experiments  *)
(* before, whose containers down may not know.                             *)
NothingElseRuns == step \in {"up", "ended"} => Running = {}

(* runner.py:39, "Always clean up": no container of an experiment is left  *)
(* when the next begins.                                                   *)
CleanedUp == step \in {"up", "ended"} => \A s \in Service : container[s] = "absent"
=============================================================================
