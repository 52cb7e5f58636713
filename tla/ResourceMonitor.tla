--------------------------- MODULE ResourceMonitor --------------------------
(***************************************************************************)
(* ResourceMonitor, common/resource_monitor.py: start() clears the sample  *)
(* lists and the stop event and starts a daemon thread that samples until  *)
(* the event is set; stop() sets it, waits for the thread, but not longer  *)
(* than 2 s, and averages the samples.  The lists and the event belong to  *)
(* the object: a thread that outlives its stop() finds the event cleared   *)
(* by the next start() and goes on.                                        *)
(***************************************************************************)
EXTENDS Integers, Sequences, SequencesExt

CONSTANTS
    MaxRuns,     \* bound: calls of start()
    MaxSamples   \* bound: samples a thread takes

ASSUME BoundsAssumption == MaxRuns \in Nat /\ MaxSamples \in Nat

VARIABLES
    pc,           \* where the caller is: idle, working, or inside stop()
    run,          \* how often start() was called; thread r is that of run r
    stop_event,
    thread,       \* thread[r]: where that thread is in _sample_loop
    taken,        \* taken[r]: the samples it has taken
    cpu_samples,  \* the two lists; every sample says which thread took it in
    rss_samples,  \* which run
    summed,       \* the length of cpu_samples when stop() averages them
    stats,        \* the dictionary stop() returned last, and what it is of
    overstayed    \* history: a join timed out

monitorVars == <<pc, run, stop_event, thread, taken, cpu_samples, rss_samples,
                 summed, stats, overstayed>>
caller == <<pc, run, summed, stats, overstayed>>

Runs == 1 .. MaxRuns
NoStats == [sample_count |-> 0, rss_count |-> 0, averaged |-> 0,
            foreign |-> FALSE]

MonitorInit ==
    /\ pc = "idle"
    /\ run = 0
    /\ stop_event = FALSE
    /\ thread = [r \in Runs |-> "none"]
    /\ taken = [r \in Runs |-> 0]
    /\ cpu_samples = <<>> /\ rss_samples = <<>>
    /\ summed = 0
    /\ stats = NoStats
    /\ overstayed = FALSE

ClearRss == rss_samples' = <<>> /\ UNCHANGED cpu_samples   \* mutant: one list stays
ClearLists == cpu_samples' = <<>> /\ rss_samples' = <<>>

start ==
    /\ pc = "idle" /\ run < MaxRuns
    /\ run' = run + 1
    /\ ClearLists
    /\ stop_event' = FALSE
    /\ thread' = [thread EXCEPT ![run + 1] = "test"]
    /\ pc' = "working"
    /\ UNCHANGED <<taken, summed, stats, overstayed>>

(* stop() sets the event; the join follows.                                *)
stop ==
    /\ pc = "working"
    /\ stop_event' = TRUE
    /\ pc' = "join"
    /\ UNCHANGED <<run, thread, taken, cpu_samples, rss_samples, summed, stats, overstayed>>

Join ==
    /\ pc = "join"
    /\ pc' = "average"
    /\ overstayed' = (overstayed \/ thread[run] # "ended")
    /\ UNCHANGED <<run, stop_event, thread, taken, cpu_samples, rss_samples,
                   summed, stats>>

Average ==
    /\ pc = "average"
    /\ summed' = Len(cpu_samples)
    /\ pc' = "report"
    /\ UNCHANGED <<run, stop_event, thread, taken, cpu_samples, rss_samples,
                   stats, overstayed>>

(* What is computed from the average is left out, but for how many samples *)
(* it is of.                                                               *)
Report ==
    /\ pc = "report"
    /\ stats' = [sample_count |-> Len(cpu_samples),
                 rss_count |-> Len(rss_samples),
                 averaged |-> summed,
                 foreign |-> \E i \in DOMAIN cpu_samples : cpu_samples[i].by # run]
    /\ pc' = "idle"
    /\ UNCHANGED <<run, stop_event, thread, taken, cpu_samples, rss_samples,
                   summed, overstayed>>

-----------------------------------------------------------------------------
Goto(r, place) == thread' = [thread EXCEPT ![r] = place]

(* while not self._stop_event.is_set()                                     *)
LoopForEver(r) ==   \* mutant: the event is not looked at
    /\ thread[r] = "test"
    /\ taken[r] < MaxSamples
    /\ Goto(r, "sample")
    /\ UNCHANGED <<caller, stop_event, taken, cpu_samples, rss_samples>>

TestEvent(r) ==
    /\ thread[r] = "test"
    /\ stop_event \/ taken[r] < MaxSamples
    /\ Goto(r, IF stop_event THEN "ended" ELSE "sample")
    /\ UNCHANGED <<caller, stop_event, taken, cpu_samples, rss_samples>>

(* cpu_percent and memory_info, then the append to the first list.         *)
AppendCpu(r) ==
    /\ thread[r] = "sample"
    /\ cpu_samples' = Append(cpu_samples, [by |-> r])
    /\ taken' = [taken EXCEPT ![r] = @ + 1]
    /\ Goto(r, "half")
    /\ UNCHANGED <<caller, stop_event, rss_samples>>

AppendRss(r) ==
    /\ thread[r] = "half"
    /\ rss_samples' = Append(rss_samples, [by |-> r])
    /\ Goto(r, "test")
    /\ UNCHANGED <<caller, stop_event, taken, cpu_samples>>

(* psutil.NoSuchProcess ends the loop before anything is appended.         *)
Break(r) ==
    /\ thread[r] = "sample"
    /\ Goto(r, "ended")
    /\ UNCHANGED <<caller, stop_event, taken, cpu_samples, rss_samples>>

MonitorNext ==
    \/ start \/ stop \/ Join \/ Average \/ Report
    \/ \E r \in Runs : TestEvent(r) \/ AppendCpu(r) \/ AppendRss(r) \/ Break(r)

(* The threads run: a sampler that is told to stop ends, and with it every *)
(* stop() returns.                                                         *)
MonitorFairness ==
    /\ WF_monitorVars(Join \/ Average \/ Report)
    /\ \A r \in Runs :
          WF_monitorVars(TestEvent(r) \/ AppendCpu(r) \/ AppendRss(r) \/ Break(r))

MonitorSpec == MonitorInit /\ [][MonitorNext]_monitorVars /\ MonitorFairness

-----------------------------------------------------------------------------
(* resource_monitor.py:35-77.  What stop() returns is of one piece: as     *)
(* many CPU as memory samples, all averaged, all taken by the thread of    *)
(* this run; unless a join timed out, whose thread then samples on.        *)
StatsOfOneRun ==
    ~overstayed =>
        /\ stats.sample_count = stats.rss_count
        /\ stats.sample_count = stats.averaged
        /\ ~stats.foreign

(* A sampler that was told to stop ends, unless start() takes the event    *)
(* back first.                                                             *)
SamplerEnds == \A r \in Runs : stop_event /\ thread[r] # "none" ~> thread[r] = "ended" \/ ~stop_event
=============================================================================
