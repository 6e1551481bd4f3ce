-------------------------------- MODULE Tuner --------------------------------
(* The daemon (core/src/tuner.cpp, core/src/survey_monitor.cpp and the       *)
(* `daemon' command of cli/src/main.cpp): its main thread and the seven       *)
(* threads it starts, which share the sample and the running flags through    *)
(* atomics, and what they make of the kernel's settings.                      *)
(*                                                                            *)
(* A reader compares seq with the last one it saw: `fresh' is the set of      *)
(* those for which they differ. A relaxed store becomes visible at any later  *)
(* moment, one with release after the stores before it. A loop's condition,   *)
(* which only reads a flag, is part of the step before it.                    *)
EXTENDS Integers, FiniteSets, Sequences

CONSTANTS
    Rtts,        \* the buckets of qdisc_rtt_bucket_ms(): cake's rtt
    Unknown,     \* no round trip, no bucket yet
    Times,       \* how much a counter of a survey may grow
    Roams        \* TRUE: two surveys may be of different channels

ASSUME UnknownAssumption == Unknown \notin Rtts
ASSUME SurveyAssumption == Times \subseteq Nat /\ Roams \in BOOLEAN

Readers == {"buffer", "qdisc", "wifi"}
Fields == {"rate", "radio"}   \* rx_bps and tx_bps; rssi_dbm and tx_retries

(* In the order stop() joins them.                                            *)
Order == <<"sampler", "buffer", "qdisc", "wifi", "rtt", "survey", "scheduler">>
Threads == {Order[i] : i \in 1..Len(Order)}
Radio == {"wifi", "survey"}   \* those that end at once on a wired link

VARIABLES
    main,      \* "ended", "killed", or "up" and not yet in stop(), or "stopping"
    asked,     \* g_stop
    wireless,  \* is_wifi(iface)
    running,   \* the running_ flags that are up: "tuner", "survey", "scheduler"
    joined,    \* how many threads stop() has joined
    pc,        \* where each thread is
    stores,    \* the sampler's stores that nobody sees yet
    missing,   \* those that belong to a sample whose seq is seen
    fresh,     \* the readers whose last_seq is not seq
    rtt,       \* sample_.rtt_ms
    applied,   \* applied_rtt_ms
    ratio,     \* busy_ratio_, and "none" as long as has_data_ is FALSE
    cake       \* the rtt cake has been given

process == <<main, asked, wireless, running, joined>>
sample == <<stores, missing, fresh, rtt>>
vars == <<process, pc, sample, applied, ratio, cake>>

TypeOK ==
    /\ main \in {"ended", "killed", "up", "stopping"}
    /\ asked \in BOOLEAN /\ wireless \in BOOLEAN
    /\ running \subseteq {"tuner", "survey", "scheduler"}
    /\ joined \in 0..Len(Order)
    /\ pc \in [Threads -> {"none", "asleep", "writes", "ended"}]
    /\ stores \subseteq Fields \cup {"seq"} /\ missing \subseteq Fields
    /\ fresh \subseteq Readers
    /\ rtt \in Rtts \cup {Unknown}
    /\ applied \in Rtts \cup {Unknown}
    /\ ratio \in {"none", "proportion", "odd"}
    /\ cake \in Rtts \cup {Unknown}

-----------------------------------------------------------------------------
(* The threads.                                                              *)

Flag(t) == IF t \in {"survey", "scheduler"} THEN t ELSE "tuner"

(* The end of a round: the loop's condition.                                 *)
Rounds(t) ==
    /\ pc' = [pc EXCEPT ![t] = IF Flag(t) \in running THEN "asleep" ELSE "ended"]
    /\ UNCHANGED process

Goes(t, to) == pc' = [pc EXCEPT ![t] = to] /\ UNCHANGED process

(* sampler_loop(): the interval is over and the fields are stored. A bound of *)
(* the model: one sample's stores are on their way at a time.                 *)
Samples ==
    /\ pc["sampler"] = "asleep" /\ stores = {}
    /\ stores' = (IF wireless THEN Fields ELSE {"rate"}) \cup {"seq"}
    /\ Rounds("sampler")
    /\ UNCHANGED <<missing, fresh, rtt, applied, ratio, cake>>

(* Mutant: seq is counted up relaxed.                                        *)
Seen_Mutant(f) == f \in stores

(* A store may be seen; that of seq only after those before it.              *)
Seen(f) == f \in stores /\ (f = "seq" => stores = {"seq"})

BecomesVisible(f) ==
    /\ Seen(f)
    /\ stores' = stores \ {f}
    /\ IF f = "seq"
       THEN /\ missing' = stores \ {f}
            /\ fresh' = {t \in Readers : pc[t] # "ended"}
       ELSE missing' = missing \ {f} /\ UNCHANGED fresh
    /\ UNCHANGED <<process, pc, rtt, applied, ratio, cake>>

(* A reader finds seq as it was.                                             *)
Skips(t) ==
    /\ pc[t] = "asleep" /\ t \notin fresh
    /\ Rounds(t)
    /\ UNCHANGED <<sample, applied, ratio, cake>>

(* buffer_loop() sizes the buffers (BufferSizing); a size that is not the    *)
(* last one is written.                                                      *)
BufferSizes ==
    /\ pc["buffer"] = "asleep" /\ "buffer" \in fresh
    /\ fresh' = fresh \ {"buffer"}
    /\ Rounds("buffer") \/ Goes("buffer", "writes")
    /\ UNCHANGED <<stores, missing, rtt, applied, ratio, cake>>

BufferWrites ==
    /\ pc["buffer"] = "writes"
    /\ Rounds("buffer")
    /\ UNCHANGED <<sample, applied, ratio, cake>>

(* Mutant: cake is given an rtt once only.                                   *)
InForce_Mutant == applied # Unknown

InForce == rtt \in {Unknown, applied}

(* qdisc_loop() writes its two sysctls and compares the bucket; `applied' is  *)
(* the bucket already while the command that changes it runs.                 *)
QdiscWrites ==
    /\ pc["qdisc"] = "asleep" /\ "qdisc" \in fresh
    /\ fresh' = fresh \ {"qdisc"}
    /\ IF InForce
       THEN Rounds("qdisc") /\ UNCHANGED applied
       ELSE Goes("qdisc", "writes") /\ applied' = rtt
    /\ UNCHANGED <<stores, missing, rtt, ratio, cake>>

(* set_qdisc_rtt().                                                          *)
QdiscChanges ==
    /\ pc["qdisc"] = "writes"
    /\ cake' = applied
    /\ Rounds("qdisc")
    /\ UNCHANGED <<sample, applied, ratio>>

WifiWrites ==
    /\ pc["wifi"] = "asleep" /\ "wifi" \in fresh
    /\ fresh' = fresh \ {"wifi"}
    /\ Rounds("wifi")
    /\ UNCHANGED <<stores, missing, rtt, applied, ratio, cake>>

(* read_rtt_ms(): the best of the kernel's own, or a ping, which may fail.    *)
Measured == Rtts \cup {Unknown}

(* rtt_loop(): a probe that fails leaves the last round trip.                *)
Probes ==
    /\ pc["rtt"] = "asleep"
    /\ \E r \in Measured : rtt' = IF r = Unknown THEN rtt ELSE r
    /\ Rounds("rtt")
    /\ UNCHANGED <<stores, missing, fresh, applied, ratio, cake>>

-----------------------------------------------------------------------------
(* SurveyMonitor and the scheduler's thread.                                 *)

(* How much the three counters of the channel in use have grown: it was      *)
(* transmitting in some of the time it was busy, and busy in some of the     *)
(* time it was watched. A driver that does not count tx leaves it at 0.      *)
Surveyed ==
    {d \in [active : Times, busy : Times, tx : Times] :
        Roams \/ (d.tx <= d.busy /\ d.busy <= d.active)}

(* Mutant: the time this station transmitted counts as busy.                  *)
Ratio_Mutant(d) ==
    IF d.active <= d.tx THEN ratio
    ELSE IF d.busy <= d.active - d.tx THEN "proportion" ELSE "odd"

(* Mutant: nothing is divided by nothing.                                     *)
Ratio_Zero(d) ==
    IF d.active < d.tx \/ d.busy < d.tx THEN ratio
    ELSE IF d.active = d.tx THEN "nan"
    ELSE IF d.busy <= d.active THEN "proportion" ELSE "odd"

(* What others made of the time this station left them.                      *)
Ratio(d) ==
    IF d.active <= d.tx \/ d.busy < d.tx THEN ratio
    ELSE IF d.busy <= d.active THEN "proportion" ELSE "odd"

(* monitor_loop(): the survey may be invalid, or the first.                  *)
Surveys ==
    /\ pc["survey"] = "asleep"
    /\ ratio' \in {ratio} \cup {Ratio(d) : d \in Surveyed}
    /\ Rounds("survey")
    /\ UNCHANGED <<sample, applied, cake>>

(* A tick of PriorityScheduler.                                              *)
Schedules ==
    /\ pc["scheduler"] = "asleep"
    /\ Rounds("scheduler")
    /\ UNCHANGED <<sample, applied, ratio, cake>>

-----------------------------------------------------------------------------
(* The main thread.                                                          *)

(* A new process: the sample is empty and the threads know nothing.          *)
Forgotten ==
    /\ stores' = {} /\ missing' = {} /\ fresh' = {} /\ rtt' = Unknown
    /\ applied' = Unknown /\ ratio' = "none"
    /\ joined' = 0 /\ asked' = FALSE

(* Tuner::start().                                                           *)
Start ==
    /\ main \in {"ended", "killed"}
    /\ Forgotten
    /\ main' = "up" /\ wireless' \in BOOLEAN
    /\ running' = {"tuner", "survey", "scheduler"}
    /\ pc' = [t \in Threads |->
                IF t \in Radio /\ ~wireless' THEN "ended" ELSE "asleep"]
    /\ UNCHANGED cake

(* SIGTERM.                                                                  *)
OnSignal ==
    /\ main = "up" /\ ~asked
    /\ asked' = TRUE
    /\ UNCHANGED <<main, wireless, running, joined, pc, sample, applied,
                   ratio, cake>>

(* The main thread leaves its loop: Tuner::stop().                           *)
Stop ==
    /\ main = "up" /\ asked
    /\ main' = "stopping"
    /\ running' = running \ {"tuner"}
    /\ UNCHANGED <<asked, wireless, joined, pc, sample, applied, ratio,
                   cake>>

(* Mutant: the survey's flag is lowered only after its thread was joined.    *)
Lowered_Mutant == IF joined' < 6 THEN {} ELSE {"survey", "scheduler"}

(* The flags stop() lowers once it has joined so many threads.               *)
Lowered ==
    IF joined' < 5 THEN {} ELSE IF joined' = 5 THEN {"survey"} ELSE {"survey", "scheduler"}

(* Mutant: the thread is not waited for.                                     *)
Joinable_Mutant(t) == pc[t] # "asleep"

Joinable(t) == pc[t] = "ended"

Join ==
    /\ main = "stopping" /\ joined < Len(Order)
    /\ Joinable(Order[joined + 1])
    /\ joined' = joined + 1
    /\ running' = running \ Lowered
    /\ UNCHANGED <<main, asked, wireless, pc, sample, applied, ratio,
                   cake>>

Gone(as) ==
    /\ Forgotten
    /\ main' = as /\ running' = {}
    /\ pc' = [t \in Threads |-> "none"]
    /\ UNCHANGED <<wireless, cake>>

Exit == main = "stopping" /\ joined = Len(Order) /\ Gone("ended")

Killed == main \in {"up", "stopping"} /\ Gone("killed")

-----------------------------------------------------------------------------
Init ==
    /\ main = "ended" /\ asked = FALSE /\ wireless \in BOOLEAN /\ running = {} /\ joined = 0
    /\ pc = [t \in Threads |-> "none"]
    /\ stores = {} /\ missing = {} /\ fresh = {} /\ rtt = Unknown
    /\ applied = Unknown /\ ratio = "none"
    /\ cake = Unknown

Turn(t) ==
    \/ t = "sampler" /\ Samples
    \/ t = "buffer" /\ (BufferSizes \/ BufferWrites)
    \/ t = "qdisc" /\ (QdiscWrites \/ QdiscChanges)
    \/ t = "wifi" /\ WifiWrites
    \/ t = "rtt" /\ Probes
    \/ t = "survey" /\ Surveys
    \/ t = "scheduler" /\ Schedules

Thread(t) == Turn(t) \/ (t \in Readers /\ Skips(t))

Main == Stop \/ Join \/ Exit

Next ==
    \/ \E t \in Threads : Thread(t)
    \/ \E f \in Fields \cup {"seq"} : BecomesVisible(f)
    \/ Main \/ Start \/ OnSignal \/ Killed

Spec == Init /\ [][Next]_vars

(* The kernel schedules every thread, the commands they run return, and what *)
(* is stored is seen in the end. A round that measures what was measured      *)
(* before is a round too, so nothing has to change for ever.                  *)
FairSpec ==
    /\ Spec
    /\ \A t \in Threads : WF_vars(Thread(t) /\ UNCHANGED <<rtt, ratio>>)
    /\ WF_vars(Main) /\ WF_vars(\E f \in Fields \cup {"seq"} : BecomesVisible(f))

-----------------------------------------------------------------------------
(* Properties.                                                               *)

Acts(t) == main' = main /\ pc[t] = "asleep" /\ t \in fresh /\ t \notin fresh'

Reads(t) == IF t = "wifi" THEN Fields ELSE {"rate"}

(* A thread that finds a new sample finds its fields as well: "release" and  *)
(* "acquire" order the relaxed stores of the sampler before the loads of the *)
(* readers (tuner.cpp:363).                                                  *)
FreshSample ==
    [][\A t \in Readers : Acts(t) => Reads(t) \cap missing = {}]_vars

(* What Lifecycle takes the daemon for.                                      *)
D == INSTANCE Daemon WITH
       Writers <- {"buffer", "qdisc"},
       service <- IF main \in {"up", "stopping"} THEN "up" ELSE main,
       asked <- asked,
       writing <- {t \in {"buffer", "qdisc"} : pc[t] = "writes"},
       settings <- cake

DaemonContract == D!Spec

(* A daemon that is asked to end ends.                                       *)
StopReturns == asked ~> ~asked

(* "following the measured path rtt" (tuner.cpp:65): a round trip that stays *)
(* in one bucket is the one cake is given.                                   *)
CakeFollowsRtt ==
    \A r \in Rtts : <>[](main = "up" /\ rtt = r) => <>[](cake = r)

(* The share others have of the channel is a proportion.                     *)
RatioIsProportion == ratio # "odd"
=============================================================================
