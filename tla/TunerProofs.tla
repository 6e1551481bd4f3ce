------------------------------ MODULE TunerProofs ------------------------------
(* What is proved about Tuner for any set of buckets and any surveys.         *)
EXTENDS Tuner, TLAPS

(* The threads there are, whether or not they are up.                         *)
LEMMA ThreadNames ==
    /\ Threads = {"sampler", "buffer", "qdisc", "wifi", "rtt", "survey", "scheduler"}
    /\ Len(Order) = 7
    /\ \A t \in Threads : \E i \in 1..7 : t = Order[i]
    /\ \A i \in 1..7 : Order[i] \in Threads
<1>1. Len(Order) = 7
  BY DEF Order
<1>2. Threads = {Order[i] : i \in 1..7}
  BY <1>1 DEF Threads
<1>3. 1..7 = {1, 2, 3, 4, 5, 6, 7}
  OBVIOUS
<1>4. /\ Order[1] = "sampler" /\ Order[2] = "buffer" /\ Order[3] = "qdisc"
      /\ Order[4] = "wifi" /\ Order[5] = "rtt" /\ Order[6] = "survey"
      /\ Order[7] = "scheduler"
  BY DEF Order
<1>5. Threads = {Order[1], Order[2], Order[3], Order[4], Order[5], Order[6], Order[7]}
  BY <1>2, <1>3
<1> QED
  BY <1>1, <1>2, <1>4, <1>5

Places == {"none", "asleep", "writes", "ended"}

(* What a step of a thread does to the program counters: its own moves on     *)
(* from where it was, and only the two with long writes are ever in one.      *)
LEMMA ThreadMoves ==
    ASSUME pc \in [Threads -> Places], NEW t \in Threads, Thread(t)
    PROVE  /\ UNCHANGED process
           /\ pc[t] \in {"asleep", "writes"}
           /\ \E to \in {"asleep", "ended", "writes"} :
                /\ pc' = [pc EXCEPT ![t] = to]
                /\ to = "writes" => t \in {"buffer", "qdisc"}
<1>1. CASE Skips(t)
  BY <1>1 DEF Skips, Rounds
<1>2. CASE t = "sampler" /\ Samples
  BY <1>2 DEF Samples, Rounds
<1>3. CASE t = "buffer" /\ (BufferSizes \/ BufferWrites)
  BY <1>3 DEF BufferSizes, BufferWrites, Rounds, Goes
<1>4. CASE t = "qdisc" /\ (QdiscWrites \/ QdiscChanges)
  BY <1>4 DEF QdiscWrites, QdiscChanges, Rounds, Goes
<1>5. CASE t = "wifi" /\ WifiWrites
  BY <1>5 DEF WifiWrites, Rounds
<1>6. CASE t = "rtt" /\ Probes
  BY <1>6 DEF Probes, Rounds
<1>7. CASE t = "survey" /\ Surveys
  BY <1>7 DEF Surveys, Rounds
<1>8. CASE t = "scheduler" /\ Schedules
  BY <1>8 DEF Schedules, Rounds
<1> QED
  BY <1>1, <1>2, <1>3, <1>4, <1>5, <1>6, <1>7, <1>8 DEF Thread, Turn

-----------------------------------------------------------------------------
(* The contract of the daemon.                                                *)

(* stop() has joined the threads it counts, no thread outlives the process,   *)
(* and a process that is on its way out was asked to.                         *)
Orderly ==
    /\ main \in {"ended", "killed", "up", "stopping"} /\ asked \in BOOLEAN
    /\ joined \in 0..7
    /\ pc \in [Threads -> Places]
    /\ \A t \in Threads : pc[t] = "writes" => t \in {"buffer", "qdisc"}
    /\ main \in {"ended", "killed"} =>
         asked = FALSE /\ \A t \in Threads : pc[t] = "none"
    /\ main \in {"up", "ended", "killed"} => joined = 0
    /\ main = "stopping" => asked = TRUE
    /\ \A i \in 1..joined : pc[Order[i]] = "ended"

(* Every process starts orderly: nothing is joined and nothing is written.    *)
LEMMA Reset ==
    ASSUME main \in {"ended", "killed", "up"}, asked = FALSE, joined = 0,
           pc \in [Threads -> Places], \A t \in Threads : pc[t] # "writes",
           main \in {"ended", "killed"} => \A t \in Threads : pc[t] = "none"
    PROVE  Orderly
<1>1. \A i \in 1..joined : pc[Order[i]] = "ended"
  OBVIOUS
<1>2. joined \in 0..7
  OBVIOUS
<1>3. asked \in BOOLEAN
  BY Zenon
<1>4. main # "stopping"
  OBVIOUS
<1>5. \A t \in Threads : pc[t] = "writes" => t \in {"buffer", "qdisc"}
  OBVIOUS
<1> QED
  BY <1>1, <1>2, <1>3, <1>4, <1>5, Zenon DEF Orderly

LEMMA InitOrderly == Init => Orderly
<1> SUFFICES ASSUME Init
             PROVE  Orderly
  OBVIOUS
<1>1. main = "ended" /\ asked = FALSE /\ joined = 0 /\ pc = [t \in Threads |-> "none"]
  BY DEF Init
<1>2. pc \in [Threads -> Places] /\ \A t \in Threads : pc[t] = "none"
  BY <1>1 DEF Places
<1> QED
  BY <1>1, <1>2, Reset

LEMMA NextOrderly == Orderly /\ [Next]_vars => Orderly'
<1> SUFFICES ASSUME Orderly, [Next]_vars
             PROVE  Orderly'
  OBVIOUS
<1>1. CASE \E t \in Threads : Thread(t)
  <2>1. PICK t \in Threads : Thread(t)
    BY <1>1
  <2>2. UNCHANGED process /\ pc[t] \in {"asleep", "writes"}
    BY <2>1, ThreadMoves DEF Orderly
  <2>3. PICK to \in {"asleep", "ended", "writes"} :
          pc' = [pc EXCEPT ![t] = to] /\ (to = "writes" => t \in {"buffer", "qdisc"})
    BY <2>1, ThreadMoves DEF Orderly
  <2>4. main' = main /\ asked' = asked /\ joined' = joined
    BY <2>2 DEF process
  <2>5. main \notin {"ended", "killed"}
    BY <2>2 DEF Orderly
  <2>6. pc' \in [Threads -> Places]
    BY <2>3 DEF Orderly, Places
  <2>7. \A u \in Threads : pc'[u] = "writes" => u \in {"buffer", "qdisc"}
    BY <2>3 DEF Orderly
  <2>8. \A i \in 1..joined' : pc'[Order[i]] = "ended"
    BY <2>2, <2>3, <2>4, ThreadNames DEF Orderly
  <2> QED
    BY <2>4, <2>5, <2>6, <2>7, <2>8 DEF Orderly
<1>2. CASE \E f \in Fields \cup {"seq"} : BecomesVisible(f)
  BY <1>2 DEF BecomesVisible, process, Orderly
<1>3. CASE Stop
  BY <1>3 DEF Stop, Orderly
<1>4. CASE Join
  <2>1. joined' = joined + 1 /\ joined < 7 /\ UNCHANGED <<main, asked, pc>>
    BY <1>4, ThreadNames DEF Join
  <2>2. pc[Order[joined + 1]] = "ended" /\ main = "stopping"
    BY <1>4 DEF Join, Joinable
  <2>3. \A i \in 1..(joined + 1) : pc[Order[i]] = "ended"
    <3>1. \A i \in 1..(joined + 1) : i \in 1..joined \/ i = joined + 1
      BY DEF Orderly
    <3> QED
      BY <2>2, <3>1 DEF Orderly
  <2> QED
    BY <2>1, <2>2, <2>3 DEF Orderly
<1>5. CASE Exit \/ Killed
  <2>1. /\ main' \in {"ended", "killed"} /\ asked' = FALSE /\ joined' = 0
        /\ pc' = [t \in Threads |-> "none"]
    BY <1>5 DEF Exit, Killed, Gone, Forgotten
  <2>2. pc' \in [Threads -> Places] /\ \A t \in Threads : pc'[t] = "none"
    BY <2>1 DEF Places
  <2>3. \A i \in 1..joined' : pc'[Order[i]] = "ended"
    BY <2>1
  <2>4. joined' \in 0..7
    BY <2>1
  <2>5. asked' \in BOOLEAN
    BY <2>1, Zenon
  <2>6. main' # "stopping" /\ main' \in {"ended", "killed", "up", "stopping"}
    BY <2>1
  <2>7. \A t \in Threads : pc'[t] = "writes" => t \in {"buffer", "qdisc"}
    BY <2>2
  <2> QED
    BY <2>1, <2>2, <2>3, <2>4, <2>5, <2>6, <2>7, Zenon DEF Orderly
<1>6. CASE Start
  <2>1. /\ main' = "up" /\ asked' = FALSE /\ joined' = 0
        /\ ~(main' \in {"ended", "killed"})
    BY <1>6 DEF Start, Forgotten
  <2>2. pc' \in [Threads -> Places] /\ \A t \in Threads : pc'[t] # "writes"
    BY <1>6 DEF Start, Places
  <2>3. \A i \in 1..joined' : pc'[Order[i]] = "ended"
    BY <2>1
  <2>4. joined' \in 0..7
    BY <2>1
  <2>5. asked' \in BOOLEAN
    BY <2>1, Zenon
  <2>6. main' # "stopping" /\ main' \in {"ended", "killed", "up", "stopping"}
    BY <2>1
  <2>7. \A t \in Threads : pc'[t] = "writes" => t \in {"buffer", "qdisc"}
    BY <2>2
  <2> QED
    BY <2>1, <2>2, <2>3, <2>4, <2>5, <2>6, <2>7, Zenon DEF Orderly
<1>7. CASE OnSignal
  BY <1>7 DEF OnSignal, Orderly
<1>8. CASE UNCHANGED vars
  BY <1>8 DEF vars, process, Orderly
<1> QED
  BY <1>1, <1>2, <1>3, <1>4, <1>5, <1>6, <1>7, <1>8 DEF Next, Main

(* Tuner implements Daemon, what Lifecycle takes the daemon for: for as long  *)
(* as it is up it may write, and it ends of its own accord only when it was   *)
(* asked to and no thread is in the middle of its writes.                     *)
THEOREM TunerImplementsDaemon == Spec => DaemonContract
<1>1. Init => D!Init
  <2> SUFFICES ASSUME Init
               PROVE  D!Init
    OBVIOUS
  <2>1. main = "ended" /\ asked = FALSE /\ \A t \in Threads : pc[t] # "writes"
    BY DEF Init
  <2>2. "buffer" \in Threads /\ "qdisc" \in Threads
    BY ThreadNames
  <2> QED
    BY <2>1, <2>2 DEF D!Init
<1>2. Orderly /\ Orderly' /\ [Next]_vars => [D!Next]_(D!vars)
  <2> SUFFICES ASSUME Orderly, Orderly', [Next]_vars
               PROVE  [D!Next]_(D!vars)
    OBVIOUS
  <2>1. CASE \E t \in Threads : Thread(t)
    <3>1. PICK t \in Threads : Thread(t)
      BY <2>1
    <3>2. UNCHANGED process /\ pc[t] # "none"
      BY <3>1, ThreadMoves DEF Orderly
    <3>3. main \in {"up", "stopping"} /\ main' = main /\ asked' = asked
      BY <3>2 DEF process, Orderly
    <3>4. D!Writes
      BY <3>3 DEF D!Writes
    <3> QED
      BY <3>4 DEF D!Next
  <2>2. CASE \E f \in Fields \cup {"seq"} : BecomesVisible(f)
    BY <2>2 DEF BecomesVisible, process, D!vars
  <2>3. CASE Stop
    BY <2>3 DEF Stop, D!vars
  <2>4. CASE Join
    BY <2>4 DEF Join, D!vars
  <2>5. CASE Exit
    <3>1. \A t \in Threads : pc[t] = "ended"
      BY <2>5, ThreadNames DEF Exit, Orderly
    <3>2. "buffer" \in Threads /\ "qdisc" \in Threads
      BY ThreadNames
    <3>3. main = "stopping" /\ asked /\ main' = "ended" /\ asked' = FALSE /\ cake' = cake
      BY <2>5 DEF Exit, Gone, Forgotten, Orderly
    <3>4. \A t \in Threads : pc'[t] = "none"
      BY <2>5 DEF Exit, Gone
    <3>5. D!Ends
      BY <3>1, <3>2, <3>3, <3>4 DEF D!Ends
    <3> QED
      BY <3>5 DEF D!Next
  <2>6. CASE Start
    <3>1. main \in {"ended", "killed"} /\ main' = "up" /\ asked' = asked /\ cake' = cake
      BY <2>6 DEF Start, Forgotten, Orderly
    <3>2. \A t \in Threads : pc[t] # "writes" /\ pc'[t] # "writes"
      BY <2>6 DEF Start, Orderly
    <3>3. "buffer" \in Threads /\ "qdisc" \in Threads
      BY ThreadNames
    <3>4. D!Begins
      BY <3>1, <3>2, <3>3 DEF D!Begins
    <3> QED
      BY <3>4 DEF D!Next
  <2>7. CASE OnSignal
    <3>1. D!IsAsked
      BY <2>7 DEF OnSignal, D!IsAsked
    <3> QED
      BY <3>1 DEF D!Next
  <2>8. CASE Killed
    <3>1. main \in {"up", "stopping"} /\ main' = "killed" /\ asked' = FALSE /\ cake' = cake
      BY <2>8 DEF Killed, Gone, Forgotten
    <3>2. \A t \in Threads : pc'[t] # "writes"
      BY <2>8 DEF Killed, Gone
    <3>3. "buffer" \in Threads /\ "qdisc" \in Threads
      BY ThreadNames
    <3>4. D!Dies
      BY <3>1, <3>2, <3>3 DEF D!Dies
    <3> QED
      BY <3>4 DEF D!Next
  <2>9. CASE UNCHANGED vars
    BY <2>9 DEF vars, process, D!vars
  <2> QED
    BY <2>1, <2>2, <2>3, <2>4, <2>5, <2>6, <2>7, <2>8, <2>9 DEF Next, Main
<1> QED
  BY <1>1, <1>2, InitOrderly, NextOrderly, PTL DEF Spec, DaemonContract, D!Spec

-----------------------------------------------------------------------------
(* The sample.                                                                *)

(* Of an announced sample no field is missing, whichever stores were seen     *)
(* first.                                                                     *)
Complete == missing = {}

LEMMA SamplesAreComplete == Spec => []Complete
<1>1. Init => Complete
  BY DEF Init, Complete
<1>2. Complete /\ [Next]_vars => Complete'
  <2> SUFFICES ASSUME missing = {}, [Next]_vars
               PROVE  missing' = {}
    BY DEF Complete
  <2>1. CASE \E t \in Threads : Thread(t)
    BY <2>1 DEF Thread, Turn, Skips, Samples, BufferSizes, BufferWrites, QdiscWrites,
                QdiscChanges, WifiWrites, Probes, Surveys, Schedules, sample
  <2>2. CASE \E f \in Fields \cup {"seq"} : BecomesVisible(f)
    <3>1. PICK f \in Fields \cup {"seq"} : BecomesVisible(f)
      BY <2>2
    <3>2. CASE f = "seq"
      BY <3>1, <3>2 DEF BecomesVisible, Seen
    <3>3. CASE f # "seq"
      BY <3>1, <3>3 DEF BecomesVisible
    <3> QED
      BY <3>2, <3>3
  <2>3. CASE Main \/ Start \/ OnSignal \/ Killed
    BY <2>3 DEF Main, Stop, Join, Exit, Start, OnSignal, Killed, Gone, Forgotten, sample
  <2>4. CASE UNCHANGED vars
    BY <2>4 DEF vars, sample
  <2> QED
    BY <2>1, <2>2, <2>3, <2>4 DEF Next
<1> QED
  BY <1>1, <1>2, PTL DEF Spec

(* Every thread that acts on a new sample acts on the fields of that sample.  *)
THEOREM SamplesAreFresh == Spec => FreshSample
<1>1. Complete /\ [Next]_vars =>
        [\A t \in Readers : Acts(t) => Reads(t) \cap missing = {}]_vars
  BY DEF Complete
<1> QED
  BY <1>1, SamplesAreComplete, PTL DEF Spec, FreshSample

-----------------------------------------------------------------------------
(* The survey.                                                                *)

(* Counters that grow within one another leave a proportion.                  *)
LEMMA RatioOfOneChannel ==
    ASSUME ~Roams, NEW d \in Surveyed
    PROVE  Ratio(d) \in {ratio, "proportion"}
<1>1. d.busy \in Nat /\ d.active \in Nat /\ d.tx \in Nat /\ d.busy <= d.active
  BY SurveyAssumption DEF Surveyed
<1> QED
  BY <1>1 DEF Ratio

(* As long as a station stays on its channel, the share others have of it is  *)
(* a proportion: contention_active is never 0 and contention_busy never more  *)
(* than that.                                                                 *)
THEOREM RatiosAreProportions ==
    ASSUME ~Roams
    PROVE  Spec => []RatioIsProportion
<1>1. Init => RatioIsProportion
  BY DEF Init, RatioIsProportion
<1>2. RatioIsProportion /\ [Next]_vars => RatioIsProportion'
  <2> SUFFICES ASSUME RatioIsProportion, [Next]_vars
               PROVE  RatioIsProportion'
    OBVIOUS
  <2>1. CASE Surveys
    <3>1. ratio' \in {ratio, "proportion"}
      BY <2>1, RatioOfOneChannel DEF Surveys
    <3> QED
      BY <3>1 DEF RatioIsProportion
  <2>2. CASE \E t \in Threads : Thread(t)
    <3>1. PICK t \in Threads : Thread(t)
      BY <2>2
    <3>2. ratio' = ratio \/ Surveys
      BY <3>1 DEF Thread, Turn, Skips, Samples, BufferSizes, BufferWrites, QdiscWrites,
                  QdiscChanges, WifiWrites, Probes, Schedules
    <3> QED
      BY <2>1, <3>2 DEF RatioIsProportion
  <2>3. CASE \E f \in Fields \cup {"seq"} : BecomesVisible(f)
    BY <2>3 DEF BecomesVisible, RatioIsProportion
  <2>4. CASE Main \/ Start \/ OnSignal \/ Killed
    BY <2>4 DEF Main, Stop, Join, Exit, Start, OnSignal, Killed, Gone, Forgotten,
                RatioIsProportion
  <2>5. CASE UNCHANGED vars
    BY <2>5 DEF vars, RatioIsProportion
  <2> QED
    BY <2>2, <2>3, <2>4, <2>5 DEF Next
<1> QED
  BY <1>1, <1>2, PTL DEF Spec

-----------------------------------------------------------------------------
(* Types.                                                                     *)

(* What Orderly does not say of the types.                                    *)
Shared ==
    /\ wireless \in BOOLEAN
    /\ running \subseteq {"tuner", "survey", "scheduler"}
    /\ stores \subseteq Fields \cup {"seq"} /\ missing \subseteq Fields
    /\ fresh \subseteq Readers
    /\ rtt \in Rtts \cup {Unknown} /\ applied \in Rtts \cup {Unknown}
    /\ ratio \in {"none", "proportion", "odd"}
    /\ cake \in Rtts \cup {Unknown}

LEMMA SharedKept == Shared /\ [Next]_vars => Shared'
<1> SUFFICES ASSUME Shared, [Next]_vars
             PROVE  Shared'
  OBVIOUS
<1> USE DEF Shared, process, sample
<1>1. CASE \E t \in Readers : Skips(t)
  BY <1>1 DEF Skips, Rounds
<1>2. CASE Samples
  BY <1>2 DEF Samples, Rounds, Fields
<1>3. CASE BufferSizes \/ BufferWrites \/ WifiWrites
  BY <1>3 DEF BufferSizes, BufferWrites, WifiWrites, Rounds, Goes
<1>4. CASE QdiscWrites \/ QdiscChanges
  BY <1>4 DEF QdiscWrites, QdiscChanges, Rounds, Goes
<1>5. CASE Probes \/ Schedules
  BY <1>5 DEF Probes, Schedules, Measured, Rounds
<1>6. CASE Surveys
  BY <1>6 DEF Surveys, Ratio, Rounds
<1>7. CASE \E f \in Fields \cup {"seq"} : BecomesVisible(f)
  BY <1>7 DEF BecomesVisible, Seen, Fields
<1>8. CASE Main \/ OnSignal
  BY <1>8 DEF Main, Stop, Join, Exit, Gone, Forgotten, OnSignal
<1>9. CASE Start \/ Killed
  BY <1>9 DEF Start, Killed, Gone, Forgotten
<1>10. CASE UNCHANGED vars
  BY <1>10 DEF vars
<1> QED
  BY <1>1, <1>2, <1>3, <1>4, <1>5, <1>6, <1>7, <1>8, <1>9, <1>10
  DEF Next, Thread, Turn

(* Every variable of Tuner keeps its type, also when two surveys are of       *)
(* different channels.                                                        *)
THEOREM TunerTypeCorrect == Spec => []TypeOK
<1>1. Init => Orderly /\ Shared
  BY InitOrderly DEF Init, Shared
<1>2. Orderly /\ Shared /\ [Next]_vars => (Orderly /\ Shared)'
  BY NextOrderly, SharedKept
<1>3. Orderly /\ Shared => TypeOK
  BY ThreadNames DEF Orderly, Shared, TypeOK, Places
<1> QED
  BY <1>1, <1>2, <1>3, PTL DEF Spec
=============================================================================
