--------------------------- MODULE SchedulerProofs ---------------------------
(* What is proved about PriorityScheduler for any number of processes, any  *)
(* decay curve and any period.                                              *)
EXTENDS PriorityScheduler, TLAPS

(* Hysteresis: a process that changes its tier on one score goes back to    *)
(* the tier it came from only on a score that differs by twice the margin   *)
(* (tier_boundary_crossed_with_margin), so noise around a threshold moves   *)
(* no process to and fro.                                                   *)
THEOREM Hysteresis ==
    ASSUME NEW s \in Int, NEW t \in Int, NEW a \in Tiers, NEW b \in Tiers,
           b = TierForDecay(s), Crossed(s, a, b),
           a = TierForDecay(t), Crossed(t, b, a)
    PROVE  s - t >= 10 \/ t - s >= 10
BY DEF TierForDecay, Crossed, Tiers, Cold, Cool, Warm, Hot

-----------------------------------------------------------------------------
(* The groups of the kernel and the tiers of the scheduler.                *)

(* move_pid_to_tier() is called for what is new or has changed; if the      *)
(* groups matched the tiers before, they match the new ones afterwards.     *)
LEMMA MovedMatches ==
    ASSUME GroupMatchesTier, NEW new, NEW p \in Pids \cap alive, p \in DOMAIN new
    PROVE  Moved(new)[p] = new[p]
BY DEF Moved, GroupMatchesTier

(* A step of the thread moves the processes to the tiers it remembers.      *)
LEMMA StepMoves ==
    ASSUME NEW b, NEW f, NEW c, NEW d, NEW net, NEW lively, NEW sounds,
           Step(b, f, c, d, net, lively, sounds)
    PROVE  /\ \E new : /\ cgroup' = Moved(new)
                       /\ \E kept : tier' = Restrict(new, DOMAIN new \ kept)
           /\ alive' = alive
<1> DEFINE slot == Slot(f, c)
           seen == Seen(f, c)
           aged == Aged(f, c, d)
           considered == {p \in seen : p = slot \/ p \in net}
           score == [p \in considered |->
                       Score(aged[p], p \in net \cap lively,
                             p # slot /\ AudioAvailable /\ p \in sounds)]
           new == [p \in DOMAIN tier \cup considered |->
                     IF p \in considered THEN NewTier(p, score[p], slot) ELSE tier[p]]
           kept == Kept(seen, slot, aged, net)
           dropped == Dropped(new, kept)
<1>1. cgroup' = Moved(new) /\ tier' = Restrict(new, DOMAIN new \ dropped) /\ alive' = alive
  BY Zenon DEF Step
<1> HIDE DEF new, dropped
<1> QED
  BY <1>1

(* A step keeps them in agreement.                                          *)
LEMMA StepMatches ==
    ASSUME alive \subseteq Pids, GroupMatchesTier,
           NEW b, NEW f, NEW c, NEW d, NEW net, NEW lively, NEW sounds,
           Step(b, f, c, d, net, lively, sounds)
    PROVE  GroupMatchesTier'
<1>1. PICK new : /\ cgroup' = Moved(new)
                 /\ \E kept : tier' = Restrict(new, DOMAIN new \ kept)
  BY StepMoves
<1>2. PICK kept : tier' = Restrict(new, DOMAIN new \ kept)
  BY <1>1
<1>3. alive' = alive
  BY StepMoves
<1> SUFFICES ASSUME NEW p \in DOMAIN tier' \cap alive'
             PROVE  cgroup'[p] = tier'[p]
  BY DEF GroupMatchesTier
<1>4. p \in DOMAIN new /\ tier'[p] = new[p]
  BY <1>2 DEF Restrict
<1>5. p \in Pids \cap alive
  BY <1>3
<1> QED
  BY <1>1, <1>4, <1>5, MovedMatches

(* As long as no process number is used again, a process the scheduler      *)
(* remembers in a tier is in the group of that tier: a move it skips as     *)
(* unchanged is one it has made, also after the daemon was restarted.       *)
THEOREM GroupsMatch ==
    ASSUME Mortal = {}
    PROVE  Spec => []GroupMatchesTier
<1> DEFINE I == alive \subseteq Pids /\ GroupMatchesTier
<1>1. Init => I
  BY DEF Init, GroupMatchesTier
<1>2. I /\ [Next]_vars => I'
  <2> SUFFICES ASSUME I, [Next]_vars
               PROVE  I'
    OBVIOUS
  <2>1. CASE Tick
    <3>1. PICK b, f, c, d, net, lively, sounds : Step(b, f, c, d, net, lively, sounds)
      BY <2>1, Zenon DEF Tick
    <3> QED
      BY <3>1, StepMatches, StepMoves
  <2>2. CASE Restart
    <3>1. tier' = <<>> /\ alive' = alive
      BY <2>2 DEF Restart, machine
    <3> QED
      BY <3>1 DEF GroupMatchesTier
  <2>3. CASE Session \/ Attention
    BY <2>3 DEF Session, Attention, memory, GroupMatchesTier
  <2>4. CASE \E s \in Desktops : Fades(s)
    BY <2>4 DEF Fades, memory, GroupMatchesTier
  <2>5. CASE \E p \in Pids : Exits(p) \/ Spawned(p)
    BY <2>5 DEF Exits, Spawned
  <2>6. CASE UNCHANGED vars
    BY <2>6 DEF vars, memory, machine, GroupMatchesTier
  <2> QED
    BY <2>1, <2>2, <2>3, <2>4, <2>5, <2>6 DEF Next
<1> QED
  BY <1>1, <1>2, PTL DEF Spec

-----------------------------------------------------------------------------
(* What a tick does to the tiers.                                           *)

(* Those a tick has a score for. *)
Considered(f, c, net) == {p \in Seen(f, c) : p = Slot(f, c) \/ p \in net}

(* The three things a tick can do to the tier t and the dwell time n of p:  *)
(* the slot is lifted, another may change once it has dwelt, and the rest   *)
(* keep their tier.                                                         *)
Lifted(p, t, n, f, c, net) ==
    p \in Considered(f, c, net) /\ p = Slot(f, c) /\ t = Hot /\ n = 0

Rescored(p, t, n, f, c, net) ==
    /\ p \in Considered(f, c, net) /\ p # Slot(f, c)
    /\ t \in {Cold, Cool, Warm} /\ n = 0
    /\ p \in DOMAIN tier => ticks[p] >= Dwell

Stays(p, t, n, f, c, net) ==
    /\ p \in DOMAIN tier /\ t = tier[p]
    /\ p \in Considered(f, c, net) => p # Slot(f, c)
    /\ n \in {ticks[p], AtMost(ticks[p] + 1, Dwell)}

Retiered(new, count, f, c, net) ==
    /\ new = [p \in DOMAIN tier \cup Considered(f, c, net) |-> new[p]]
    /\ count = [p \in DOMAIN tier \cup Considered(f, c, net) |-> count[p]]
    /\ \A p \in DOMAIN tier \cup Considered(f, c, net) :
         \/ Lifted(p, new[p], count[p], f, c, net)
         \/ Rescored(p, new[p], count[p], f, c, net)
         \/ Stays(p, new[p], count[p], f, c, net)

(* The tiers, dwell times and samples a tick leaves behind. *)
TiersAfter(new, count, f, c, d, net, lively) ==
    LET dropped == Dropped(new, Kept(Seen(f, c), Slot(f, c), Aged(f, c, d), net))
    IN  /\ Retiered(new, count, f, c, net)
        /\ tier' = Restrict(new, DOMAIN new \ dropped)
        /\ ticks' = Restrict(count, DOMAIN count \ dropped)
        /\ cgroup' = Moved(new)
        /\ samples' = [p \in Pids |-> IF p \in dropped THEN 0
                                      ELSE Sampled(Seen(f, c), net)[p]]
        /\ interactive' = lively \ dropped

(* Every score there is leads to one of the three.                          *)
LEMMA StepTiers ==
    ASSUME NEW b, NEW f, NEW c, NEW d, NEW net, NEW lively, NEW sounds,
           Step(b, f, c, d, net, lively, sounds)
    PROVE  \E new, count : TiersAfter(new, count, f, c, d, net, lively)
<1> DEFINE slot == Slot(f, c)
           seen == Seen(f, c)
           aged == Aged(f, c, d)
           considered == {p \in seen : p = slot \/ p \in net}
           score == [p \in considered |->
                       Score(aged[p], p \in net \cap lively,
                             p # slot /\ AudioAvailable /\ p \in sounds)]
           new == [p \in DOMAIN tier \cup considered |->
                     IF p \in considered THEN NewTier(p, score[p], slot) ELSE tier[p]]
           count == [p \in DOMAIN tier \cup considered |->
                       IF p \in considered THEN NewTicks(p, score[p], slot) ELSE ticks[p]]
           kept == Kept(seen, slot, aged, net)
           dropped == Dropped(new, kept)
<1>1. /\ cgroup' = Moved(new)
      /\ tier' = Restrict(new, DOMAIN new \ dropped)
      /\ ticks' = Restrict(count, DOMAIN count \ dropped)
      /\ samples' = [p \in Pids |-> IF p \in dropped THEN 0 ELSE Sampled(seen, net)[p]]
      /\ interactive' = lively \ dropped
  BY Zenon DEF Step
<1>2. considered = Considered(f, c, net)
  BY DEF Considered
<1> HIDE DEF score
<1>3. ASSUME NEW p \in DOMAIN tier \cup considered
      PROVE  \/ Lifted(p, new[p], count[p], f, c, net)
             \/ Rescored(p, new[p], count[p], f, c, net)
             \/ Stays(p, new[p], count[p], f, c, net)
  <2>1. CASE p \in considered /\ p = slot
    BY <1>2, <2>1 DEF NewTier, NewTicks, Lifted
  <2>2. CASE p \in considered /\ p # slot /\ Changes(p, score[p])
    <3>1. new[p] = TierForDecay(score[p]) /\ count[p] = 0
      BY <2>2 DEF NewTier, NewTicks
    <3> QED
      BY <1>2, <2>2, <3>1 DEF Changes, TierForDecay, Rescored
  <2>3. CASE p \in considered /\ p # slot /\ ~Changes(p, score[p])
    <3>1. new[p] = tier[p] /\ count[p] = AtMost(ticks[p] + 1, Dwell) /\ p \in DOMAIN tier
      BY <2>3 DEF NewTier, NewTicks, Changes
    <3> QED
      BY <1>2, <2>3, <3>1 DEF Stays
  <2>4. CASE p \notin considered
    BY <1>2, <2>4 DEF Stays
  <2> QED
    BY <2>1, <2>2, <2>3, <2>4
<1>4. Retiered(new, count, f, c, net)
  <2>1. DOMAIN tier \cup considered = DOMAIN tier \cup Considered(f, c, net)
    BY <1>2
  <2>2. new = [p \in DOMAIN tier \cup considered |-> new[p]]
    OBVIOUS
  <2>3. count = [p \in DOMAIN tier \cup considered |-> count[p]]
    OBVIOUS
  <2> HIDE DEF new, count, considered
  <2> QED
    BY <1>3, <2>1, <2>2, <2>3 DEF Retiered
<1>5. TiersAfter(new, count, f, c, d, net, lively)
  BY <1>1, <1>4, Zenon DEF TiersAfter
<1> HIDE DEF new, count
<1> QED
  BY <1>5

(* What a tick may see of the machine. *)
TickOf(b, f, c, d, net, lively, sounds) ==
    /\ b \in Backends /\ f \in Named(b) /\ d \in Elapse
    /\ c \in IF f = Nobody THEN {Nobody} ELSE Companions(Recorded(f), f)
    /\ net \in Scan(network, Seen(f, c) \cap alive)
    /\ sounds \in IF AudioAvailable THEN Scan(audio, alive) ELSE {{}}
    /\ lively \in
         Scan(interactive, {p \in Pids : Sampled(Seen(f, c), net)[p] = Window})
    /\ Step(b, f, c, d, net, lively, sounds)

LEMMA TickSees ==
    ASSUME Tick
    PROVE  \E b, f, c, d, net, lively, sounds : TickOf(b, f, c, d, net, lively, sounds)
<1>1. PICK b \in Backends : \E f \in Named(b), d \in Elapse :
        \E c \in IF f = Nobody THEN {Nobody} ELSE Companions(Recorded(f), f) :
        \E net \in Scan(network, Seen(f, c) \cap alive),
           sounds \in IF AudioAvailable THEN Scan(audio, alive) ELSE {{}} :
        \E lively \in
             Scan(interactive, {p \in Pids : Sampled(Seen(f, c), net)[p] = Window}) :
            Step(b, f, c, d, net, lively, sounds)
  BY Zenon DEF Tick
<1>2. PICK f \in Named(b), d \in Elapse :
        \E c \in IF f = Nobody THEN {Nobody} ELSE Companions(Recorded(f), f) :
        \E net \in Scan(network, Seen(f, c) \cap alive),
           sounds \in IF AudioAvailable THEN Scan(audio, alive) ELSE {{}} :
        \E lively \in
             Scan(interactive, {p \in Pids : Sampled(Seen(f, c), net)[p] = Window}) :
            Step(b, f, c, d, net, lively, sounds)
  BY <1>1, Zenon
<1>3. PICK c \in IF f = Nobody THEN {Nobody} ELSE Companions(Recorded(f), f) :
        \E net \in Scan(network, Seen(f, c) \cap alive),
           sounds \in IF AudioAvailable THEN Scan(audio, alive) ELSE {{}} :
        \E lively \in
             Scan(interactive, {p \in Pids : Sampled(Seen(f, c), net)[p] = Window}) :
            Step(b, f, c, d, net, lively, sounds)
  BY <1>2, Zenon
<1>4. PICK net \in Scan(network, Seen(f, c) \cap alive),
           sounds \in IF AudioAvailable THEN Scan(audio, alive) ELSE {{}} :
        \E lively \in
             Scan(interactive, {p \in Pids : Sampled(Seen(f, c), net)[p] = Window}) :
            Step(b, f, c, d, net, lively, sounds)
  BY <1>3, Zenon
<1>5. PICK lively \in
             Scan(interactive, {p \in Pids : Sampled(Seen(f, c), net)[p] = Window}) :
        Step(b, f, c, d, net, lively, sounds)
  BY <1>4, Zenon
<1>6. TickOf(b, f, c, d, net, lively, sounds)
  BY <1>1, <1>2, <1>3, <1>4, <1>5, Zenon DEF TickOf
<1> QED
  BY <1>6, Zenon

(* What it does to everything but the tiers and the samples.                *)
LEMMA TickShape ==
    ASSUME NEW b, NEW f, NEW c, NEW d, NEW net, NEW lively, NEW sounds,
           TickOf(b, f, c, d, net, lively, sounds)
    PROVE  LET kept == Kept(Seen(f, c), Slot(f, c), Aged(f, c, d), net)
           IN  /\ tick' = (tick + 1) % Cycle /\ backend' = b
               /\ unfocused' = IF f # Nobody THEN 0
                               ELSE AtMost((IF Redetects THEN 0 ELSE unfocused) + 1,
                                           MissingFocus)
               /\ focus' = Slot(f, c)
               /\ history' = IF f # Nobody THEN Recorded(f) ELSE history
               /\ tracked' = kept
               /\ age' = [p \in Pids |-> IF p \in kept THEN Aged(f, c, d)[p] ELSE Oldest]
               /\ network' = net /\ audio' = sounds
               /\ held' = [p \in Pids |-> IF cgroup'[p] # cgroup[p] THEN 0
                                          ELSE AtMost(held[p] + 1, Dwell)]
               /\ user' = IF f # Nobody THEN f ELSE user
               /\ UNCHANGED <<alive, desktop, busy, environs>>
BY Zenon DEF TickOf, Step

-----------------------------------------------------------------------------
(* The variables keep their types.                                          *)

LEMMA DetectedTyped ==
    ASSUME environs \subseteq Desktops
    PROVE  Detected \subseteq Desktops \cup {Nobody}
<1>1. Candidates \subseteq Desktops
  BY DEF Candidates
<1> QED
  BY <1>1 DEF Detected

LEMMA TickInputs ==
    ASSUME TypeOK,
           NEW b, NEW f, NEW c, NEW d, NEW net, NEW lively, NEW sounds,
           TickOf(b, f, c, d, net, lively, sounds)
    PROVE  /\ b \in Desktops \cup {Nobody} /\ f \in Pids \cup {Nobody}
           /\ c \in Pids \cup {Nobody} /\ d \in Nat
           /\ Seen(f, c) \subseteq Pids /\ Slot(f, c) \in Pids \cup {Nobody}
           /\ net \subseteq Seen(f, c) /\ lively \subseteq Pids /\ sounds \subseteq Pids
<1>1. b \in Desktops \cup {Nobody}
  BY DetectedTyped DEF TickOf, Backends, TypeOK
<1>2. f \in Pids \cup {Nobody}
  BY DEF TickOf, Named, TypeOK
<1>3. c \in Pids \cup {Nobody}
  BY DEF TickOf, Companions
<1>4. d \in Nat
  BY ElapseAssumption DEF TickOf
<1>5. Seen(f, c) \subseteq Pids /\ Slot(f, c) \in Pids \cup {Nobody}
  BY <1>2, <1>3 DEF Seen, Refreshed, Slot, TypeOK
<1>6. net \subseteq Seen(f, c)
  BY DEF TickOf, Scan, Seen, TypeOK
<1>7. lively \subseteq Pids
  BY DEF TickOf, Scan, TypeOK
<1>8. sounds \subseteq Pids
  BY DEF TickOf, Scan, TypeOK
<1> QED
  BY <1>1, <1>2, <1>3, <1>4, <1>5, <1>6, <1>7, <1>8

LEMMA AtMostTyped ==
    ASSUME NEW n \in Nat, NEW bound \in Nat
    PROVE  AtMost(n, bound) \in 0..bound
BY DEF AtMost

LEMMA AgesExist == Oldest \in Nat \ {0} /\ Oldest \in Ages /\ 1 \in Ages
BY CurveAssumption DEF Oldest, Ages

LEMMA AgedTyped ==
    ASSUME age \in [Pids -> Ages], NEW f, NEW c, NEW d \in Nat
    PROVE  Aged(f, c, d) \in [Pids -> Ages]
<1>1. ASSUME NEW p \in Pids
      PROVE  AtMost(age[p] + d, Oldest) \in Ages
  BY AgesExist DEF Ages, Oldest, AtMost
<1> QED
  BY <1>1, AgesExist DEF Aged

LEMMA SampledTyped ==
    ASSUME samples \in [Pids -> 0..Window], NEW seen, NEW net
    PROVE  Sampled(seen, net) \in [Pids -> 0..Window]
<1>1. ASSUME NEW p \in Pids
      PROVE  AtMost(samples[p] + 1, Window) \in 0..Window /\ 0 \in 0..Window
  BY SizesAssumption DEF AtMost
<1> QED
  BY <1>1 DEF Sampled

(* The history never holds more than HistorySize processes.                 *)
LEMMA RecordedTyped ==
    ASSUME history \in Seq(Pids), Len(history) <= HistorySize, NEW p \in Pids
    PROVE  Recorded(p) \in Seq(Pids) /\ Len(Recorded(p)) <= HistorySize
<1> DEFINE longer == Append(history, p)
<1>1. longer \in Seq(Pids) /\ Len(longer) = Len(history) + 1 /\ Len(history) \in Nat
  OBVIOUS
<1>2. longer # <<>>
  BY <1>1
<1>3. Tail(longer) \in Seq(Pids) /\ Len(Tail(longer)) = Len(longer) - 1
  BY <1>1, <1>2
<1> HIDE DEF longer
<1>4. Recorded(p) = IF Len(longer) > HistorySize THEN Tail(longer) ELSE longer
  BY DEF Recorded, longer
<1> QED
  BY <1>1, <1>3, <1>4, SizesAssumption

(* What is remembered of the tiers after a tick.                            *)
LEMMA TiersTyped ==
    ASSUME TypeOK,
           NEW b, NEW f, NEW c, NEW d, NEW net, NEW lively, NEW sounds,
           TickOf(b, f, c, d, net, lively, sounds)
    PROVE  /\ DOMAIN tier' \subseteq tracked' /\ tier' \in [DOMAIN tier' -> Tiers]
           /\ ticks' \in [DOMAIN tier' -> 0..Dwell]
           /\ cgroup' \in [Pids -> Tiers \cup {Root}]
<1> DEFINE kept == Kept(Seen(f, c), Slot(f, c), Aged(f, c, d), net)
<1>1. PICK new, count : TiersAfter(new, count, f, c, d, net, lively)
  BY StepTiers DEF TickOf
<1> USE DEF TiersAfter
<1>2. DOMAIN new = DOMAIN tier \cup Considered(f, c, net) /\ DOMAIN count = DOMAIN new
  BY <1>1 DEF Retiered
<1>3. DOMAIN new \subseteq Seen(f, c)
  BY <1>2 DEF Considered, Seen, TypeOK
<1>4. \A p \in DOMAIN new : new[p] \in Tiers /\ count[p] \in 0..Dwell
  <2> SUFFICES ASSUME NEW p \in DOMAIN new
               PROVE  new[p] \in Tiers /\ count[p] \in 0..Dwell
    OBVIOUS
  <2>1. CASE Lifted(p, new[p], count[p], f, c, net) \/ Rescored(p, new[p], count[p], f, c, net)
    BY <2>1, SizesAssumption DEF Lifted, Rescored, Tiers, Hot, Warm, Cool, Cold
  <2>2. CASE Stays(p, new[p], count[p], f, c, net)
    <3>1. tier[p] \in Tiers /\ ticks[p] \in 0..Dwell
      BY <2>2 DEF Stays, TypeOK
    <3> QED
      BY <2>2, <3>1, SizesAssumption DEF Stays, AtMost
  <2> QED
    BY <1>1, <1>2, <2>1, <2>2 DEF Retiered
<1>5. DOMAIN new \ Dropped(new, kept) \subseteq kept
  BY <1>3 DEF Dropped, Kept
<1>6. tracked' = kept
  BY TickShape
<1>7. /\ DOMAIN tier' = DOMAIN new \ Dropped(new, kept)
      /\ tier' \in [DOMAIN tier' -> Tiers]
      /\ ticks' \in [DOMAIN tier' -> 0..Dwell]
  BY <1>1, <1>2, <1>4 DEF Restrict
<1>8. cgroup' \in [Pids -> Tiers \cup {Root}]
  BY <1>1, <1>4 DEF Moved, TypeOK
<1> HIDE DEF kept
<1> QED
  BY <1>5, <1>6, <1>7, <1>8

LEMMA TickTyped ==
    ASSUME TypeOK, Tick
    PROVE  TypeOK'
<1>1. PICK b, f, c, d, net, lively, sounds : TickOf(b, f, c, d, net, lively, sounds)
  BY TickSees, Zenon
<1> DEFINE kept == Kept(Seen(f, c), Slot(f, c), Aged(f, c, d), net)
<1>2. /\ b \in Desktops \cup {Nobody} /\ f \in Pids \cup {Nobody} /\ d \in Nat
      /\ Seen(f, c) \subseteq Pids /\ Slot(f, c) \in Pids \cup {Nobody}
      /\ net \subseteq Seen(f, c) /\ lively \subseteq Pids /\ sounds \subseteq Pids
  BY <1>1, TickInputs
<1>3. kept \subseteq Seen(f, c) /\ net \subseteq kept
  BY <1>2 DEF Kept
<1>4. tick' \in 0..(Cycle - 1)
  <2>1. tick' = (tick + 1) % Cycle /\ tick \in Nat /\ Cycle \in Nat \ {0}
    BY <1>1, TickShape, SizesAssumption DEF TypeOK
  <2> QED
    BY <2>1
<1>5. unfocused' \in 0..MissingFocus
  <2>1. unfocused \in Nat /\ MissingFocus \in Nat
    BY SizesAssumption DEF TypeOK
  <2>2. (IF Redetects THEN 0 ELSE unfocused) + 1 \in Nat
    BY <2>1
  <2>3. /\ AtMost((IF Redetects THEN 0 ELSE unfocused) + 1, MissingFocus) \in 0..MissingFocus
        /\ 0 \in 0..MissingFocus
    BY <2>1, <2>2, AtMostTyped
  <2> QED
    BY <1>1, <2>3, TickShape
<1>6. age' \in [Pids -> Ages]
  <2>1. Aged(f, c, d) \in [Pids -> Ages]
    BY <1>2, AgedTyped DEF TypeOK
  <2>2. age' = [p \in Pids |-> IF p \in kept THEN Aged(f, c, d)[p] ELSE Oldest]
    BY <1>1, TickShape
  <2> HIDE DEF kept
  <2> QED
    BY <2>1, <2>2, AgesExist
<1>7. history' \in Seq(Pids) /\ Len(history') <= HistorySize
  <2>1. history' = IF f # Nobody THEN Recorded(f) ELSE history
    BY <1>1, TickShape
  <2> QED
    BY <1>2, <2>1, RecordedTyped DEF TypeOK
<1>8. samples' \in [Pids -> 0..Window] /\ interactive' \subseteq Pids
  <2>1. PICK new, count : TiersAfter(new, count, f, c, d, net, lively)
    BY <1>1, StepTiers DEF TickOf
  <2>2. Sampled(Seen(f, c), net) \in [Pids -> 0..Window]
    BY SampledTyped DEF TypeOK
  <2>3. 0 \in 0..Window
    BY SizesAssumption
  <2> HIDE DEF kept
  <2> QED
    BY <1>2, <2>1, <2>2, <2>3 DEF TiersAfter
<1>9. held' \in [Pids -> 0..Dwell]
  <2>1. \A p \in Pids : AtMost(held[p] + 1, Dwell) \in 0..Dwell /\ 0 \in 0..Dwell
    <3>1. held \in [Pids -> 0..Dwell] /\ Dwell \in Nat
      BY SizesAssumption DEF TypeOK
    <3> QED
      BY <3>1 DEF AtMost
  <2> QED
    BY <1>1, <2>1, TickShape
<1>10. /\ DOMAIN tier' \subseteq tracked' /\ tier' \in [DOMAIN tier' -> Tiers]
       /\ ticks' \in [DOMAIN tier' -> 0..Dwell]
       /\ cgroup' \in [Pids -> Tiers \cup {Root}]
  BY <1>1, TiersTyped
<1>11. /\ backend' = b /\ focus' = Slot(f, c) /\ tracked' = kept /\ network' = net
       /\ audio' = sounds /\ user' = (IF f # Nobody THEN f ELSE user)
       /\ UNCHANGED <<alive, desktop, busy, environs>>
  BY <1>1, TickShape
<1> HIDE DEF kept
<1> QED
  BY <1>2, <1>3, <1>4, <1>5, <1>6, <1>7, <1>8, <1>9, <1>10, <1>11 DEF TypeOK

LEMMA NextTyped ==
    ASSUME TypeOK, [Next]_vars
    PROVE  TypeOK'
<1>1. CASE Tick
  BY <1>1, TickTyped
<1>2. CASE Restart
  <2>1. backend' \in Desktops \cup {Nobody}
    BY <1>2, DetectedTyped DEF Restart, TypeOK
  <2>2. /\ DOMAIN tier' = {} /\ tier' \in [DOMAIN tier' -> Tiers]
        /\ ticks' \in [DOMAIN tier' -> 0..Dwell]
    BY <1>2 DEF Restart
  <2>3. tick' \in 0..(Cycle - 1) /\ unfocused' \in 0..MissingFocus
    BY <1>2, SizesAssumption DEF Restart
  <2>4. history' \in Seq(Pids) /\ Len(history') <= HistorySize
    BY <1>2, SizesAssumption DEF Restart
  <2>5. age' \in [Pids -> Ages] /\ samples' \in [Pids -> 0..Window]
    BY <1>2, AgesExist, SizesAssumption DEF Restart
  <2> QED
    BY <1>2, <2>1, <2>2, <2>3, <2>4, <2>5 DEF Restart, machine, TypeOK
<1>3. CASE Session
  <2>1. UNCHANGED <<memory, cgroup, alive, user, held>>
    BY <1>3 DEF Session
  <2>2. desktop' \in Desktops \cup {Nobody} /\ busy' \in BOOLEAN
    BY <1>3 DEF Session
  <2>3. environs' \subseteq Desktops /\ {desktop'} \ {Nobody} \subseteq environs'
    BY <1>3 DEF Session, TypeOK
  <2> QED
    BY <2>1, <2>2, <2>3 DEF TypeOK, memory, tracker, classifier
<1>4. CASE \E s \in Desktops : Fades(s)
  <2>1. UNCHANGED <<memory, cgroup, alive, desktop, busy, user, held>>
    BY <1>4 DEF Fades
  <2>2. environs' \subseteq Desktops /\ {desktop'} \ {Nobody} \subseteq environs'
    BY <1>4 DEF Fades, TypeOK
  <2> QED
    BY <2>1, <2>2 DEF TypeOK, memory, tracker, classifier
<1>5. CASE \E p \in Pids : Exits(p) \/ Spawned(p)
  <2>1. UNCHANGED <<memory, desktop, busy, environs, user>>
    BY <1>5 DEF Exits, Spawned
  <2>2. alive' \subseteq Pids
    BY <1>5 DEF Exits, Spawned, TypeOK
  <2>3. cgroup' \in [Pids -> Tiers \cup {Root}]
    BY <1>5 DEF Exits, Spawned, TypeOK
  <2>4. held' \in [Pids -> 0..Dwell]
    <3>1. held \in [Pids -> 0..Dwell] /\ Dwell \in 0..Dwell
      BY SizesAssumption DEF TypeOK
    <3> QED
      BY <1>5, <3>1 DEF Exits, Spawned
  <2> QED
    BY <2>1, <2>2, <2>3, <2>4 DEF TypeOK, memory, tracker, classifier
<1>6. CASE Attention
  BY <1>6 DEF Attention, memory, tracker, classifier, TypeOK
<1>7. CASE UNCHANGED vars
  BY <1>7 DEF vars, memory, machine, tracker, classifier, TypeOK
<1> QED
  BY <1>1, <1>2, <1>3, <1>4, <1>5, <1>6, <1>7 DEF Next

(* Every variable of the scheduler keeps its type: no tier outlives the     *)
(* tracker's entry, no history its bound, no dwell time its minimum, for    *)
(* processes that come and go and daemons that crash.                       *)
THEOREM SchedulerTypeCorrect == Spec => []TypeOK
<1>1. Init => TypeOK
  <2> SUFFICES ASSUME Init
               PROVE  TypeOK
    OBVIOUS
  <2>1. environs \subseteq Desktops /\ {desktop} \ {Nobody} \subseteq environs
    BY DEF Init
  <2>2. backend \in Desktops \cup {Nobody}
    BY <2>1, DetectedTyped DEF Init
  <2>3. /\ DOMAIN tier = {} /\ tier \in [DOMAIN tier -> Tiers]
        /\ ticks \in [DOMAIN tier -> 0..Dwell]
    BY DEF Init
  <2>4. tick \in 0..(Cycle - 1) /\ unfocused \in 0..MissingFocus
    BY SizesAssumption DEF Init
  <2>5. history \in Seq(Pids) /\ Len(history) <= HistorySize
    BY SizesAssumption DEF Init
  <2>6. age \in [Pids -> Ages] /\ samples \in [Pids -> 0..Window]
    BY AgesExist, SizesAssumption DEF Init
  <2>7. held \in [Pids -> 0..Dwell] /\ cgroup \in [Pids -> Tiers \cup {Root}]
    BY SizesAssumption DEF Init
  <2> QED
    BY <2>1, <2>2, <2>3, <2>4, <2>5, <2>6, <2>7 DEF Init, TypeOK
<1>2. TypeOK /\ [Next]_vars => TypeOK'
  BY NextTyped
<1> QED
  BY <1>1, <1>2, PTL DEF Spec

-----------------------------------------------------------------------------
(* What is forgotten.                                                       *)

(* Only what has a tier has samples: a scan that sees the sockets of a      *)
(* process gives it a score, and a prune drops both.                        *)
SampledHaveTiers ==
    \A p \in Pids : p \notin DOMAIN tier => samples[p] = 0 /\ p \notin interactive

LEMMA TickForgets ==
    ASSUME TypeOK, SampledHaveTiers, Window # 0, Tick
    PROVE  SampledHaveTiers'
<1>1. PICK b, f, c, d, net, lively, sounds : TickOf(b, f, c, d, net, lively, sounds)
  BY TickSees, Zenon
<1> DEFINE kept == Kept(Seen(f, c), Slot(f, c), Aged(f, c, d), net)
           counted == Sampled(Seen(f, c), net)
<1>2. Step(b, f, c, d, net, lively, sounds)
  BY <1>1 DEF TickOf
<1>3. PICK new, count : TiersAfter(new, count, f, c, d, net, lively)
  BY <1>2, StepTiers
<1>4. DOMAIN new = DOMAIN tier \cup Considered(f, c, net)
  BY <1>3 DEF TiersAfter, Retiered
<1>5. DOMAIN tier' = DOMAIN new \ Dropped(new, kept)
  BY <1>3 DEF TiersAfter, Restrict
<1>6. ASSUME NEW p \in Pids, p \notin DOMAIN new
      PROVE  counted[p] = 0 /\ p \notin lively
  <2>1. p \notin DOMAIN tier /\ samples[p] = 0 /\ p \notin interactive
    BY <1>4, <1>6 DEF SampledHaveTiers
  <2>2. p \in Seen(f, c) => p \notin net
    BY <1>4, <1>6 DEF Considered
  <2>3. counted[p] = 0
    BY <2>1, <2>2 DEF Sampled
  <2>4. lively \in Scan(interactive, {q \in Pids : counted[q] = Window})
    BY <1>1 DEF TickOf
  <2> HIDE DEF counted
  <2> QED
    BY <2>1, <2>3, <2>4 DEF Scan
<1> HIDE DEF kept, counted
<1>7. ASSUME NEW p \in Pids, p \notin DOMAIN tier'
      PROVE  samples'[p] = 0 /\ p \notin interactive'
  BY <1>3, <1>5, <1>6, <1>7 DEF TiersAfter, kept, counted
<1> QED
  BY <1>7 DEF SampledHaveTiers

(* A process the tracker has forgotten has no tier, no samples and counts   *)
(* as interactive nowhere, so a later one with its number starts afresh;    *)
(* the flow classifier must want at least one sample (kSampleWindow).       *)
THEOREM ForgottenIsForgotten ==
    ASSUME Window # 0
    PROVE  Spec => []ForgottenEverywhere
<1> DEFINE I == TypeOK /\ SampledHaveTiers
<1>1. Init => SampledHaveTiers
  BY DEF Init, SampledHaveTiers
<1>2. I /\ [Next]_vars => SampledHaveTiers'
  <2> SUFFICES ASSUME I, [Next]_vars
               PROVE  SampledHaveTiers'
    OBVIOUS
  <2>1. CASE Tick
    BY <2>1, TickForgets
  <2>2. CASE Restart
    BY <2>2 DEF Restart, SampledHaveTiers
  <2>3. CASE UNCHANGED memory
    BY <2>3 DEF memory, classifier, SampledHaveTiers
  <2> QED
    BY <2>1, <2>2, <2>3 DEF Next, Session, Attention, Fades, Exits, Spawned, vars
<1>3. I => ForgottenEverywhere
  BY DEF TypeOK, SampledHaveTiers, ForgottenEverywhere
<1> QED
  BY <1>1, <1>2, <1>3, SchedulerTypeCorrect, PTL DEF Spec

-----------------------------------------------------------------------------
(* Whose process is Hot.                                                    *)

(* The slot of the tracker is the process the desktop named last.           *)
LEMMA TickFocus ==
    ASSUME NEW b, NEW f, NEW c, NEW d, NEW net, NEW lively, NEW sounds,
           TickOf(b, f, c, d, net, lively, sounds), user = focus
    PROVE  user' = Slot(f, c) /\ focus' = Slot(f, c)
<1>1. focus' = Slot(f, c) /\ user' = IF f # Nobody THEN f ELSE user
  BY TickShape
<1> QED
  BY <1>1 DEF Slot

LEMMA UserHasSlot == Spec => [](user = focus)
<1>1. Init => user = focus
  BY DEF Init
<1>2. user = focus /\ [Next]_vars => (user = focus)'
  <2> SUFFICES ASSUME user = focus, [Next]_vars
               PROVE  user' = focus'
    OBVIOUS
  <2>1. CASE Tick
    <3>1. PICK b, f, c, d, net, lively, sounds :
            TickOf(b, f, c, d, net, lively, sounds)
      BY <2>1, TickSees, Zenon
    <3> QED
      BY <3>1, TickFocus
  <2>2. CASE Restart
    BY <2>2 DEF Restart
  <2>3. CASE UNCHANGED <<memory, user>>
    BY <2>3 DEF memory, tracker
  <2> QED
    BY <2>1, <2>2, <2>3 DEF Next, Session, Attention, Fades, Exits, Spawned, vars
<1> QED
  BY <1>1, <1>2, PTL DEF Spec

(* A process changes its group in a tick only as its tier does.             *)
LEMMA MovedByTier ==
    ASSUME NEW f, NEW c, NEW net, NEW new, NEW count,
           Retiered(new, count, f, c, net), cgroup' = Moved(new),
           NEW p \in Pids, cgroup'[p] # cgroup[p]
    PROVE  /\ cgroup'[p] = new[p]
           /\ \/ Lifted(p, new[p], count[p], f, c, net)
              \/ Rescored(p, new[p], count[p], f, c, net)
<1>1. /\ cgroup'[p] = new[p] /\ p \in DOMAIN new
      /\ p \in DOMAIN tier => tier[p] # new[p]
  BY DEF Moved
<1>2. p \in DOMAIN tier \cup Considered(f, c, net)
  BY <1>1 DEF Retiered
<1> QED
  BY <1>1, <1>2 DEF Retiered, Stays

(* With numbers that are not used again, the groups change in ticks alone.  *)
LEMMA OnlyTicksMove ==
    ASSUME Mortal = {}, [Next]_vars, ~Tick
    PROVE  cgroup' = cgroup /\ alive' = alive
BY DEF Next, Restart, Session, Attention, Fades, Exits, Spawned, vars, machine

(* No score, companion, flow or restart lifts a process into the highest    *)
(* group: a process gets there in the tick in which the desktop names it.   *)
THEOREM OnlyFocusMakesHot ==
    ASSUME Mortal = {}
    PROVE  Spec => HotByFocusOnly
<1>1. user = focus /\ [Next]_vars
        => [\A p \in Pids : cgroup[p] # Hot /\ cgroup'[p] = Hot => user' = p]_vars
  <2> SUFFICES ASSUME user = focus, [Next]_vars,
                      NEW p \in Pids, cgroup[p] # Hot, cgroup'[p] = Hot
               PROVE  user' = p
    OBVIOUS
  <2>1. Tick
    BY OnlyTicksMove
  <2>2. PICK b, f, c, d, net, lively, sounds : TickOf(b, f, c, d, net, lively, sounds)
    BY <2>1, TickSees, Zenon
  <2>3. PICK new, count : TiersAfter(new, count, f, c, d, net, lively)
    BY <2>2, StepTiers DEF TickOf
  <2>4. \/ Lifted(p, Hot, count[p], f, c, net)
        \/ Rescored(p, Hot, count[p], f, c, net)
    BY <2>3, MovedByTier DEF TiersAfter
  <2>5. Lifted(p, Hot, count[p], f, c, net)
    BY <2>4 DEF Rescored, Hot, Warm, Cool, Cold
  <2> QED
    BY <2>2, <2>5, TickFocus DEF Lifted
<1> QED
  BY <1>1, UserHasSlot, PTL DEF Spec, HotByFocusOnly

(* The slot is in the highest tier, and nothing drops it from there.        *)
SlotIsHot == focus # Nobody => focus \in Pids /\ focus \in DOMAIN tier /\ tier[focus] = Hot

LEMMA TickKeepsSlot ==
    ASSUME TypeOK, SlotIsHot, Tick
    PROVE  SlotIsHot'
<1>1. PICK b, f, c, d, net, lively, sounds : TickOf(b, f, c, d, net, lively, sounds)
  BY TickSees, Zenon
<1> DEFINE kept == Kept(Seen(f, c), Slot(f, c), Aged(f, c, d), net)
<1>2. PICK new, count : TiersAfter(new, count, f, c, d, net, lively)
  BY <1>1, StepTiers DEF TickOf
<1>3. focus' = Slot(f, c) /\ Slot(f, c) \in Pids \cup {Nobody}
  BY <1>1, TickShape, TickInputs
<1> SUFFICES ASSUME Slot(f, c) # Nobody
             PROVE  Slot(f, c) \in DOMAIN tier' /\ tier'[Slot(f, c)] = Hot
  BY <1>3 DEF SlotIsHot
<1>4. Slot(f, c) \in Seen(f, c)
  BY DEF Slot, Seen, Refreshed, SlotIsHot, TypeOK
<1>5. Slot(f, c) \in Considered(f, c, net)
  BY <1>4 DEF Considered
<1>6. new[Slot(f, c)] = Hot /\ Slot(f, c) \in DOMAIN new
  BY <1>2, <1>5 DEF TiersAfter, Retiered, Lifted, Rescored, Stays
<1>7. Slot(f, c) \notin Dropped(new, kept)
  BY <1>4 DEF Dropped, Kept
<1>8. tier' = Restrict(new, DOMAIN new \ Dropped(new, kept))
  BY <1>2 DEF TiersAfter
<1> HIDE DEF kept
<1> QED
  BY <1>6, <1>7, <1>8 DEF Restrict

(* The process the desktop named last is in the highest group until another *)
(* is named, however the companions, the pruning and the sessions go.       *)
THEOREM UserStaysHot ==
    ASSUME Mortal = {}
    PROVE  Spec => []UserIsHot
<1> DEFINE I == SlotIsHot /\ alive = Pids
<1>1. Init => I
  BY DEF Init, SlotIsHot
<1>2. TypeOK /\ I /\ [Next]_vars => I'
  <2> SUFFICES ASSUME TypeOK, I, [Next]_vars
               PROVE  I'
    OBVIOUS
  <2>1. CASE Tick
    <3>1. PICK b, f, c, d, net, lively, sounds :
            TickOf(b, f, c, d, net, lively, sounds)
      BY <2>1, TickSees, Zenon
    <3>2. alive' = alive
      BY <3>1, TickShape
    <3> QED
      BY <2>1, <3>2, TickKeepsSlot
  <2>2. CASE Restart
    BY <2>2 DEF Restart, machine, SlotIsHot
  <2>3. CASE UNCHANGED memory /\ ~Tick
    <3>1. alive' = alive
      BY <2>3, OnlyTicksMove
    <3> QED
      BY <2>3, <3>1 DEF memory, tracker, SlotIsHot
  <2> QED
    BY <2>1, <2>2, <2>3 DEF Next, Session, Attention, Fades, Exits, Spawned, vars
<1>3. I /\ GroupMatchesTier /\ user = focus => UserIsHot
  BY DEF SlotIsHot, GroupMatchesTier, UserIsHot
<1> QED
  BY <1>1, <1>2, <1>3, SchedulerTypeCorrect, GroupsMatch, UserHasSlot, PTL DEF Spec


-----------------------------------------------------------------------------
(* How long a process stays in its group.                                   *)

(* The dwell time the thread counts is never more than the one there is.    *)
DwellIsReal == \A p \in DOMAIN tier : ticks[p] <= held[p]

LEMMA TickCounts ==
    ASSUME TypeOK, DwellIsReal, Tick
    PROVE  DwellIsReal'
<1>1. PICK b, f, c, d, net, lively, sounds : TickOf(b, f, c, d, net, lively, sounds)
  BY TickSees, Zenon
<1>2. PICK new, count : TiersAfter(new, count, f, c, d, net, lively)
  BY <1>1, StepTiers DEF TickOf
<1> SUFFICES ASSUME NEW p \in DOMAIN tier'
             PROVE  ticks'[p] <= held'[p]
  BY DEF DwellIsReal
<1>3. p \in DOMAIN tier \cup Considered(f, c, net) /\ ticks'[p] = count[p]
  BY <1>2 DEF TiersAfter, Retiered, Restrict
<1>4. p \in Pids
  BY TickTyped DEF TypeOK
<1>5. held'[p] = (IF cgroup'[p] # cgroup[p] THEN 0 ELSE AtMost(held[p] + 1, Dwell))
  BY <1>1, <1>4, TickShape
<1>6. held[p] \in 0..Dwell /\ Dwell \in Nat /\ held'[p] \in 0..Dwell
  BY <1>4, TickTyped, SizesAssumption DEF TypeOK
<1>7. CASE count[p] = 0
  BY <1>3, <1>6, <1>7
<1>8. CASE Stays(p, new[p], count[p], f, c, net)
  <2>1. p \in DOMAIN tier /\ new[p] = tier[p]
    BY <1>8 DEF Stays
  <2>2. cgroup'[p] = cgroup[p]
    BY <1>2, <1>4, <2>1 DEF TiersAfter, Moved
  <2>3. count[p] \in {ticks[p], AtMost(ticks[p] + 1, Dwell)}
    BY <1>8 DEF Stays
  <2>4. ticks[p] \in 0..Dwell /\ ticks[p] <= held[p]
    BY <2>1 DEF TypeOK, DwellIsReal
  <2> QED
    BY <1>3, <1>5, <1>6, <2>2, <2>3, <2>4 DEF AtMost
<1> QED
  BY <1>2, <1>3, <1>7, <1>8 DEF TiersAfter, Retiered, Lifted, Rescored

LEMMA DwellStaysReal ==
    ASSUME Mortal = {}
    PROVE  Spec => []DwellIsReal
<1>1. Init => DwellIsReal
  BY DEF Init, DwellIsReal
<1>2. TypeOK /\ DwellIsReal /\ [Next]_vars => DwellIsReal'
  <2> SUFFICES ASSUME TypeOK, DwellIsReal, [Next]_vars
               PROVE  DwellIsReal'
    OBVIOUS
  <2>1. CASE Tick
    BY <2>1, TickCounts
  <2>2. CASE Restart
    BY <2>2 DEF Restart, DwellIsReal
  <2>3. CASE UNCHANGED <<memory, held>>
    BY <2>3 DEF memory, DwellIsReal
  <2> QED
    BY <2>1, <2>2, <2>3 DEF Next, Session, Attention, Fades, Exits, Spawned, vars
<1> QED
  BY <1>1, <1>2, SchedulerTypeCorrect, PTL DEF Spec

(* Who else moves in a tick: one it has just begun to consider.             *)
LEMMA TickMoves ==
    ASSUME TypeOK, DwellIsReal, user = focus,
           NEW b, NEW f, NEW c, NEW d, NEW net, NEW lively, NEW sounds,
           TickOf(b, f, c, d, net, lively, sounds),
           NEW p \in Pids, cgroup'[p] # cgroup[p]
    PROVE  \/ user' = p
           \/ p \in DOMAIN tier /\ held[p] >= Dwell
           \/ p \in Considered(f, c, net) \ DOMAIN tier
<1>1. PICK new, count : TiersAfter(new, count, f, c, d, net, lively)
  BY StepTiers DEF TickOf
<1>2. \/ Lifted(p, new[p], count[p], f, c, net)
      \/ Rescored(p, new[p], count[p], f, c, net)
  BY <1>1, MovedByTier DEF TiersAfter
<1>3. CASE Lifted(p, new[p], count[p], f, c, net)
  BY <1>3, TickFocus DEF Lifted
<1>4. CASE Rescored(p, new[p], count[p], f, c, net) /\ p \in DOMAIN tier
  <2>1. ticks[p] >= Dwell /\ ticks[p] <= held[p]
    BY <1>4 DEF Rescored, DwellIsReal
  <2>2. ticks[p] \in Int /\ held[p] \in Int /\ Dwell \in Int
    BY <1>4, SizesAssumption DEF TypeOK
  <2> QED
    BY <1>4, <2>1, <2>2
<1>5. CASE Rescored(p, new[p], count[p], f, c, net) /\ p \notin DOMAIN tier
  BY <1>5 DEF Rescored
<1> QED
  BY <1>2, <1>3, <1>4, <1>5

(* The minimum dwell time (kMinTierDwellTicks), for a history of any size:  *)
(* a process the thread remembers leaves its group only for the focus or    *)
(* after it has been there for Dwell ticks, whatever its scores, sockets,   *)
(* streams and companions do, and across crashes of the daemon.             *)
THEOREM RememberedStayPut ==
    ASSUME Mortal = {}
    PROVE  Spec => DwellsInGroup
<1>1. TypeOK /\ DwellIsReal /\ user = focus /\ [Next]_vars
        => [\A p \in DOMAIN tier :
              cgroup'[p] # cgroup[p] => user' = p \/ held[p] >= Dwell]_vars
  <2> SUFFICES ASSUME TypeOK, DwellIsReal, user = focus, [Next]_vars,
                      NEW p \in DOMAIN tier, cgroup'[p] # cgroup[p]
               PROVE  user' = p \/ held[p] >= Dwell
    OBVIOUS
  <2>1. Tick /\ p \in Pids
    BY OnlyTicksMove DEF TypeOK
  <2>2. PICK b, f, c, d, net, lively, sounds : TickOf(b, f, c, d, net, lively, sounds)
    BY <2>1, TickSees, Zenon
  <2> QED
    BY <2>1, <2>2, TickMoves
<1> QED
  BY <1>1, SchedulerTypeCorrect, DwellStaysReal, UserHasSlot, PTL
  DEF Spec, DwellsInGroup
=============================================================================
