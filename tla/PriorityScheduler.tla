-------------------------- MODULE PriorityScheduler --------------------------
(***************************************************************************)
(* The scheduler thread of the daemon (core/src/priority_scheduler.cpp):   *)
(* every tick it asks the desktop for the focused process, ages the focus  *)
(* of the others (focus_decay_tracker.cpp), looks for a companion          *)
(* (context_persistence.cpp), at some ticks looks at their sockets and     *)
(* streams (network_flow_classifier.cpp), and moves each process it has a  *)
(* new tier for into the cgroup of that tier.                              *)
(*                                                                         *)
(* One tick is one action: the thread shares no memory with another one.   *)
(* Scores are in hundredths.                                               *)
(***************************************************************************)
EXTENDS Integers, Sequences, FiniteSets, Functions

CONSTANTS
    Pids,            \* process numbers
    Desktops,        \* graphical sessions, one after another
    Compositors,     \* those that export the socket of a compositor
    Nobody,          \* -1: no process; no desktop
    Curve,           \* Curve[a]: the decay factor at age a, from just focused to stale
    Elapse,          \* how much older a focus may be one tick later
    HistorySize,     \* ContextPersistence's history_size
    Window,          \* kSampleWindow
    Dwell,           \* kMinTierDwellTicks
    RescanEvery,     \* kNetworkRescanEveryTicks
    PruneEvery,      \* kStaleEntryPruneEveryTicks
    RetryEvery,      \* kSessionRetryEveryTicks
    MissingFocus,    \* kMissingFocusTicksBeforeRedetect
    Cycle,           \* a common multiple of the three periods
    AudioAvailable,  \* pactl is installed
    Lingers,         \* TRUE: processes of a session may outlive it
    Mortal,          \* processes that end and whose numbers are used again
    Crashes          \* TRUE: the daemon may die and be started again

Ages == 1..Len(Curve)
Oldest == Len(Curve)

ASSUME NobodyAssumption == Nobody \notin Pids \cup Desktops
ASSUME CurveAssumption ==
    /\ Curve \in Seq(0..100) /\ Curve # <<>>
    /\ \A a, b \in Ages : a < b => Curve[a] > Curve[b]
ASSUME ElapseAssumption == Elapse \subseteq Nat
ASSUME SizesAssumption ==
    /\ HistorySize \in Nat /\ Window \in Nat /\ Dwell \in Nat /\ MissingFocus \in Nat
    /\ {RescanEvery, PruneEvery, RetryEvery, Cycle} \subseteq Nat \ {0}
    /\ \A n \in {RescanEvery, PruneEvery, RetryEvery} : Cycle % n = 0
ASSUME SessionsAssumption == Compositors \subseteq Desktops /\ Mortal \subseteq Pids
ASSUME SwitchesAssumption == {AudioAvailable, Lingers, Crashes} \subseteq BOOLEAN

Cold == 0
Cool == 1
Warm == 2
Hot == 3
Tiers == Cold..Hot

Root == -1   \* the group of a process nobody has moved

VARIABLES
    tick,         \* tick_count, modulo Cycle
    backend,      \* the desktop whose backend is in use
    unfocused,    \* ticks_without_focus, up to MissingFocus
    focus,        \* currently_focused_pid_
    tracked,      \* the keys of the tracker's states_
    age,          \* the age of their last_focus_time
    network,      \* those with has_network_activity
    samples,      \* how many queue samples the flow classifier has of each
    interactive,  \* those whose samples look interactive
    audio,        \* audio_active_pids
    history,      \* recent_focus_history_
    tier,         \* current_tier
    ticks,        \* ticks_in_tier, up to Dwell
    cgroup,       \* the group the kernel has each process in
    alive,        \* the processes there are
    desktop,      \* the desktop that is up and answers
    busy,         \* a window of the desktop, one without a compositor's socket,
                  \* has the focus, and a process number
    environs,     \* those a process has in its environment
    user,         \* history: the process the desktop named last
    held          \* history: ticks since a process changed its group, up to Dwell

tracker == <<focus, tracked, age, network, history>>
classifier == <<samples, interactive, audio>>
memory == <<tick, backend, unfocused, tracker, classifier, tier, ticks>>
machine == <<cgroup, alive, desktop, busy, environs>>
vars == <<memory, machine, user, held>>

TypeOK ==
    /\ tick \in 0..(Cycle - 1)
    /\ backend \in Desktops \cup {Nobody}
    /\ unfocused \in 0..MissingFocus
    /\ focus \in Pids \cup {Nobody}
    /\ tracked \subseteq Pids
    /\ age \in [Pids -> Ages]
    /\ network \subseteq tracked
    /\ samples \in [Pids -> 0..Window]
    /\ interactive \subseteq Pids
    /\ audio \subseteq Pids
    /\ history \in Seq(Pids) /\ Len(history) <= HistorySize
    /\ DOMAIN tier \subseteq tracked /\ tier \in [DOMAIN tier -> Tiers]
    /\ ticks \in [DOMAIN tier -> 0..Dwell]
    /\ cgroup \in [Pids -> Tiers \cup {Root}]
    /\ alive \subseteq Pids
    /\ desktop \in Desktops \cup {Nobody} /\ busy \in BOOLEAN
    /\ environs \subseteq Desktops /\ {desktop} \ {Nobody} \subseteq environs
    /\ user \in Pids \cup {Nobody}
    /\ held \in [Pids -> 0..Dwell]

-----------------------------------------------------------------------------
(* ContextPersistence.                                                     *)

AtMost(n, bound) == IF n < bound THEN n ELSE bound

Recorded(p) ==
    LET longer == Append(history, p)
    IN  IF Len(longer) > HistorySize THEN Tail(longer) ELSE longer

Alternates(h, p, q) ==
    /\ Len(h) >= 4
    /\ Cardinality({i \in 2..Len(h) : {h[i - 1], h[i]} = {p, q}}) >= 3

(* Those of the most frequent partners; the map's order decides among them. *)
Companions(h, p) ==
    LET Count(q) == Cardinality({i \in 1..Len(h) : h[i] = q})
        partners == {q \in Pids \ {p} : Alternates(h, p, q)}
        best == {q \in partners : \A r \in partners : Count(q) >= Count(r)}
    IN  IF best = {} THEN {Nobody} ELSE best

-----------------------------------------------------------------------------
(* Tiers.                                                                  *)

TierForDecay(score) ==
    IF score >= 70 THEN Warm ELSE IF score >= 30 THEN Cool ELSE Cold

(* tier_boundary_crossed_with_margin().                                    *)
Crossed(score, current, proposed) ==
    \/ proposed > current /\ score >= (IF current = Cold THEN 30 ELSE 70) + 5
    \/ proposed < current /\ score < (IF current = Warm THEN 70 ELSE 30) - 5

(* Mutant: a process is moved once only.                                   *)
Moved_Mutant(new) ==
    [p \in Pids |-> IF p \in alive /\ p \in DOMAIN new \ DOMAIN tier
                    THEN new[p] ELSE cgroup[p]]

(* The group of every process after the moves; a dead one has none.        *)
Moved(new) ==
    [p \in Pids |-> IF p \in alive /\ p \in DOMAIN new
                       /\ (p \in DOMAIN tier => tier[p] # new[p])
                    THEN new[p] ELSE cgroup[p]]

-----------------------------------------------------------------------------
Due(period) == tick % period = 0

(* Mutant: the first usable environment is the session.                    *)
Candidates_Mutant == environs

(* SessionEnvironment::detect(): the first usable environment in /proc,    *)
(* unless one has the socket of a compositor. Which is first is chance.    *)
Candidates ==
    IF environs \cap Compositors # {} THEN environs \cap Compositors ELSE environs

(* A compositor answers as long as it is up (get_version); X11 only while   *)
(* get_focused_pid_x11() finds a process (window_focus_backend.cpp:52).     *)
Answers(s) == s = desktop /\ (s \in Compositors \/ busy)

(* detect_available_backend(): None for a session that does not answer.     *)
Detected ==
    IF Candidates = {} THEN {Nobody}
    ELSE {IF Answers(s) THEN s ELSE Nobody : s \in Candidates}

(* What the thread may see of the machine in a tick.                       *)

(* Mutant: only a missing backend is looked for.                           *)
Redetects_Mutant == backend = Nobody /\ Due(RetryEvery)

Redetects == (backend = Nobody \/ unfocused >= MissingFocus) /\ Due(RetryEvery)

Backends == IF Redetects THEN Detected ELSE {backend}

Named(b) == {Nobody} \cup (IF b # Nobody /\ b = desktop THEN alive ELSE {})

Scan(now, found) == IF Due(RescanEvery) THEN SUBSET found ELSE {now}

(* Mutant: the companion is marked as focused too.                          *)
Slot_Mutant(f, c) == IF c # Nobody THEN c ELSE IF f = Nobody THEN focus ELSE f

(* mark_focused() takes the slot, mark_recently_used() does not. A desktop  *)
(* that names nobody leaves it with its last owner.                         *)
Slot(f, c) == IF f = Nobody THEN focus ELSE f

Refreshed(f, c) == {f, c} \ {Nobody}

Seen(f, c) == tracked \cup Refreshed(f, c)

Aged(f, c, d) ==
    [p \in Pids |-> IF p \in Refreshed(f, c) THEN 1 ELSE AtMost(age[p] + d, Oldest)]

(* Mutant: the oldest sample is not dropped.                                *)
Sampled_Mutant(seen, net) ==
    [p \in Pids |->
       IF ~Due(RescanEvery) \/ p \notin seen THEN samples[p]
       ELSE IF p \in net THEN samples[p] + 1 ELSE 0]

(* sample() for a tracked process with sockets, forget() for one without.   *)
Sampled(seen, net) ==
    [p \in Pids |->
       IF ~Due(RescanEvery) \/ p \notin seen THEN samples[p]
       ELSE IF p \in net THEN AtMost(samples[p] + 1, Window) ELSE 0]

(* The decay factor, lifted by an interactive flow and lowered by a stream. *)
Score(a, rescued, noisy) ==
    LET lifted == IF rescued /\ Curve[a] < 75 THEN 75 ELSE Curve[a]
    IN  IF noisy /\ ~rescued THEN AtMost(lifted, 20) ELSE lifted

(* Mutant: the dwell time is not waited for.                                *)
Changes_Mutant(p, score) ==
    p \in DOMAIN tier => Crossed(score, tier[p], TierForDecay(score))

Changes(p, score) ==
    p \in DOMAIN tier =>
        Crossed(score, tier[p], TierForDecay(score)) /\ ticks[p] >= Dwell

NewTier(p, score, slot) ==
    IF p = slot THEN Hot
    ELSE IF Changes(p, score) THEN TierForDecay(score) ELSE tier[p]

(* Mutant: the counter starts again in every tick.                          *)
NewTicks_Stuck(p, score, slot) == 0

NewTicks(p, score, slot) ==
    IF p = slot \/ Changes(p, score) THEN 0 ELSE AtMost(ticks[p] + 1, Dwell)

(* forget_stale_entries() spares the focused and those with sockets.        *)
Kept(seen, slot, aged, net) ==
    IF Due(PruneEvery)
    THEN {p \in seen : p = slot \/ aged[p] < Oldest \/ p \in net}
    ELSE seen

(* Mutant: the tiers of forgotten processes are kept.                       *)
Dropped_Mutant(new, kept) == {}

Dropped(new, kept) == IF Due(PruneEvery) THEN DOMAIN new \ kept ELSE {}

(* A tick in which the backend is b and names f, whose companion is c, and  *)
(* net, lively and sounds are what the scheduler knows of the processes.    *)
Step(b, f, c, d, net, lively, sounds) ==
    LET slot == Slot(f, c)
        seen == Seen(f, c)
        aged == Aged(f, c, d)
        considered == {p \in seen : p = slot \/ p \in net}
        score == [p \in considered |->
                    Score(aged[p], p \in net \cap lively,
                          p # slot /\ AudioAvailable /\ p \in sounds)]
        newTier == [p \in DOMAIN tier \cup considered |->
                      IF p \in considered THEN NewTier(p, score[p], slot) ELSE tier[p]]
        newTicks == [p \in DOMAIN tier \cup considered |->
                      IF p \in considered THEN NewTicks(p, score[p], slot) ELSE ticks[p]]
        kept == Kept(seen, slot, aged, net)
        dropped == Dropped(newTier, kept)
        counted == Sampled(seen, net)
    IN  /\ tick' = (tick + 1) % Cycle
        /\ backend' = b
        /\ unfocused' = IF f # Nobody THEN 0
                        ELSE AtMost((IF Redetects THEN 0 ELSE unfocused) + 1,
                                    MissingFocus)
        /\ focus' = slot
        /\ history' = IF f # Nobody THEN Recorded(f) ELSE history
        /\ tracked' = kept
        /\ age' = [p \in Pids |-> IF p \in kept THEN aged[p] ELSE Oldest]
        /\ network' = net
        /\ samples' = [p \in Pids |-> IF p \in dropped THEN 0 ELSE counted[p]]
        /\ interactive' = lively \ dropped
        /\ audio' = sounds
        /\ tier' = Restrict(newTier, DOMAIN newTier \ dropped)
        /\ ticks' = Restrict(newTicks, DOMAIN newTicks \ dropped)
        /\ cgroup' = Moved(newTier)
        /\ held' = [p \in Pids |-> IF cgroup'[p] # cgroup[p] THEN 0
                                   ELSE AtMost(held[p] + 1, Dwell)]
        /\ user' = IF f # Nobody THEN f ELSE user
        /\ UNCHANGED <<alive, desktop, busy, environs>>

Tick ==
    \E b \in Backends : \E f \in Named(b), d \in Elapse :
    \E c \in IF f = Nobody THEN {Nobody} ELSE Companions(Recorded(f), f) :
    \E net \in Scan(network, Seen(f, c) \cap alive),
       sounds \in IF AudioAvailable THEN Scan(audio, alive) ELSE {{}} :
    \E lively \in
         Scan(interactive, {p \in Pids : Sampled(Seen(f, c), net)[p] = Window}) :
        Step(b, f, c, d, net, lively, sounds)

-----------------------------------------------------------------------------
(* The daemon dies and systemd starts it again; the groups are as they were. *)
Restart ==
    /\ Crashes
    /\ UNCHANGED <<machine, held>>
    /\ tick' = 0 /\ backend' \in Detected /\ unfocused' = 0
    /\ focus' = Nobody /\ tracked' = {} /\ age' = [p \in Pids |-> Oldest]
    /\ network' = {} /\ history' = <<>>
    /\ samples' = [p \in Pids |-> 0] /\ interactive' = {} /\ audio' = {}
    /\ tier' = <<>> /\ ticks' = <<>>
    /\ user' = Nobody

(* Somebody logs in or out, and processes of the sessions before may stay. *)
Session ==
    /\ desktop' \in (Desktops \cup {Nobody}) \ {desktop} /\ busy' = FALSE
    /\ \E stay \in IF Lingers THEN SUBSET environs ELSE {{}} :
         environs' = (stay \cup {desktop'}) \ {Nobody}
    /\ UNCHANGED <<memory, cgroup, alive, user, held>>

(* A window of an X11 session takes the focus, or the last one loses it.   *)
Attention ==
    /\ desktop \in Desktops \ Compositors
    /\ busy' = ~busy
    /\ UNCHANGED <<memory, cgroup, alive, desktop, environs, user, held>>

(* A process that has outlived its session ends. *)
Fades(s) ==
    /\ s \in environs \ {desktop}
    /\ environs' = environs \ {s}
    /\ UNCHANGED <<memory, cgroup, alive, desktop, busy, user, held>>

Exits(p) ==
    /\ p \in Mortal \cap alive
    /\ alive' = alive \ {p}
    /\ cgroup' = [cgroup EXCEPT ![p] = Root]
    /\ held' = [held EXCEPT ![p] = Dwell]
    /\ UNCHANGED <<memory, desktop, busy, environs, user>>

(* A process starts in the group of its parent. *)
Spawned(p) ==
    /\ p \in Mortal \ alive
    /\ alive' = alive \cup {p}
    /\ \E g \in {Root} \cup {cgroup[q] : q \in alive} : cgroup' = [cgroup EXCEPT ![p] = g]
    /\ UNCHANGED <<memory, desktop, busy, environs, user, held>>

(* The daemon starts: the thread looks for a desktop and knows nothing. *)
Init ==
    /\ desktop \in Desktops \cup {Nobody}
    /\ busy \in BOOLEAN /\ (busy => desktop \in Desktops \ Compositors)
    /\ environs \in {({desktop} \cup stay) \ {Nobody} :
                       stay \in IF Lingers THEN SUBSET Desktops ELSE {{}}}
    /\ tick = 0 /\ backend \in Detected /\ unfocused = 0
    /\ focus = Nobody /\ tracked = {} /\ age = [p \in Pids |-> Oldest]
    /\ network = {} /\ history = <<>>
    /\ samples = [p \in Pids |-> 0] /\ interactive = {} /\ audio = {}
    /\ tier = <<>> /\ ticks = <<>>
    /\ user = Nobody
    /\ cgroup = [p \in Pids |-> Root] /\ alive = Pids
    /\ held = [p \in Pids |-> Dwell]

Next ==
    \/ Tick \/ Restart \/ Session \/ Attention
    \/ \E s \in Desktops : Fades(s)
    \/ \E p \in Pids : Exits(p) \/ Spawned(p)

Spec == Init /\ [][Next]_vars

(* The thread runs for as long as the daemon does. *)
FairSpec == Spec /\ WF_vars(Tick)

-----------------------------------------------------------------------------
(* Properties.                                                             *)

(* The process the desktop named last is in the group of the highest tier,  *)
(* in the tick it was named and as long as no other is named; refreshing a  *)
(* companion does not cost "the window the user is actually working in" its *)
(* "own top tier" (focus_decay_tracker.cpp:24).                             *)
UserIsHot == user # Nobody => cgroup[user] = Hot

(* At most the processes somebody worked in are Hot: no score, companion,   *)
(* flow or restart of the daemon lifts one there.                           *)
HotByFocusOnly ==
    [][\A p \in Pids : cgroup[p] # Hot /\ cgroup'[p] = Hot => user' = p]_vars

(* "A minimum dwell time before a process changes tier" (README.md:63):     *)
(* neither score nor companion, flow or stream moves a process the thread   *)
(* remembers before it has been Dwell ticks in its group. One it has        *)
(* forgotten keeps its group, and is moved at once when it is seen again.   *)
DwellsInGroup ==
    [][\A p \in DOMAIN tier :
         cgroup'[p] # cgroup[p] => user' = p \/ held[p] >= Dwell]_vars

(* The groups of the kernel and the tiers the thread remembers agree, so a  *)
(* move that is skipped as unchanged is one that was made.                  *)
GroupMatchesTier == \A p \in DOMAIN tier \cap alive : cgroup[p] = tier[p]

(* Nothing is remembered of a process the tracker has forgotten: tiers and  *)
(* samples are dropped with it, and a stale flow can rescue no later one.   *)
ForgottenEverywhere ==
    \A p \in Pids \ tracked :
        p \notin DOMAIN tier /\ samples[p] = 0 /\ p \notin interactive

(* A process nobody works in any more, with sockets that are not            *)
(* interactive, ends up in the group of the lowest tier, if its number is   *)
(* never another's.                                                         *)
Neglected(p) ==
    /\ p \in network \cap alive /\ p \notin interactive
    /\ focus # p /\ age[p] = Oldest

NeglectedGoesCold ==
    \A p \in Pids \ Mortal : <>[]Neglected(p) => <>[](cgroup[p] = Cold)

(* "The session has to be picked up again whenever the focus backend is     *)
(* missing or stops answering" (priority_scheduler.cpp:169): the one that   *)
(* stays up and answers, once no other passes for it. The socket of a       *)
(* compositor "pins down the exact session" (session_environment.cpp:143),  *)
(* whatever else lingers.                                                   *)
SessionPickedUp ==
    \A s \in Desktops :
        LET Alone == environs \cap Compositors = {s} \/ environs = {s}
        IN  <>[](Answers(s) /\ Alone) => <>[](backend = s)

(* A process "only gradually loses" its priority "rather than being demoted *)
(* instantly" (focus_decay_tracker.cpp:54-55): without a stream to blame,   *)
(* it does not go from the highest tier to the lowest in one move.          *)
LosesGradually ==
    [][\A p \in Pids : cgroup[p] = Hot => cgroup'[p] # Cold]_vars

(* Every process is in "the control group matching its current tier"        *)
(* (README.md:63), so one without a tier is not in the highest.             *)
UntieredIsNotHot == \A p \in alive \ DOMAIN tier : cgroup[p] # Hot
=============================================================================
