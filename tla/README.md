# betterconn in TLA+

betterconn tunes a Linux machine for low network latency and promises to give
it back.  `start` takes a backup of some forty sysctls, tunes them, writes
files under `/etc` that bring the tuning back at every boot, and installs a
systemd service whose daemon goes on tuning.  `stop` undoes all of that,
`clean` removes what an interrupted run left behind.  The daemon also watches
which process the user works in and moves it to the cgroup of a higher tier.

The modules here model the parts of the program whose correctness depends on
the order of steps: which file exists when, what a kill or a reboot in between
leaves, what two commands, or a command and the service, do to each other, what the
threads of the daemon do to each other, and what a scheduler that remembers
more than it can see does to the processes.

Paths below are relative to the repository; `core/src/` is left out where a
file name is enough.

## The system

| part | source | state it keeps | operations | what makes it correct |
|---|---|---|---|---|
| command line | `cli/src/main.cpp` | none | `start`, `stop`, `clean`, `daemon`, `network`, `status`, `list` | a command that is offered can be carried out |
| Storage | `storage.cpp` | files in `/var/lib/.betterconn` | save, load, exists, remove | a file that exists has its content |
| Optimizer | `optimizer.cpp` | `sysctl_backup`, `state`, `iface`, `profile`, `*_iface` | apply, revert, is_active | the backup is pristine; what is tuned can be undone |
| SystemDefaults | `system_defaults.cpp` | files and a directory under `/etc`, the enabled unit | write, remove, restore defaults, reload | no file survives a revert |
| Cleaner | `cleaner.cpp` | none | run | nothing is left in force |
| PacketMarking | `packet_marking.cpp` | iptables mangle rules | apply, revert | tier rules point at groups that exist |
| systemd unit, boot script | written by `optimizer.cpp` | the service's phase | ExecStartPre, daemon, restart loop | runs only next to the backup that undoes it |
| WifiAirtime | `wifi_airtime.cpp` | `aql_phy`, `aql_saved_limits`, `aql_saved_threshold` | apply (start and every daemon), revert | the saved limits are the driver's |
| IrqAffinity | `irq_affinity.cpp` | `irq_affinity_list`, `irq_prev_*`, `rps_xps_saved`, `irqbalance_was_active` | apply, revert | masks and irqbalance are given back; an interrupt is served by CPUs that served it before |
| PriorityScheduler | `priority_scheduler.cpp` | cgroups, tier and dwell time of every observed PID | one pass per 500 ms | group and tier agree; dwell times are kept; a neglected process goes down |
| FocusDecayTracker | `focus_decay_tracker.cpp` | focus slot, last focus and network activity per PID | mark, refresh, forget | the focus is never stolen; nothing stale is kept |
| ContextPersistence | `context_persistence.cpp` | focus history, transitions | record, companion | a companion is one the user alternates with |
| NetworkFlowClassifier, AudioActivityMonitor, ProcessActivity | files of the same names (`proc_activity.cpp`) | queue samples per PID | queries of a pass | a guess is based on a full window |
| SessionEnvironment, WindowFocusDetector | `session_environment.cpp`, `window_focus_backend.cpp` | the backend in use | detect, focused PID | a new session is found |
| Tuner | `tuner.cpp` | a sample shared by five threads | sampler, buffer, qdisc, wifi, rtt loops | buffers within bounds; nobody acts on half a sample; `stop` joins all |
| SurveyMonitor | `survey_monitor.cpp` | busy ratio, noise | poll thread | the ratio is a proportion |
| NIC, qdisc, WiFi power save | `optimizer.cpp` | `nic_*`, `tc_iface`, `wifi_pm_*` | apply, revert | the original comes back |
| network toggle | `cli/src/main.cpp` | `network_toggle_iface` | `network --interface on`, `off` | `on` finds the interface `off` took down |
| ProfileSelector, NetworkInfo, Status, tiers | small files | none | pure reads | - |

They interact through the disk (`/var/lib/.betterconn`, `/etc`), through the
kernel (sysctls, iptables, cgroups, debugfs, `/proc/irq`) and, inside the
daemon, through atomics shared by threads.  The hazards of each part, at their
lines, are in `PROJECT.json`; the properties below are stated for them.

## Modules

    Baseline             what is promised about any setting that is taken over
      BaselineProofs       theorems: what the promise buys
    Lifecycle            start, stop, clean, the service and the sysctl backup
      MCLifecycle          two terminals that start and stop at the same time
      MCRecovery           interruptions that cease, and fairness
      LifecycleProofs      theorems: types, safety, the refinement of Baseline
    WifiAirtime          airtime limits, applied again by every daemon
      WifiAirtimeProofs    theorems: types, restoration, the refinement of Baseline
    IrqAffinity          queue masks, interrupt affinities, irqbalance
      IrqAffinityProofs    theorems: types, restoration
    LinkTuning           qdisc, WiFi power save, interrupt coalescing
      LinkTuningProofs     theorems: types, restoration
    PriorityScheduler    the scheduler thread of the daemon
      MCPriorityScheduler  its decay curve and symmetry for TLC
      SchedulerProofs      theorems: types, groups, focus, dwell times, forgetting
    Daemon               what the commands take the daemon for
    Tuner                the daemon: its main thread, seven threads, the sample
      MCTuner              Tuner and BufferSizing in small numbers for TLC
      TunerProofs          theorems: types, the refinement of Daemon, samples, ratios
    BufferSizing         the sizes of the socket buffers
      BufferSizingProofs   theorems: bounds and alignment, falling gently

### Baseline

One promise is common to everything betterconn saves and tunes: a setting is
tuned only while its previous value is on record, a record is made of an
untouched setting only, and it is dropped only when the setting is untouched
again.  `Baseline` says this for a set of keys with a `record` and a `live`
value each; that nothing is then tuned without a value to restore it to
(`TunedIsRecorded`) is proved in `BaselineProofs` from the contract alone.
`Lifecycle` implements it with the kernel's sysctls and `sysctl_backup`
and `WifiAirtime` with the airtime limits and `aql_saved_limits`.  In both the
property `BaselineContract` is `Baseline!Spec` under the substitution given in
the module, checked by a run and proved.

### Lifecycle

Every betterconn command in a terminal is a process that walks through the
steps of the source in their order; `pc[p]` names the next one.  A step is one
effect that outlives the process: one sysctl, one file, one `systemctl` call.

| in the model | in the code |
|---|---|
| `confirm` and `InvokeStart`, `InvokeStop`, `InvokeClean` | main's `is_active()` test and the prompt; `ConfirmStart` is the second test at the top of `apply()` |
| `unmark`, `ungroup`, `stop_service`, `disable`, `files`, `defaults`, `reload` | `PacketMarking::revert`, `revert_cgroup_hierarchy`, `remove_persistence`, `restore_kernel_sysctl_defaults`, `reload_configured_sysctls`, in whichever command calls them |
| `read`, `create`, `write`, `tune`, ..., `activate` | `Optimizer::apply` |
| `halt`, `load`, `restore`, ..., `drop` | `Optimizer::revert` |
| `enter`, `pkill`, ..., `purge` | `Cleaner::run`, which `stop` runs after the revert |
| `service` | systemd's view of the unit: the two halves of ExecStartPre, the exec of `betterconn daemon`, running, told to end |
| `kernel`, `backup` | per sysctl, where the value comes from: the machine (`stock`), an administrator (`custom`), the table of kernel defaults (`default`), betterconn (`tuned`) |

`Storage::save` is two steps, because it truncates before it writes.  `Kill`
ends a command anywhere; `Reboot` ends everything and lets the files under
`/etc` decide what is tuned and started.

### WifiAirtime, IrqAffinity and LinkTuning

Each is a save protocol around settings that live in the kernel; one process
at a time is in it (start ends in a reboot, stop waits for the service).  Each
step is one file or one write to debugfs, sysfs or `/proc/irq`.  `active`
stands for `sysctl_backup`: with it start is refused, without it stop is.

The modules differ in when the record is made: `WifiAirtime` saves first and
changes afterwards, `IrqAffinity` reads and changes one setting after the
other and saves at the end, `LinkTuning` does either, by setting.  `SaveCut`,
`ApplyCut` and `Cut` say whether a kill may hit the part where that matters.
With them FALSE (a window of a few milliseconds is not hit), everything is
given back after any other sequence of kills, reboots and repeated stops (of an
affinity, what the code has recorded of it); with them TRUE, TLC finds the
settings that are lost.

`find_interface_irqs()` takes every line of `/proc/interrupts` that contains
the interface's name, so `Start` takes any set of interrupts: eth1's may
include eth10's, and a boot may number them anew.  What was taken is given back
by its number, whoever it belongs to by then.  `AffinityRestored` says what
that is worth with the record the code keeps, the first CPU of a list: the
interrupt returns to CPUs that served it before start pinned it.  irqbalance
may move it until start has stopped the service, so `before` follows it until
then, and a CPU read too early would be found out (with the service stopped
after the first read, TLC finds it).  That the machine is exactly as before is
what the repository's README promises and `AffinityAsBefore` states; it fails.

`LinkTuning` walks through one list of files, `Order`, which `apply()` saves
and `revert()` removes in the same order; `AfterSave` and `AfterRemoval` say
where the code goes on after each.  `Accepts` is the driver behind `ethtool
-C`: it takes a request as a whole or not at all, which is why the code has a
second request wherever it makes one, except in the boot script.

### PriorityScheduler

One pass of `poll_loop` is one action, `Tick`: the thread shares no memory
with the others and everything it learns during a pass is a parameter of
`Step`.  The desktop names a live process or nobody; the sockets, the streams
and whether a full window of samples looks interactive are free choices at
every rescan.  Decay factors are hundredths, taken from a curve with one age
on each side of every threshold; `Elapse` says how many ages a tick may add (a
pass lasts half a second at least, and as long as the desktop's tools hang).
`cgroup` is the kernel's group of each process, `tier` what the scheduler
remembers.  `Restart` is the daemon dying: it forgets everything and the
groups stay.

`environs` is the set of sessions whose variables some process has in its
environment: a process may outlive its session (`Lingers`), and
`SessionEnvironment::detect()` then takes the first usable environment it
meets in `/proc`, unless one has the socket of a compositor (`Candidates`).
A compositor answers as long as it is up; an X11 session only while one of its
windows has the focus and a process number (`busy`, `Answers`): at the next
detection a quiet desktop is no backend.
`Mortal` are the processes that end and whose numbers are used again.

### Tuner, Daemon and BufferSizing

`Tuner` has one thread per `std::thread` that `Tuner::start()` and its members
make, in the order `stop()` joins them (`Order`), and the main thread of
`betterconn daemon`.  A step of a thread is one round of its loop, in two parts
where a round writes to the kernel at length (`BufferWrites`, `QdiscChanges`);
the test of the running flag is the end of the round.

| in the model | in the code |
|---|---|
| `stores`, `BecomesVisible`, `Seen` | the relaxed stores of `sampler_loop()` and the release of `seq`: a store may be seen at any later moment, that of `seq` after those before it |
| `fresh` | the readers whose `last_seq` differs from `seq` |
| `missing` | stores of a sample whose `seq` is visible already: history, empty if the order is kept |
| `running`, `Lowered` | the `running_` flags of Tuner, SurveyMonitor and PriorityScheduler, and when `stop()` lowers each |
| `applied`, `cake` | `applied_rtt_ms`, and what `tc` was told last, which outlives the daemon |
| `Surveyed`, `Ratio` | the growth of the three counters of a survey, and what is made of it |
| `Killed`, `Start` | the process dies with its threads, systemd starts another |

Rates, signal strength and the choice between constants for a sysctl are left
out; the buffer loop only tells a size that is written from one that is not.
The size itself is in `BufferSizing`, pure arithmetic on integers: a rate and
a round trip in units as fine as one likes, and `Unit` of their products is a
byte.  A product that does not fit a `uint64_t` is any number, as the
conversion is undefined.

`Lifecycle` knows of the daemon only that it writes while it is up, that it
ends when it was told to, and that it may die.  `Daemon` is this contract on
its own, and `DaemonContract` says that `Tuner` implements it: it ends of its
own accord only after SIGTERM and with no thread in the middle of its writes.
That is what `systemctl stop` relies on in `stop`: once it returns, nobody
rewrites what is then restored.

## What is checked

| run | bounds | what it shows |
|---|---|---|
| `Lifecycle` | 1 terminal, 2 sysctls, all links | commands one at a time, killed and rebooted anywhere: seven safety properties, the inductive invariant, the contract |
| `LifecycleLeftovers` | 1 terminal, 2 sysctls, leftovers | killed at any step but those that put the defaults back, and across reboots, start takes a pristine baseline even on leftovers, and stop restores; a clean gives the machine back without a backup |
| `Recovery` | 1 terminal, 1 sysctl | once interruptions cease, stop gets the machine back |
| `WifiAirtime` | 3 categories and the threshold | limits are given back; daemon, kills and reboots keep the contract |
| `IrqAffinity` | 2 queues, 2 interrupts, 2 CPUs, every affinity | masks and irqbalance are given back; interrupts return to CPUs that served them before |
| `LinkTuning` | 1 interface, every kind of hardware and driver | qdisc, power saving and coalescing are given back whenever betterconn is not active |
| `SchedulerTiers` | 2 processes, history of 4, audio, crashes | tiers and groups agree, dwell times are kept, forgetting is complete; Hot is reached by focus only, and the focus keeps its tier while companions are refreshed |
| `SchedulerLiveness` | 2 processes, one of them mortal; a session with a compositor and one without | a session that stays and answers is picked up; a neglected process goes Cold and stays there |
| `Tuner` | 7 threads, 2 buckets, counters that grow by 0 to 2 | no reader acts on half a sample, stop returns, cake follows the round trip, the share is a proportion, the contract of `Daemon`; the buffer sizes, as assumptions TLC evaluates, against a reference definition |

Two sysctls suffice for `Lifecycle` because keys are treated alike and no step
looks at two of them: one is set by the distribution's own files and rewritten
by the daemon, the other neither.  Two interrupts tell one that start
takes from one it does not, two queues a loop's first round from its last.  Two
processes are enough for one to take the focus from the other, and a history
of four is the shortest in which a companion can be found.  In the scheduler
runs the periods are 2 instead of 6, 20 and 40 ticks and the dwell time 2
instead of 3: the properties do not mention them, and what matters is that a
rescan, a prune and a retry can each fall before, on and after a change of
tier.  `SchedulerLiveness` has the shortest curve that
goes from just focused to stale (with every period 1: which tick a rescan
falls on is what `SchedulerTiers` varies), and two sessions, because it takes
one to be in use and one to linger.  Two buckets tell a change of the round
trip from none, and counters that grow by up to 2 let each of the three differ
from the other two.  In `SchedulerTiers` a tick adds four of the curve's ages,
so that factors of 0.90, 0.32 (within the margin of a threshold) and 0 occur
and an entry is stale after two passes; smaller steps are left to the theorems,
which hold for every curve, and to `SchedulerJump`, which has all of the curve.

Runs that end in a counterexample state what a comment of the code or the
repository's README says, where the code does something else:

| run | what happens |
|---|---|
| `LifecycleStartStop` | stop during start removes the backup; start then declares the machine active, and neither stop nor clean runs any more |
| `IrqAffinityExact` | an interrupt that several CPUs served, as the kernel has it by default, is served by the first of them after stop (`irq_affinity.cpp:98`), where `README.md:147` of the repository says that the machine behaves exactly as before |
| `SchedulerJump` | a process leaves Hot for Cold at once |

The constants that switch an assumption off show what it hides.  Each of the
following is a run of its own away (the constants of the run named, with the
change given) and ends in a counterexample within a minute:

| change | property that fails | what happens |
|---|---|---|
| `Lifecycle`, two terminals, `Serialized = FALSE` | `BaselinePristine` | two starts pass `is_active()`; the second one's baseline is the first one's tuning |
| `Lifecycle`, `DiskFull = TRUE` | `RevertRestores` | the backup's content never reaches the disk (`storage.cpp:32` does not look), and start goes on; `IInv` and the properties that are not about values hold |
| `Lifecycle`, `LeftoverSpec` | `BaselinePristine` | a start on leftovers is killed after the files are gone and before the defaults are back (`optimizer.cpp:507`); the next start takes the tuned kernel for the baseline, against the comment at `optimizer.cpp:502` |
| `LifecycleLeftovers`, `LeftoverSpec` | `CleanGivesBack` | a start or a clean is killed once the files are gone; the next clean finds no residue (`cleaner.cpp:20`) and says it is done on a machine that is still tuned |
| `LifecycleLeftovers` | `CleanLeavesNothing` | the service's restart loop adds the rules again after clean has deleted them |
| `WifiAirtime`, `SaveCut = TRUE` | `LimitsRestored` | a daemon killed between `wifi_airtime.cpp:161` and 162; the next one tightens limits that stop does not find |
| `IrqAffinity`, `ApplyCut = TRUE` | `MasksRestored` | start killed while it spreads the queues, before `irq_affinity.cpp:184` saves them |
| `LinkTuning`, `Cut = TRUE` | `CoalescingRestored`, `QdiscRestored`, `PowerSaveRestored` | the gaps named in the module: start killed before `tc_iface` or all of `nic_*` is saved, stop killed between the two `wifi_pm_*` files or before NetworkManager is told |
| `LinkTuning` | `QdiscAsBefore` | a root qdisc of the administrator's own is not saved and comes back as the kernel's default |
| `SchedulerTiers`, `Dwell = 3`, `PruneEvery`, `RetryEvery` and `Cycle = 4`, `MissingFocus = 2`, `Elapse = {0, 1}`, `HistorySize = 0`, no audio, no crashes | `UntieredIsNotHot` | a process without sockets is skipped, then forgotten, and stays in the Hot group |
| `SchedulerTiers`, `Mortal = {p1}`, no symmetry | `GroupMatchesTier`, `DwellsInGroup` | a process with a remembered number is not moved, or keeps the dwell time of the one before |
| `SchedulerLiveness`, without the premise `Alone` of `SessionPickedUp` | `SessionPickedUp` | the environment of a process that outlived its session comes first in `/proc` for ever (`session_environment.cpp:146`) |
| `SchedulerLiveness`, `desktop = s` for `Answers(s)` in `SessionPickedUp` | `SessionPickedUp` | an X11 session in which no window has the focus is not found, or dropped again (`window_focus_backend.cpp:52`) |
| `Tuner`, `Roams = TRUE` | `RatioIsProportion` | surveys of two channels are compared (`survey_monitor.cpp:94` only asks whether the active time has grown), and others are busy more than all of the time |

### Fairness

`Recovery`: a command that runs takes its next step and a prompt is answered
(weak fairness of `ProgramStep(p) \/ Answer(p)`: nothing in the code waits for
another process, except `systemctl stop`, and a daemon that was told to end
does so: `WF(DaemonExit)`); a user who can type stop again and again does so
and says yes in the end (strong fairness of `InvokeStop` and `ConfirmStop`);
kills and reboots cease at some point nobody knows.  The daemon's own steps
other than its exit have no fairness.

`SchedulerLiveness`: weak fairness of `Tick` alone, because
`poll_loop` runs until the daemon ends.  Desktops, processes and restarts
have none; that a desktop stays up, or a process neglected, is the premise of
the property.

`Tuner`: weak fairness of each thread and of the main thread, which the kernel
schedules (a loop sleeps for a bounded time, and the commands it runs, `ss`,
`ping -W 1`, `tc`, `iw`, return; a desktop tool that hangs would hold up
`stop` until systemd kills the daemon), and of `BecomesVisible`, because a
store to an atomic becomes visible in finite time.  SIGTERM, death and the
next start have none.  The fairness of a thread is that of its rounds that
leave the round trip and the ratio as they are: TLA+'s weak fairness asks for a
step that changes something, and a measurement need not.  For the same reason
`Cycle` is 2 in `SchedulerLiveness`, so that every tick changes the count.

## What is proved

Each module of theorems starts with the inductive invariant of its component,
says next to each part what it is for, and has one step of proof per action.
Those named `IInv`, and `Leftovers \/ Settled`, were checked by TLC over the
reachable states of the component's run before they were proved.  Where a
theorem assumes that a flag is off or on, the table above shows what goes wrong
without it.

### The life cycle

`TypeCorrect` and `LeftoverTypeCorrect` prove `TypeOK` for every number of
terminals and sysctls, with concurrent commands and a disk that loses writes,
from both initial states.  `TypeOK` alone is not inductive: a loop index has to
be known to be 1 outside of loops and inside `WriteOrder` at `persist`, and an
idle process to run no command.  `ControlOK` says so.

From an untouched machine (`Spec`) and for every number of keys,
`LifecycleProofs` proves the seven safety properties and the refinement of
`Baseline`.  All of it assumes `Serialized`, commands typed one at a time, and
`LifecycleStartStop` is the counterexample without.  What the disk has to do
with it was found by separating the two: that stop is never refused
(`StopIsNeverRefused`), that nothing tunes the machine after a revert
(`RevertIsFinal`) and that rules have their groups (`TierRulesFollowGroups`)
need nothing of it; what is said of values does (`~DiskFull`):
`BaselineStaysPristine`, `TuningStaysRecoverable`, `StopRestoresMachine`,
`CleanRemovesEverything` and `ImplementsBaseline`.

None of the safety properties is inductive: that stop leaves nothing tuned
when it drops the backup depends on what each earlier step has established.
`Settled` therefore has, beside the machine's part
(`MachineInv`: the backup is whole or absent, whatever tunes has a record), a
part per process that says what is already true at each step: nothing is tuned
before the backup is complete (`StartBegins`), the files before `idx` are gone
(`StopWithdraws`), the keys before `idx` are restored, then the rules are gone,
then the state (`StopRestores`), and the cleaner meets a machine on which
nothing is left (`CleanerMeetsNothing`).  On a disk that loses writes the
parts that compare values say nothing (`Untuned`), the others stay as they
are.  `IInv` adds that rules have their groups, which leftovers break.  The
proof has one step per action.

From a machine with leftovers of an earlier betterconn and no backup, the
invariant is `Leftovers \/ Settled` (`LeftoverInvariant`): until a start or a
clean is through with the leftovers nothing is on record, stop can do nothing,
and `RemovalInv` says what the removal has done at each step, above all that
whoever looks still finds the directory of the files (`cleaner.cpp:20`,
`optimizer.cpp:503`) unless the defaults are being put back at that moment;
from then on the machine is settled and the rest is the proof above.  TLC checked the
disjunction over the reachable states of `LifecycleLeftovers` before it was
proved.  From it follow `LeftoverBaselinePristine`, `LeftoverRevertRestores`
and `LeftoverCleanGivesBack`, the three properties of the run.  `UncutSpec`
leaves out one step, a kill while the defaults are put back: the files are
gone by then and the kernel is still tuned, and the table above has the
counterexamples.  `LeftoversKeepOrder` allows that kill too, and says what
survives it: stop is never refused, and nothing returns after a revert.  (It
assumes `DiskFull`, under which nothing is claimed of values; a disk that may
lose a write may also take every one.)

`RevertRestores` compares a sysctl with its record.  `StopReturnsOwnValues`
compares it with the machine before the first start: after any number of
starts, stops, kills and reboots the sysctls that stop leaves have the value
they had then, or a boot's.  It follows from the refinement, because whoever
keeps the contract of `Baseline` invents no value (`ContractInventsNothing`,
proved in `BaselineProofs` for any set of settings).

### Airtime, interrupts and the link

Of these three modules the theorems say, for every number of categories,
queues, interrupts and CPUs and for every card and driver, that `TypeOK` holds
whatever is killed, and that the settings come back as long as the narrow gap
of the code that the constant names (`SaveCut`, `ApplyCut`, `Cut`) is not hit.

`WifiAirtimeProofs`: `RevertRestoresLimits`, and `LimitsKeepContract`, the
refinement of `Baseline`.  That a saved limit is never a tightened one
(`RecordInv`) depends on what `apply()` meets: either no file of its own and
nothing tuned, or everything on record (`SavingInv`, `TighteningInv`).  The
daemon is restarted at any time, so this must hold at every step at which it
may die, and an interrupted stop must leave no state from which a daemon
starts (`LifecycleInv`).  Through the contract, `RevertReturnsOwnLimits` says
of the limits what `StopReturnsOwnValues` says of the sysctls: after stop one
is as before the first daemon, or the driver's at a boot.

`IrqAffinityProofs`: the masks (`MasksComeBack`, and that each queue's is its
own again, `MasksAreTheirOwnAgain`), irqbalance
(`BalancerComesBack`) and the affinities (`AffinitiesComeBack`).  `MasksInv`
says which queues the loop at `pc` has done; `BalancerInv` that an irqbalance
that is not running is on record; `ListInv` that the list, without which
revert skips the interrupts, outlives the flag and every `irq_prev_<n>`;
`RecordInv` which interrupts have such a file.  The affinities need one part
more, `AffinityInv`: an interrupt without a record is as start has found it
until it is pinned, what is on record is a CPU start has found it on, and
whatever is served otherwise has a record.  Nothing is assumed of the
affinities, of irqbalance or of the set of interrupts that start has taken.
That a loop always has a least number to visit is proved from the
well-foundedness of the naturals (`LeastElement`).

`LinkTuningProofs`: `QdiscComesBack`, `PowerSaveComesBack` and
`CoalescingComesBack`.  The note that there is something to restore
(`tc_iface`, `wifi_pm_iface`, `nic_iface`) is written before or after the
rest of a record, depending on the setting: `PowerNoteInv` and
`CoalescingNoteInv` say when each is there, `PowerInv` and `CoalescingInv`
what may then be relied on.  The coalescing flag and its counters come back
with drivers that refuse one or the other, because an incomplete record is one
whose missing part was never changed (`Complete`, `Restorable`).

### The scheduler

`SchedulerTypeCorrect` and `ForgottenIsForgotten` hold for every number of
processes, every curve and every period, with processes that end and numbers
that are used again; the second one for a flow window of at least one sample.
`Hysteresis` is about the margin alone: the two scores that move a process to
a tier and back differ by ten hundredths at least.

The rest assumes that process numbers are not used again (`Mortal = {}`;
otherwise there is a counterexample): the kernel's group of every remembered
process is its tier (`GroupsMatch`), only the desktop lifts a process into the
highest one (`OnlyFocusMakesHot`), where it stays while the user does
(`UserStaysHot`, which needs that the process in the tracker's focus slot is
remembered, and as hot).  The dwell time rests on
`DwellIsReal`: the ticks the thread counts are no more than those the process
has spent in its group.  `RememberedStayPut` proves the property of the run,
`DwellsInGroup`, for a history of any size, companions included.  It speaks of
every process the thread remembers before the tick; one that was forgotten
keeps its group and is moved at once when a companion brings it back.  That
exception is real, though it takes three processes and a history of six: the
focus alternates between p1 and p2, then goes to p3 in a pass that hangs until
p2 is stale and pruned, then to p1, whose companion p2 is moved again after
three ticks, whatever the dwell time.

### The daemon and the buffers

`TunerProofs` proves, for every set of buckets and every growth of the
counters, that `Tuner` keeps its types and implements `Daemon`, that readers
find whole samples (`SamplesAreFresh`) and, for a station that stays on its
channel, that the share others have is a proportion (`RatiosAreProportions`;
with `Roams` there is a counterexample).  The refinement rests on `Orderly`:
the threads `stop()` has counted have ended, only two threads are ever in the
middle of writes, and a process on its way out was asked to.  Without the first
part `Exit` would not be known to find every thread ended; that all seven are
joined is what `Order` being all threads gives.  The sample rests on
`Complete`: no store of a visible sample is outstanding.

`BufferSizingProofs` proves for every rate, round trip and limits that satisfy
`SizingAssumption` (the code's do: whole pages, a minimum of at least four)
that a size is between `kBufMin` and `kBufMax` and a multiple of the page
although it is rounded up after it is clamped (`SizesInBounds`), also when the
conversion is undefined.  Where it is defined, a size never falls below a
quarter of the one before (`BuffersFallGently`: the peak loses a thousandth a
round, the smoothed round trip three tenths), and hence, although the six
sysctls of a round are written one after the other, no default ever exceeds a
maximum (`RestWithinMax`).  A counter that wraps, and a daemon killed between
two of the writes, are outside of that: the next round sets them right.

### What stays with TLC

Liveness (`EventuallyGivenBack`, `SessionPickedUp`, `NeglectedGoesCold`,
`StopReturns`, `CakeFollowsRtt`): fairness is out of the prover's reach.
Every other property of a passing run is stated by a theorem.  The curve of
the scheduler, the sizes of the buffers and the ratio of a survey are computed
in integers; what the code's floating point rounds is not part of any theorem.

## What the models assume, and what they leave out

- Removing a file under `/etc`, running `systemctl` and writing a sysctl's old
  value back succeed.  Writes that the code itself calls non-critical (a rule,
  a limit, a mask) may fail.
- The sysctls modelled are those the kernel has; reading them all is one step.
- What was written before a reboot is on the disk afterwards: start calls
  `sync()` before it reboots (`main.cpp:47`) and stop after it has reverted
  (`main.cpp:298`).  A power loss before that, or one that takes what the
  daemon has saved since, is not modelled.
- Rules are two families, not a multiset: a rule added twice and deleted once
  is not modelled.  The cgroups of `Lifecycle` have no members.
- `betterconn daemon` typed by hand (it is not documented) is not modelled.
- In `IrqAffinity` a save is one step.  The files of `/proc/irq` that cannot
  be read cannot be written either (`SkipIrq`), and interrupts are known by
  their numbers: that a number is another device's after a boot, whose
  interrupt stop then pins, is not visible in the model.
- In `PriorityScheduler` moving a live process to a group succeeds, and a
  session that has a window with the focus has a tool that can tell.  Which
  environment is first in `/proc` is chance at every look, where in the code
  it is the lowest process number.
- In `Tuner` the stores of one sample are visible before the next is taken, a
  sampling interval later.  Writing a sysctl and `tc qdisc change` succeed;
  the code looks at neither, and remembers a value it failed to write as written until the next
  one.  The last survey stays in force when the surveys stop (`has_data_` is
  never reset), and the first difference of retries is the whole counter:
  both are modelled or abstracted as they are, and no property speaks of them.
- In `LinkTuning` one adaptive flag stands for rx and tx and one counter for
  the four, which the code saves and restores alike; whether `tc` can replace
  the qdisc does not change with a boot; NetworkManager reconnects only while
  no command runs, and leaves power saving alone where its files say nothing.
- Not modelled: the network toggle (`network --interface on` and `off` take a
  link down and up by the name in one file of the store, which no other
  command reads), the parsing of other programs' output, `status`, `list` and
  `help`, which print, and packaging.

## The plan

Done: the life cycle with its contract, on a clean machine and on one with
leftovers, and its proofs; the three save protocols with theirs, the scheduler
with sessions that linger, the daemon's threads with their contract and the
arithmetic of the buffers.

Left: members of the cgroups in `Lifecycle` (drain against fork), rules as a
multiset, the network toggle's file.
