------------------------------ MODULE Lifecycle ------------------------------
(***************************************************************************)
(* The start / stop / clean life cycle of betterconn: the command line     *)
(* (cli/src/main.cpp), the optimizer's apply and revert, the cleaner, the  *)
(* files under /var/lib/.betterconn and under /etc, and the systemd        *)
(* service that those files bring back at boot.                            *)
(*                                                                         *)
(* A command is a process that walks through the steps of the source in    *)
(* their order; `pc' names the step it is about to take.  It may be killed *)
(* between any two steps (Ctrl-C, SIGKILL, an exception), and the machine  *)
(* may go down under it.  What a single sysctl, iptables rule or file      *)
(* holds is abstracted to where the value came from.                       *)
(***************************************************************************)
EXTENDS Naturals, Sequences

CONSTANTS
    Procs,       \* the terminals betterconn commands are typed in
    NumKeys,     \* how many sysctls base_params() lists
    Configured,  \* the keys the distribution's own sysctl files set
    DaemonKeys,  \* the keys the tuner threads of the daemon rewrite
    Links,       \* the interfaces the default route may be on
    Serialized,  \* TRUE: a command is typed only when no other is running
    DiskFull     \* TRUE: the content of a storage file may fail to be written

Keys == 1..NumKeys

ASSUME NumKeysAssumption == NumKeys \in Nat
ASSUME KeysAssumption == Configured \subseteq Keys /\ DaemonKeys \subseteq Keys
ASSUME LinksAssumption == Links \subseteq {"none", "wired", "wifi"}
ASSUME FlagsAssumption == Serialized \in BOOLEAN /\ DiskFull \in BOOLEAN

(* Where the value of a sysctl comes from: "stock" is what this machine    *)
(* boots with, "custom" an administrator's own setting, "default" the      *)
(* table of SystemDefaults::kernel_defaults(), "tuned" betterconn.         *)
Pristine == {"stock", "custom", "default"}
Values == Pristine \cup {"tuned"}

(* An empty line of the backup: the file was created but not written.      *)
Unsaved == [k \in Keys |-> ""]

(* The files betterconn owns under /etc, in the order remove_persistence() *)
(* takes them away; the last two are /etc/betterconn and its script.       *)
RemovalOrder ==
    <<"unit", "sysctl", "modules", "nm", "resolved", "script", "etcdir">>

(* The order in which write_persistence() creates its files.               *)
WriteOrder == <<"etcdir", "modules", "sysctl", "script", "unit">>

EtcFiles == {"unit", "sysctl", "modules", "nm", "resolved", "script", "etcdir"}

StoreFiles == {"sysctl_backup", "focus_priority_iface", "wifi_pm_iface"}

Commands == {"none", "start", "stop", "clean"}

VARIABLES
    pc,        \* pc[p]: the step process p takes next
    cmd,       \* cmd[p]: the command it executes
    idx,       \* idx[p]: its position in the loop it is in
    snap,      \* snap[p]: the sysctl values it read or loaded
    link,      \* link[p]: the interface detect_interface() gave it
    orphan,    \* orphan[p]: Cleaner::run's orphaned_tuning
    store,     \* the files of /var/lib/.betterconn that exist
    state,     \* the content of the file "state"
    backup,    \* the content of the file "sysctl_backup"
    etc,       \* betterconn's files under /etc
    enabled,   \* the unit is enabled: systemd starts it at boot
    kernel,    \* kernel[k]: origin of the live value of sysctl k
    rules,     \* the iptables mangle rules, the cgroup ones ("tier") and the rest
    groups,    \* the priority cgroups exist
    service,   \* what systemd is doing with betterconn.service
    reverting  \* history: a revert has read this backup

locals == <<cmd, idx, snap, link, orphan>>
disk == <<store, state, backup>>
boot == <<etc, enabled>>
live == <<kernel, rules, groups, service>>
vars == <<pc, locals, disk, boot, live, reverting>>

Steps == {
    "idle", "confirm",
    "unmark", "ungroup", "stop_service", "disable", "files", "defaults", "reload",
    "read", "create", "write", "tune", "focus", "wifi", "persist", "enable",
    "mark", "dns", "truncate", "activate",
    "halt", "load", "restore", "unconfigure", "retruncate", "inactive", "drop",
    "enter", "pkill", "purge" }

TypeOK ==
    /\ pc \in [Procs -> Steps]
    /\ cmd \in [Procs -> Commands]
    /\ idx \in [Procs -> Nat \ {0}]
    /\ snap \in [Procs -> [Keys -> Values \cup {""}]]
    /\ link \in [Procs -> {"none"} \cup Links]
    /\ orphan \in [Procs -> BOOLEAN]
    /\ store \subseteq StoreFiles
    /\ state \in {"absent", "", "inactive", "active"}
    /\ backup \in [Keys -> Values \cup {""}]
    /\ etc \subseteq EtcFiles
    /\ enabled \in BOOLEAN
    /\ kernel \in [Keys -> Values]
    /\ rules \subseteq {"tier", "service"}
    /\ groups \in BOOLEAN
    /\ service \in {"off", "groups", "rules", "exec", "running", "stopping"}
    /\ reverting \in BOOLEAN

-----------------------------------------------------------------------------
(* What the program asks of the disk.                                      *)

(* Mutant: only the state file is asked. *)
IsActive_Mutant == state = "active"

IsActive == "sysctl_backup" \in store \/ state = "active"

PersistencePresent == etc # {}

(* Process p goes on with step s. *)
Goto(p, s) == pc' = [pc EXCEPT ![p] = s]

(* Process p is about to take step s. *)
At(p, s) == pc[p] = s

(* The process ends: its memory is gone, the machine is as it left it.     *)
Exit(p) ==
    /\ Goto(p, "idle")
    /\ cmd' = [cmd EXCEPT ![p] = "none"]
    /\ idx' = [idx EXCEPT ![p] = 1]
    /\ snap' = [snap EXCEPT ![p] = Unsaved]
    /\ link' = [link EXCEPT ![p] = "none"]
    /\ orphan' = [orphan EXCEPT ![p] = FALSE]

(* One round of a loop over 1..n; after the last one the process goes to s. *)
Loop(p, n, s) ==
    /\ idx' = [idx EXCEPT ![p] = IF @ < n THEN @ + 1 ELSE 1]
    /\ Goto(p, IF idx[p] < n THEN pc[p] ELSE s)

SameRun == UNCHANGED <<cmd, snap, link, orphan>>

-----------------------------------------------------------------------------
(* Typing a command.  main() checks is_active() and asks for a yes.        *)

Quiet(p) == Serialized => \A q \in Procs \ {p} : At(q, "idle")

Invoke(p, c, s) ==
    /\ At(p, "idle")
    /\ Quiet(p)
    /\ Goto(p, s)
    /\ cmd' = [cmd EXCEPT ![p] = c]
    /\ UNCHANGED <<idx, snap, link, orphan, disk, boot, live, reverting>>

InvokeStart(p) == ~IsActive /\ Invoke(p, "start", "confirm")
InvokeStop(p) == IsActive /\ Invoke(p, "stop", "confirm")
InvokeClean(p) == ~IsActive /\ Invoke(p, "clean", "enter")

(* The user answers no, or apply() / revert() throws: both look at the     *)
(* disk again, and revert() also insists on the backup.                    *)
Abort(p) ==
    /\ At(p, "confirm")
    /\ Exit(p)
    /\ UNCHANGED <<disk, boot, live, reverting>>

(* apply() up to restore_pristine_baseline()'s first test. *)
ConfirmStart(p) ==
    /\ At(p, "confirm") /\ cmd[p] = "start"
    /\ ~IsActive
    /\ Goto(p, IF PersistencePresent THEN "unmark" ELSE "read")
    /\ UNCHANGED <<locals, disk, boot, live, reverting>>

ConfirmStop(p) ==
    /\ At(p, "confirm") /\ cmd[p] = "stop"
    /\ IsActive
    /\ "sysctl_backup" \in store
    /\ Goto(p, "halt")
    /\ UNCHANGED <<locals, disk, boot, live, reverting>>

-----------------------------------------------------------------------------
(* Steps that apply(), revert() and Cleaner::run() share.                  *)

(* Where a shared step leads depends on the command that takes it.         *)
AfterUngroup ==
    [start |-> "stop_service", stop |-> "unconfigure", clean |-> "stop_service"]
AfterReload == [start |-> "read", stop |-> "retruncate", clean |-> "purge"]

(* Mutant: apply() does not reset leftover tuning. *)
AfterFiles_Mutant(p) ==
    CASE cmd[p] = "start" -> "reload"
      [] cmd[p] = "stop" -> "load"
      [] OTHER -> IF orphan[p] THEN "defaults" ELSE "reload"

AfterFiles(p) ==
    CASE cmd[p] = "start" -> "defaults"
      [] cmd[p] = "stop" -> "load"
      [] OTHER -> IF orphan[p] THEN "defaults" ELSE "reload"

(* Mutant: the rules of the tiers stay. *)
Unmark_Mutant(p) ==
    /\ At(p, "unmark")
    /\ rules' = rules \ {"service"}
    /\ Goto(p, "ungroup")
    /\ UNCHANGED <<locals, disk, boot, kernel, groups, service, reverting>>

(* PacketMarking::revert: the tier rules go first, then the service rules. *)
Unmark(p) ==
    /\ At(p, "unmark")
    /\ rules' = IF "tier" \in rules THEN rules \ {"tier"} ELSE {}
    /\ Goto(p, IF "tier" \in rules THEN "unmark" ELSE "ungroup")
    /\ UNCHANGED <<locals, disk, boot, kernel, groups, service, reverting>>

(* PriorityScheduler::revert_cgroup_hierarchy: a group some process still   *)
(* sits in (it forked during the drain) refuses to go.  revert() calls it   *)
(* only when apply() stored an interface for it.                            *)
Ungroup(p) ==
    /\ At(p, "ungroup")
    /\ IF cmd[p] # "stop" \/ "focus_priority_iface" \in store
       THEN groups' \in {groups, FALSE}
       ELSE UNCHANGED groups
    /\ store' = IF cmd[p] = "stop" THEN store \ {"focus_priority_iface"} ELSE store
    /\ Goto(p, AfterUngroup[cmd[p]])
    /\ UNCHANGED <<locals, state, backup, boot, kernel, rules, service, reverting>>

(* Mutant: the daemon is told to end and not waited for. *)
StopService_Mutant(p) ==
    /\ pc[p] \in {"halt", "stop_service"}
    /\ service' = IF service = "running" THEN "stopping"
                  ELSE IF service = "stopping" THEN service ELSE "off"
    /\ Goto(p, IF At(p, "halt") THEN "stop_service" ELSE "disable")
    /\ UNCHANGED <<locals, disk, boot, kernel, rules, groups, reverting>>

(* `systemctl stop' sends a running daemon SIGTERM, waits until it is gone  *)
(* and cancels a restart.                                                   *)
StopService(p) ==
    /\ pc[p] \in {"halt", "stop_service"}
    /\ \/ /\ service = "running"
          /\ service' = "stopping"
          /\ UNCHANGED pc
       \/ /\ service \notin {"running", "stopping"}
          /\ service' = "off"
          /\ Goto(p, IF At(p, "halt") THEN "stop_service" ELSE "disable")
    /\ UNCHANGED <<locals, disk, boot, kernel, rules, groups, reverting>>

(* Mutant: the unit stays enabled. *)
Disable_Mutant(p) ==
    /\ At(p, "disable")
    /\ Goto(p, "files")
    /\ UNCHANGED <<locals, disk, boot, live, reverting>>

Disable(p) ==
    /\ At(p, "disable")
    /\ enabled' = FALSE
    /\ Goto(p, "files")
    /\ UNCHANGED <<locals, disk, etc, live, reverting>>

(* Mutant: the last file is forgotten. *)
RemoveFile_Mutant(p) ==
    /\ At(p, "files")
    /\ etc' = etc \ {RemovalOrder[idx[p]]}
    /\ Loop(p, Len(RemovalOrder) - 1, AfterFiles(p))
    /\ SameRun
    /\ UNCHANGED <<disk, enabled, live, reverting>>

RemoveFile(p) ==
    /\ At(p, "files")
    /\ etc' = etc \ {RemovalOrder[idx[p]]}
    /\ Loop(p, Len(RemovalOrder), AfterFiles(p))
    /\ SameRun
    /\ UNCHANGED <<disk, enabled, live, reverting>>

(* restore_kernel_sysctl_defaults: one key of the table at a time. *)
RestoreDefault(p) ==
    /\ At(p, "defaults")
    /\ kernel' = [k \in Keys |-> IF k = idx[p] THEN "default" ELSE kernel[k]]
    /\ Loop(p, NumKeys, "reload")
    /\ SameRun
    /\ UNCHANGED <<disk, boot, rules, groups, service, reverting>>

(* What systemd-sysctl makes of the live values: the files of the           *)
(* distribution, then betterconn's own drop-in, which names every key.      *)
SysctlFilesApplied ==
    [k \in Keys |-> IF "sysctl" \in etc THEN "tuned"
                    ELSE IF k \in Configured THEN "stock" ELSE kernel[k]]

(* reload_configured_sysctls: neither of its two ways has to work. *)
Reload(p) ==
    /\ At(p, "reload")
    /\ kernel' \in {kernel, SysctlFilesApplied}
    /\ Goto(p, AfterReload[cmd[p]])
    /\ UNCHANGED <<locals, disk, boot, rules, groups, service, reverting>>

-----------------------------------------------------------------------------
(* Optimizer::apply                                                        *)

(* One pass over base_params() reads every key, on whatever link is up. *)
ReadSysctls(p) ==
    /\ At(p, "read")
    /\ snap' = [snap EXCEPT ![p] = kernel]
    /\ \E l \in Links : link' = [link EXCEPT ![p] = l]
    /\ Goto(p, "create")
    /\ UNCHANGED <<cmd, idx, orphan, disk, boot, live, reverting>>

(* Mutant: tuning begins before the backup has its content. *)
CreateBackup_Mutant(p) ==
    /\ At(p, "create")
    /\ store' = store \cup {"sysctl_backup"}
    /\ backup' = Unsaved
    /\ reverting' = FALSE
    /\ Goto(p, "tune")
    /\ UNCHANGED <<locals, state, boot, live>>

(* Storage::save creates or truncates the file ... *)
CreateBackup(p) ==
    /\ At(p, "create")
    /\ store' = store \cup {"sysctl_backup"}
    /\ backup' = Unsaved
    /\ reverting' = FALSE
    /\ Goto(p, "write")
    /\ UNCHANGED <<locals, state, boot, live>>

(* ... and writes it, without asking whether the content got through. *)
WriteBackup(p) ==
    /\ At(p, "write")
    /\ \/ backup' = snap[p]
       \/ DiskFull /\ UNCHANGED backup
    /\ Goto(p, "tune")
    /\ UNCHANGED <<locals, store, state, boot, live, reverting>>

(* A value this kernel does not take is skipped. *)
TuneKey(p) ==
    /\ At(p, "tune")
    /\ \/ kernel' = [k \in Keys |-> IF k = idx[p] THEN "tuned" ELSE kernel[k]]
       \/ UNCHANGED kernel
    /\ Loop(p, NumKeys, "focus")
    /\ SameRun
    /\ UNCHANGED <<disk, boot, rules, groups, service, reverting>>

(* apply_focus_priority: without cgroup v2 only the storage file is left. *)
ApplyFocusPriority(p) ==
    /\ At(p, "focus")
    /\ IF link[p] = "none"
       THEN UNCHANGED <<store, groups>>
       ELSE /\ groups' \in {groups, TRUE}
            /\ store' = store \cup {"focus_priority_iface"}
    /\ Goto(p, "wifi")
    /\ UNCHANGED <<locals, state, backup, boot, kernel, rules, service, reverting>>

(* apply_wifi_latency *)
ApplyWifiLatency(p) ==
    /\ At(p, "wifi")
    /\ IF link[p] = "wifi"
       THEN /\ store' = store \cup {"wifi_pm_iface"}
            /\ etc' \in {etc, etc \cup {"nm"}}
       ELSE UNCHANGED <<store, etc>>
    /\ Goto(p, "persist")
    /\ UNCHANGED <<locals, state, backup, enabled, live, reverting>>

(* write_persistence: each file that cannot be written is skipped. *)
WriteFile(p) ==
    /\ At(p, "persist")
    /\ etc' \in {etc, etc \cup {WriteOrder[idx[p]]}}
    /\ Loop(p, Len(WriteOrder), "enable")
    /\ SameRun
    /\ UNCHANGED <<disk, enabled, live, reverting>>

(* `systemctl enable' fails when there is no unit to enable. *)
Enable(p) ==
    /\ At(p, "enable")
    /\ enabled' \in {enabled, enabled \/ "unit" \in etc}
    /\ Goto(p, "mark")
    /\ UNCHANGED <<locals, disk, etc, live, reverting>>

(* The rules iptables can add now: a tier rule needs its group to exist.   *)
Markable == IF groups THEN {"tier", "service"} ELSE {"service"}

(* PacketMarking::apply counts the rules that fail and goes on. *)
Mark(p) ==
    /\ At(p, "mark")
    /\ \E added \in SUBSET Markable : rules' = rules \cup added
    /\ Goto(p, "dns")
    /\ UNCHANGED <<locals, disk, boot, kernel, groups, service, reverting>>

ApplyDns(p) ==
    /\ At(p, "dns")
    /\ etc' \in {etc, etc \cup {"resolved"}}
    /\ Goto(p, "truncate")
    /\ UNCHANGED <<locals, disk, enabled, live, reverting>>

(* Mutant: revert() does not rewrite the state. *)
TruncateState_Mutant(p) ==
    /\ pc[p] \in {"truncate", "retruncate"}
    /\ state' = IF At(p, "truncate") THEN "" ELSE state
    /\ Goto(p, IF At(p, "truncate") THEN "activate" ELSE "drop")
    /\ UNCHANGED <<locals, store, backup, boot, live, reverting>>

(* Storage::save("state", ...) in apply() and in revert(): the file is      *)
(* empty until its content is written, if it is.                            *)
TruncateState(p) ==
    /\ pc[p] \in {"truncate", "retruncate"}
    /\ state' = ""
    /\ Goto(p, IF At(p, "truncate") THEN "activate" ELSE "inactive")
    /\ UNCHANGED <<locals, store, backup, boot, live, reverting>>

(* The last write of apply(); the command then reboots the machine. *)
Activate(p) ==
    /\ At(p, "activate")
    /\ state' \in IF DiskFull THEN {"", "active"} ELSE {"active"}
    /\ Exit(p)
    /\ UNCHANGED <<store, backup, boot, live, reverting>>

-----------------------------------------------------------------------------
(* Optimizer::revert                                                       *)

LoadBackup(p) ==
    /\ At(p, "load")
    /\ IF "sysctl_backup" \in store
       THEN /\ snap' = [snap EXCEPT ![p] = backup]
            /\ reverting' = TRUE
            /\ Goto(p, "restore")
            /\ UNCHANGED <<cmd, idx, link, orphan>>
       ELSE Exit(p) /\ UNCHANGED reverting
    /\ UNCHANGED <<disk, boot, live>>

(* Mutant: a line without a value is written back like any other. *)
RestoreKey_Unchecked(p) ==
    /\ At(p, "restore")
    /\ kernel' = [k \in Keys |-> IF k = idx[p] THEN snap[p][k] ELSE kernel[k]]
    /\ Loop(p, NumKeys, "unmark")
    /\ SameRun
    /\ UNCHANGED <<disk, boot, rules, groups, service, reverting>>

(* Mutant: the last key is not restored. *)
RestoreKey_Short(p) ==
    /\ At(p, "restore")
    /\ kernel' = [k \in Keys |-> IF k = idx[p] /\ snap[p][k] # ""
                                THEN snap[p][k] ELSE kernel[k]]
    /\ Loop(p, NumKeys - 1, "unmark")
    /\ SameRun
    /\ UNCHANGED <<disk, boot, rules, groups, service, reverting>>

(* A line of the backup without a value is passed over. *)
RestoreKey(p) ==
    /\ At(p, "restore")
    /\ kernel' = [k \in Keys |-> IF k = idx[p] /\ snap[p][k] # ""
                                THEN snap[p][k] ELSE kernel[k]]
    /\ Loop(p, NumKeys, "unmark")
    /\ SameRun
    /\ UNCHANGED <<disk, boot, rules, groups, service, reverting>>

(* revert_wifi_latency and revert_dns take their own drop-ins away. *)
Unconfigure(p) ==
    /\ At(p, "unconfigure")
    /\ store' = store \ {"wifi_pm_iface"}
    /\ etc' = etc \ ({"resolved"} \cup IF "wifi_pm_iface" \in store THEN {"nm"} ELSE {})
    /\ Goto(p, "reload")
    /\ UNCHANGED <<locals, state, backup, enabled, live, reverting>>

SaveInactive(p) ==
    /\ At(p, "inactive")
    /\ state' \in IF DiskFull THEN {"", "inactive"} ELSE {"inactive"}
    /\ Goto(p, "drop")
    /\ UNCHANGED <<locals, store, backup, boot, live, reverting>>

(* revert() is over; `stop' goes on with the cleaner. *)
DropBackup(p) ==
    /\ At(p, "drop")
    /\ store' = store \ {"sysctl_backup"}
    /\ backup' = Unsaved
    /\ cmd' = [cmd EXCEPT ![p] = "clean"]
    /\ Goto(p, "enter")
    /\ UNCHANGED <<idx, snap, link, orphan, state, boot, live, reverting>>

-----------------------------------------------------------------------------
(* Cleaner::run                                                            *)

(* Mutant: the state is asked instead of the files, and is gone as well. *)
EnterCleaner_Mutant(p) ==
    /\ At(p, "enter")
    /\ orphan' = [orphan EXCEPT ![p] = state # "absent" /\ "sysctl_backup" \notin store]
    /\ Goto(p, "pkill")
    /\ UNCHANGED <<cmd, idx, snap, link, disk, boot, live, reverting>>

EnterCleaner(p) ==
    /\ At(p, "enter")
    /\ orphan' = [orphan EXCEPT
                    ![p] = PersistencePresent /\ "sysctl_backup" \notin store]
    /\ Goto(p, "pkill")
    /\ UNCHANGED <<cmd, idx, snap, link, disk, boot, live, reverting>>

(* pkill -TERM asks a running daemon to end and does not wait for it. *)
Pkill(p) ==
    /\ At(p, "pkill")
    /\ service' = IF service = "running" THEN "stopping" ELSE service
    /\ Goto(p, "unmark")
    /\ UNCHANGED <<locals, disk, boot, kernel, rules, groups, reverting>>

Purge(p) ==
    /\ At(p, "purge")
    /\ store' = {}
    /\ state' = "absent"
    /\ backup' = Unsaved
    /\ Exit(p)
    /\ UNCHANGED <<boot, live, reverting>>

-----------------------------------------------------------------------------
(* betterconn.service, run by systemd.                                     *)

(* ExecStartPre: the script makes the groups and then adds the rules.      *)
(* Without the script it fails and systemd tries again later.              *)
ServiceGroups ==
    /\ service = "groups"
    /\ "script" \in etc
    /\ groups' \in {groups, TRUE}
    /\ service' = "rules"
    /\ UNCHANGED <<pc, locals, disk, boot, kernel, rules, reverting>>

ServiceRules ==
    /\ service = "rules"
    /\ \E added \in SUBSET Markable : rules' = rules \cup added
    /\ service' = "exec"
    /\ UNCHANGED <<pc, locals, disk, boot, kernel, groups, reverting>>

(* `betterconn daemon' gives up unless the state is active; Restart=on-failure *)
(* then sends the unit back to its ExecStartPre after RestartSec.              *)
ServiceExec ==
    /\ service = "exec"
    /\ service' = IF state = "active" THEN "running" ELSE "groups"
    /\ UNCHANGED <<pc, locals, disk, boot, kernel, rules, groups, reverting>>

DaemonTune ==
    /\ service \in {"running", "stopping"}
    /\ \E k \in DaemonKeys : kernel' = [kernel EXCEPT ![k] = "tuned"]
    /\ UNCHANGED <<pc, locals, disk, boot, rules, groups, service, reverting>>

DaemonExit ==
    /\ service = "stopping"
    /\ service' = "off"
    /\ UNCHANGED <<pc, locals, disk, boot, kernel, rules, groups, reverting>>

(* The daemon dies of something else than SIGTERM and is restarted. *)
DaemonCrash ==
    /\ service = "running"
    /\ service' = "groups"
    /\ UNCHANGED <<pc, locals, disk, boot, kernel, rules, groups, reverting>>

-----------------------------------------------------------------------------
(* The environment.                                                        *)

Kill(p) ==
    /\ ~At(p, "idle")
    /\ Exit(p)
    /\ UNCHANGED <<disk, boot, live, reverting>>

(* Everything in memory is lost; /etc and /var/lib decide what comes back. *)
Reboot ==
    /\ pc' = [p \in Procs |-> "idle"]
    /\ cmd' = [p \in Procs |-> "none"]
    /\ idx' = [p \in Procs |-> 1]
    /\ snap' = [p \in Procs |-> Unsaved]
    /\ link' = [p \in Procs |-> "none"]
    /\ orphan' = [p \in Procs |-> FALSE]
    /\ kernel' = [k \in Keys |-> IF "sysctl" \in etc THEN "tuned" ELSE "stock"]
    /\ rules' = {}
    /\ groups' = FALSE
    /\ service' = IF enabled /\ "unit" \in etc THEN "groups" ELSE "off"
    /\ UNCHANGED <<disk, boot, reverting>>

-----------------------------------------------------------------------------
NoRun ==
    /\ pc = [p \in Procs |-> "idle"]
    /\ cmd = [p \in Procs |-> "none"]
    /\ idx = [p \in Procs |-> 1]
    /\ snap = [p \in Procs |-> Unsaved]
    /\ link = [p \in Procs |-> "none"]
    /\ orphan = [p \in Procs |-> FALSE]

EmptyStorage ==
    /\ store = {}
    /\ state = "absent"
    /\ backup = Unsaved

(* A machine betterconn has never touched. *)
Init ==
    /\ NoRun
    /\ EmptyStorage
    /\ etc = {} /\ enabled = FALSE
    /\ kernel \in [Keys -> {"stock", "custom"}]
    /\ rules = {} /\ groups = FALSE /\ service = "off"
    /\ reverting = FALSE

(* The machine restore_pristine_baseline() and the cleaner's orphaned_tuning *)
(* speak of: an earlier run left its files and its tuning behind, and its    *)
(* backup is gone.                                                           *)
LeftoverInit ==
    /\ NoRun
    /\ EmptyStorage
    /\ etc = EtcFiles \ {"nm", "resolved"} /\ enabled = TRUE
    /\ kernel = [k \in Keys |-> "tuned"]
    /\ rules = {"tier", "service"} /\ groups = TRUE
    /\ service \in {"off", "groups"}
    /\ reverting = FALSE

StartStep(p) ==
    \/ ReadSysctls(p) \/ CreateBackup(p) \/ WriteBackup(p) \/ TuneKey(p)
    \/ ApplyFocusPriority(p) \/ ApplyWifiLatency(p) \/ WriteFile(p) \/ Enable(p)
    \/ Mark(p) \/ ApplyDns(p) \/ TruncateState(p) \/ Activate(p)

RevertStep(p) ==
    \/ LoadBackup(p) \/ RestoreKey(p) \/ Unconfigure(p)
    \/ SaveInactive(p) \/ DropBackup(p)

SharedStep(p) ==
    \/ Unmark(p) \/ Ungroup(p) \/ StopService(p) \/ Disable(p) \/ RemoveFile(p)
    \/ RestoreDefault(p) \/ Reload(p)

CleanStep(p) == EnterCleaner(p) \/ Pkill(p) \/ Purge(p)

UserStep(p) ==
    \/ InvokeStart(p) \/ InvokeStop(p) \/ InvokeClean(p)
    \/ Abort(p) \/ ConfirmStart(p) \/ ConfirmStop(p)

ProgramStep(p) == StartStep(p) \/ RevertStep(p) \/ SharedStep(p) \/ CleanStep(p)

ServiceStep ==
    ServiceGroups \/ ServiceRules \/ ServiceExec \/ DaemonTune \/ DaemonExit \/ DaemonCrash

Working == (\E p \in Procs : UserStep(p) \/ ProgramStep(p)) \/ ServiceStep

Interruption == (\E p \in Procs : Kill(p)) \/ Reboot

Next == Working \/ Interruption

Spec == Init /\ [][Next]_vars
LeftoverSpec == LeftoverInit /\ [][Next]_vars

(* A machine with leftovers on which no command is killed while it puts the  *)
(* defaults back; at any other step it may be, and the machine may go down.  *)
Uncut ==
    Working \/ Reboot \/ \E p \in Procs : ~At(p, "defaults") /\ Kill(p)

UncutSpec == LeftoverInit /\ [][Uncut]_vars

-----------------------------------------------------------------------------
(* Properties.                                                             *)

NothingTuned == \A k \in Keys : kernel[k] # "tuned"

(* Whoever is told "betterconn is active, run stop first" (main.cpp:312) can *)
(* run stop: revert() finds the backup it insists on (optimizer.cpp:575).    *)
StopNeverRefused == IsActive => "sysctl_backup" \in store

(* The stored baseline never holds a betterconn value (optimizer.cpp:502). *)
BaselinePristine == \A k \in Keys : backup[k] # "tuned"

(* A tuned key can be restored, and whatever would tune the machine again    *)
(* (files under /etc, the enabled unit, the service) exists only next to the *)
(* backup that undoes it, across kills and reboots.                          *)
TuningIsRecoverable ==
    /\ \A k \in Keys : kernel[k] = "tuned" => backup[k] \in Pristine
    /\ PersistencePresent \/ enabled \/ service # "off" => "sysctl_backup" \in store

(* Once a revert has read the backup, a failure further down never brings    *)
(* the tuning back on the next boot (optimizer.cpp:581).                     *)
NoReturnAfterRevert == reverting => ~PersistencePresent /\ ~enabled

(* When revert() is about to drop the backup, every key is back at its saved *)
(* value or at the distribution's (an interrupted start may have saved none, *)
(* and then tuned none), and no rule, file or daemon is left.                *)
RevertRestores ==
    \A p \in Procs : At(p, "drop") =>
        /\ NothingTuned
        /\ \A k \in Keys : \/ backup[k] \in {"", kernel[k]}
                           \/ k \in Configured /\ kernel[k] = "stock"
        /\ rules = {} /\ service = "off"
        /\ ~PersistencePresent /\ ~enabled

(* xt_cgroup resolves the path when a rule is inserted (optimizer.cpp:446):  *)
(* a tier rule always points at an existing group.                           *)
TierRulesHaveGroups == "tier" \in rules => groups

(* When the cleaner is about to say that everything is removed               *)
(* (cleaner.cpp:57), nothing of betterconn is in force or would come back.   *)
CleanLeavesNothing ==
    \A p \in Procs : At(p, "purge") =>
        /\ NothingTuned
        /\ rules = {} /\ service = "off"
        /\ ~PersistencePresent /\ ~enabled

(* A clean that found leftovers without a backup (cleaner.cpp:20) has given  *)
(* the machine back by the time it removes the store; the rules are another  *)
(* matter, the unit's restart loop may have added them again.                *)
CleanGivesBack ==
    \A p \in Procs : At(p, "purge") =>
        NothingTuned /\ service = "off" /\ ~PersistencePresent /\ ~enabled

(* The sysctls and their backup keep the contract of module Baseline. *)
B == INSTANCE Baseline WITH live <- kernel, record <- backup, Stock <- "stock"

BaselineContract == B!Spec

-----------------------------------------------------------------------------
(* What makes TypeOK inductive, whatever the disk does and however many      *)
(* commands run: an idle process runs no command, a loop starts at 1 and the *)
(* one over WriteOrder stays inside it.                                      *)
ControlOK ==
    \A p \in Procs :
        /\ cmd[p] = "none" <=> At(p, "idle")
        /\ idx[p] # 1 => pc[p] \in {"files", "defaults", "tune", "persist", "restore"}
        /\ At(p, "persist") => idx[p] <= Len(WriteOrder)

(* What makes the safety properties inductive, for commands typed one at a  *)
(* time.  What is said of values holds of a disk that takes what is written *)
(* to it, the rest of any.                                                  *)

Detached == ~PersistencePresent /\ ~enabled

Untuned == DiskFull \/ NothingTuned

(* The backup exists and holds a pristine value of every key. *)
Recorded ==
    /\ "sysctl_backup" \in store
    /\ DiskFull \/ \A k \in Keys : backup[k] \in Pristine

OneAtATime ==
    \A p, q \in Procs : ~At(p, "idle") /\ ~At(q, "idle") => p = q

(* A file that is not there has no content; a save writes all keys or none. *)
BackupWhole ==
    /\ backup = Unsaved \/ Recorded
    /\ "sysctl_backup" \notin store => backup = Unsaved

(* Whatever tunes or would tune the machine is undone by the backup. *)
TuningRecorded ==
    ~Untuned \/ ~Detached \/ service # "off" => Recorded

(* The steps of each command on a machine without leftovers. *)
Saving == {"read", "create", "write"}
Applying == {
    "tune", "focus", "wifi", "persist", "enable", "mark", "dns", "truncate",
    "activate" }
Withdrawing == {"halt", "stop_service", "disable", "files"}
Restoring == {
    "load", "restore", "unmark", "ungroup", "unconfigure", "reload",
    "retruncate", "inactive", "drop" }
Cleaning == {
    "enter", "pkill", "unmark", "ungroup", "stop_service", "disable", "files",
    "reload", "purge" }

StepOfCommand(p) ==
    \/ At(p, "idle")
    \/ cmd[p] = "start" /\ pc[p] \in {"confirm"} \cup Saving \cup Applying
    \/ cmd[p] = "stop" /\ pc[p] \in {"confirm"} \cup Withdrawing \cup Restoring
    \/ cmd[p] = "clean" /\ pc[p] \in Cleaning

(* start, up to its first write to /proc/sys: the machine is as it was. *)
StartBegins(p) ==
    pc[p] \in Saving =>
        /\ Untuned /\ Detached /\ service = "off"
        /\ At(p, "write") => "sysctl_backup" \in store /\ ~reverting
        /\ ~At(p, "write") => ~IsActive
        /\ ~At(p, "read") => snap[p] = kernel

StartTunes(p) == pc[p] \in Applying => Recorded /\ ~reverting

(* stop, until the persistence is gone: service, unit and files in turn. *)
StopWithdraws(p) ==
    /\ cmd[p] = "stop" /\ ~At(p, "confirm") => "sysctl_backup" \in store
    /\ pc[p] \in {"disable", "files"} => service = "off"
    /\ At(p, "files") =>
         /\ ~enabled
         /\ \A i \in DOMAIN RemovalOrder : i < idx[p] => RemovalOrder[i] \notin etc

KeyRestored(k) ==
    \/ backup[k] \in {"", kernel[k]}
    \/ k \in Configured /\ kernel[k] = "stock"

(* stop, once the persistence is gone: keys, rules and state in turn. *)
StopRestores(p) ==
    cmd[p] = "stop" /\ pc[p] \in Restoring =>
        /\ Detached /\ service = "off"
        /\ At(p, "restore") =>
             /\ snap[p] = backup
             /\ \A k \in Keys : k < idx[p] => KeyRestored(k)
        /\ pc[p] \notin {"load", "restore"} =>
             Untuned /\ \A k \in Keys : KeyRestored(k)
        /\ pc[p] \notin {"load", "restore", "unmark"} => rules = {}
        /\ pc[p] \in {"inactive", "drop"} => state # "active"

(* The cleaner only ever meets a machine nothing is tuned on. *)
CleanerMeetsNothing(p) ==
    /\ ~orphan[p]
    /\ cmd[p] = "clean" =>
         /\ ~IsActive
         /\ pc[p] \notin {"enter", "pkill", "unmark"} => rules = {}

ProcessInv(p) ==
    /\ StepOfCommand(p)
    /\ StartBegins(p)
    /\ StartTunes(p)
    /\ StopWithdraws(p)
    /\ StopRestores(p)
    /\ CleanerMeetsNothing(p)

MachineInv ==
    /\ BackupWhole
    /\ TuningRecorded
    /\ StopNeverRefused
    /\ NoReturnAfterRevert

(* A machine without leftovers, or one they were removed from. *)
Settled ==
    /\ TypeOK /\ ControlOK
    /\ OneAtATime
    /\ MachineInv
    /\ \A p \in Procs : ProcessInv(p)

IInv == Settled /\ TierRulesHaveGroups

=============================================================================
