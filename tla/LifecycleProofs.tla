--------------------------- MODULE LifecycleProofs ---------------------------
(***************************************************************************)
(* What is proved about Lifecycle for every number of terminals and keys:  *)
(* its types, from a clean machine and from one with leftovers, and, when  *)
(* commands are typed one at a time, its safety.  From a clean machine     *)
(* IInv is inductive and implies what the runs check; from a machine with  *)
(* leftovers the invariant is Leftovers until they have been put back or   *)
(* removed, and Settled from then on.  What is said of values needs a disk *)
(* that takes what is written to it (~DiskFull); the rest needs none.      *)
(***************************************************************************)
EXTENDS Lifecycle, TLAPS

-----------------------------------------------------------------------------
(* Types.                                                                  *)

ControlTyped ==
    /\ pc \in [Procs -> Steps]
    /\ cmd \in [Procs -> Commands]
    /\ idx \in [Procs -> Nat \ {0}]
    /\ ControlOK

(* A step that only moves the program counter. *)
LEMMA GotoTyped ==
    ASSUME ControlTyped, NEW p \in Procs, NEW s \in Steps \ {"idle"},
           ~At(p, "idle"), idx[p] = 1, Goto(p, s), UNCHANGED <<cmd, idx>>
    PROVE  ControlTyped'
BY DEF ControlTyped, ControlOK, Goto, At, WriteOrder

(* A round of a loop. *)
LEMMA LoopTyped ==
    ASSUME ControlTyped, NEW p \in Procs, NEW n \in Nat, NEW s \in Steps \ {"idle", "persist"},
           pc[p] \in {"files", "defaults", "tune", "persist", "restore"},
           At(p, "persist") => n = Len(WriteOrder),
           Loop(p, n, s), UNCHANGED cmd
    PROVE  ControlTyped'
<1> DEFINE i == IF idx[p] < n THEN idx[p] + 1 ELSE 1
           t == IF idx[p] < n THEN pc[p] ELSE s
<1>1. idx[p] \in Nat /\ i \in Nat \ {0} /\ Len(WriteOrder) = 5
  BY DEF ControlTyped, WriteOrder
<1>2. pc' = [pc EXCEPT ![p] = t] /\ idx' = [idx EXCEPT ![p] = i]
  BY DEF Loop, Goto
<1>3. /\ t = s => i = 1 \/ s = pc[p]
      /\ t # s => t = pc[p] /\ i <= n
      /\ t \in Steps \ {"idle"}
  BY <1>1 DEF ControlTyped
<1>4. /\ t \notin {"files", "defaults", "tune", "persist", "restore"} => i = 1
      /\ t = "persist" => i <= Len(WriteOrder)
  BY <1>1, <1>3 DEF At
<1> HIDE DEF i, t
<1> QED
  BY <1>1, <1>2, <1>3, <1>4 DEF ControlTyped, ControlOK, At

(* The end of a command. *)
LEMMA ExitTyped ==
    ASSUME ControlTyped, NEW p \in Procs, Exit(p)
    PROVE  /\ ControlTyped'
           /\ snap \in [Procs -> [Keys -> Values \cup {""}]]
                => snap' \in [Procs -> [Keys -> Values \cup {""}]]
           /\ link \in [Procs -> {"none"} \cup Links]
                => link' \in [Procs -> {"none"} \cup Links]
           /\ orphan \in [Procs -> BOOLEAN] => orphan' \in [Procs -> BOOLEAN]
<1>1. ControlTyped'
  BY DEF ControlTyped, ControlOK, Exit, Goto, At, Steps, Commands, WriteOrder
<1> QED
  BY <1>1 DEF Exit, Unsaved

TypeInv == TypeOK /\ ControlOK

(* TypeInv, with its part about the commands taken apart. *)
LEMMA ControlOfTypeInv == TypeInv <=> ControlTyped /\ TypeOK
BY DEF TypeInv, ControlTyped, TypeOK

(* Each step of a command. *)
LEMMA ProcessTyped ==
    ASSUME TypeInv, NEW p \in Procs, UserStep(p) \/ ProgramStep(p) \/ Kill(p)
    PROVE  TypeInv'
<1> USE DEF locals, disk, boot, live
<1>1. ControlTyped /\ TypeOK
  BY ControlOfTypeInv
<1>2. SUFFICES ControlTyped' /\ TypeOK'
  BY DEF TypeInv, ControlTyped
<1>ConfirmStart. CASE ConfirmStart(p)
  <2> DEFINE s == IF PersistencePresent THEN "unmark" ELSE "read"
  <2>1. s \in Steps \ {"idle"} /\ idx[p] = 1 /\ ~At(p, "idle")
    BY <1>1, <1>ConfirmStart
    DEF ConfirmStart, ControlTyped, ControlOK, At, Steps, Commands
  <2>2. Goto(p, s) /\ UNCHANGED <<cmd, idx>>
    BY <1>ConfirmStart DEF ConfirmStart
  <2> HIDE DEF s
  <2>3. ControlTyped'
    BY <1>1, <2>1, <2>2, GotoTyped
  <2> QED
    BY <1>1, <1>ConfirmStart, <2>3
    DEF ConfirmStart, TypeOK, ControlTyped
<1>ConfirmStop. CASE ConfirmStop(p)
  <2> DEFINE s == "halt"
  <2>1. s \in Steps \ {"idle"} /\ idx[p] = 1 /\ ~At(p, "idle")
    BY <1>1, <1>ConfirmStop
    DEF ConfirmStop, ControlTyped, ControlOK, At, Steps, Commands
  <2>2. Goto(p, s) /\ UNCHANGED <<cmd, idx>>
    BY <1>ConfirmStop DEF ConfirmStop
  <2> HIDE DEF s
  <2>3. ControlTyped'
    BY <1>1, <2>1, <2>2, GotoTyped
  <2> QED
    BY <1>1, <1>ConfirmStop, <2>3
    DEF ConfirmStop, TypeOK, ControlTyped
<1>Unmark. CASE Unmark(p)
  <2> DEFINE s == IF "tier" \in rules THEN "unmark" ELSE "ungroup"
  <2>1. s \in Steps \ {"idle"} /\ idx[p] = 1 /\ ~At(p, "idle")
    BY <1>1, <1>Unmark DEF Unmark, ControlTyped, ControlOK, At, Steps, Commands
  <2>2. Goto(p, s) /\ UNCHANGED <<cmd, idx>>
    BY <1>Unmark DEF Unmark
  <2> HIDE DEF s
  <2>3. ControlTyped'
    BY <1>1, <2>1, <2>2, GotoTyped
  <2> QED
    BY <1>1, <1>Unmark, <2>3
    DEF Unmark, TypeOK, ControlTyped
<1>Ungroup. CASE Ungroup(p)
  <2> DEFINE s == AfterUngroup[cmd[p]]
  <2>1. s \in Steps \ {"idle"} /\ idx[p] = 1 /\ ~At(p, "idle")
    BY <1>1, <1>Ungroup
    DEF Ungroup, ControlTyped, ControlOK, At, Steps, Commands, AfterUngroup
  <2>2. Goto(p, s) /\ UNCHANGED <<cmd, idx>>
    BY <1>Ungroup DEF Ungroup
  <2> HIDE DEF s
  <2>3. ControlTyped'
    BY <1>1, <2>1, <2>2, GotoTyped
  <2> QED
    BY <1>1, <1>Ungroup, <2>3
    DEF Ungroup, TypeOK, ControlTyped
<1>StopService. CASE StopService(p)
  <2> DEFINE s == IF At(p, "halt") THEN "stop_service" ELSE "disable"
  <2>1. s \in Steps \ {"idle"} /\ idx[p] = 1 /\ ~At(p, "idle")
    BY <1>1, <1>StopService
    DEF StopService, ControlTyped, ControlOK, At, Steps, Commands
  <2>2. UNCHANGED pc \/ Goto(p, s)
    BY <1>StopService DEF StopService
  <2>3. UNCHANGED <<cmd, idx>>
    BY <1>StopService DEF StopService
  <2> HIDE DEF s
  <2>4. ControlTyped'
    <3>1. CASE UNCHANGED pc
      BY <1>1, <2>3, <3>1 DEF ControlTyped, ControlOK, At
    <3>2. CASE Goto(p, s)
      BY <1>1, <2>1, <2>3, <3>2, GotoTyped
    <3> QED
      BY <2>2, <3>1, <3>2
  <2> QED
    BY <1>1, <1>StopService, <2>4
    DEF StopService, TypeOK, ControlTyped
<1>Disable. CASE Disable(p)
  <2> DEFINE s == "files"
  <2>1. s \in Steps \ {"idle"} /\ idx[p] = 1 /\ ~At(p, "idle")
    BY <1>1, <1>Disable DEF Disable, ControlTyped, ControlOK, At, Steps, Commands
  <2>2. Goto(p, s) /\ UNCHANGED <<cmd, idx>>
    BY <1>Disable DEF Disable
  <2> HIDE DEF s
  <2>3. ControlTyped'
    BY <1>1, <2>1, <2>2, GotoTyped
  <2> QED
    BY <1>1, <1>Disable, <2>3
    DEF Disable, TypeOK, ControlTyped
<1>Reload. CASE Reload(p)
  <2> DEFINE s == AfterReload[cmd[p]]
  <2>1. s \in Steps \ {"idle"} /\ idx[p] = 1 /\ ~At(p, "idle")
    BY <1>1, <1>Reload
    DEF Reload, ControlTyped, ControlOK, At, Steps, Commands, AfterReload
  <2>2. Goto(p, s) /\ UNCHANGED <<cmd, idx>>
    BY <1>Reload DEF Reload
  <2> HIDE DEF s
  <2>3. ControlTyped'
    BY <1>1, <2>1, <2>2, GotoTyped
  <2>4. kernel' \in [Keys -> Values]
    BY <1>1, <1>Reload DEF Reload, SysctlFilesApplied, TypeOK, Values, Pristine
  <2> QED
    BY <1>1, <1>Reload, <2>3, <2>4 DEF Reload, TypeOK, ControlTyped
<1>ReadSysctls. CASE ReadSysctls(p)
  <2> DEFINE s == "create"
  <2>1. s \in Steps \ {"idle"} /\ idx[p] = 1 /\ ~At(p, "idle")
    BY <1>1, <1>ReadSysctls
    DEF ReadSysctls, ControlTyped, ControlOK, At, Steps, Commands
  <2>2. Goto(p, s) /\ UNCHANGED <<cmd, idx>>
    BY <1>ReadSysctls DEF ReadSysctls
  <2> HIDE DEF s
  <2>3. ControlTyped'
    BY <1>1, <2>1, <2>2, GotoTyped
  <2>4. snap' \in [Procs -> [Keys -> Values \cup {""}]]
    BY <1>1, <1>ReadSysctls DEF ReadSysctls, TypeOK
  <2>5. link' \in [Procs -> {"none"} \cup Links]
    BY <1>1, <1>ReadSysctls DEF ReadSysctls, TypeOK
  <2> QED
    BY <1>1, <1>ReadSysctls, <2>3, <2>4, <2>5 DEF ReadSysctls, TypeOK, ControlTyped
<1>CreateBackup. CASE CreateBackup(p)
  <2> DEFINE s == "write"
  <2>1. s \in Steps \ {"idle"} /\ idx[p] = 1 /\ ~At(p, "idle")
    BY <1>1, <1>CreateBackup
    DEF CreateBackup, ControlTyped, ControlOK, At, Steps, Commands
  <2>2. Goto(p, s) /\ UNCHANGED <<cmd, idx>>
    BY <1>CreateBackup DEF CreateBackup
  <2> HIDE DEF s
  <2>3. ControlTyped'
    BY <1>1, <2>1, <2>2, GotoTyped
  <2> QED
    BY <1>1, <1>CreateBackup, <2>3
    DEF CreateBackup, TypeOK, ControlTyped, StoreFiles, Unsaved, Values
<1>WriteBackup. CASE WriteBackup(p)
  <2> DEFINE s == "tune"
  <2>1. s \in Steps \ {"idle"} /\ idx[p] = 1 /\ ~At(p, "idle")
    BY <1>1, <1>WriteBackup
    DEF WriteBackup, ControlTyped, ControlOK, At, Steps, Commands
  <2>2. Goto(p, s) /\ UNCHANGED <<cmd, idx>>
    BY <1>WriteBackup DEF WriteBackup
  <2> HIDE DEF s
  <2>3. ControlTyped'
    BY <1>1, <2>1, <2>2, GotoTyped
  <2>4. backup' \in [Keys -> Values \cup {""}]
    <3>1. CASE backup' = snap[p]
      BY <1>1, <3>1 DEF TypeOK
    <3>2. CASE UNCHANGED backup
      BY <1>1, <3>2 DEF TypeOK
    <3> QED
      BY <1>WriteBackup, <3>1, <3>2 DEF WriteBackup
  <2> QED
    BY <1>1, <1>WriteBackup, <2>3, <2>4 DEF WriteBackup, TypeOK, ControlTyped
<1>ApplyFocusPriority. CASE ApplyFocusPriority(p)
  <2> DEFINE s == "wifi"
  <2>1. s \in Steps \ {"idle"} /\ idx[p] = 1 /\ ~At(p, "idle")
    BY <1>1, <1>ApplyFocusPriority
    DEF ApplyFocusPriority, ControlTyped, ControlOK, At, Steps, Commands
  <2>2. Goto(p, s) /\ UNCHANGED <<cmd, idx>>
    BY <1>ApplyFocusPriority DEF ApplyFocusPriority
  <2> HIDE DEF s
  <2>3. ControlTyped'
    BY <1>1, <2>1, <2>2, GotoTyped
  <2> QED
    BY <1>1, <1>ApplyFocusPriority, <2>3
    DEF ApplyFocusPriority, TypeOK, ControlTyped, StoreFiles
<1>ApplyWifiLatency. CASE ApplyWifiLatency(p)
  <2> DEFINE s == "persist"
  <2>1. s \in Steps \ {"idle"} /\ idx[p] = 1 /\ ~At(p, "idle")
    BY <1>1, <1>ApplyWifiLatency
    DEF ApplyWifiLatency, ControlTyped, ControlOK, At, Steps, Commands
  <2>2. Goto(p, s) /\ UNCHANGED <<cmd, idx>>
    BY <1>ApplyWifiLatency DEF ApplyWifiLatency
  <2> HIDE DEF s
  <2>3. ControlTyped'
    BY <1>1, <2>1, <2>2, GotoTyped
  <2> QED
    BY <1>1, <1>ApplyWifiLatency, <2>3
    DEF ApplyWifiLatency, TypeOK, ControlTyped, StoreFiles, EtcFiles
<1>Enable. CASE Enable(p)
  <2> DEFINE s == "mark"
  <2>1. s \in Steps \ {"idle"} /\ idx[p] = 1 /\ ~At(p, "idle")
    BY <1>1, <1>Enable DEF Enable, ControlTyped, ControlOK, At, Steps, Commands
  <2>2. Goto(p, s) /\ UNCHANGED <<cmd, idx>>
    BY <1>Enable DEF Enable
  <2> HIDE DEF s
  <2>3. ControlTyped'
    BY <1>1, <2>1, <2>2, GotoTyped
  <2> QED
    BY <1>1, <1>Enable, <2>3
    DEF Enable, TypeOK, ControlTyped
<1>Mark. CASE Mark(p)
  <2> DEFINE s == "dns"
  <2>1. s \in Steps \ {"idle"} /\ idx[p] = 1 /\ ~At(p, "idle")
    BY <1>1, <1>Mark DEF Mark, ControlTyped, ControlOK, At, Steps, Commands
  <2>2. Goto(p, s) /\ UNCHANGED <<cmd, idx>>
    BY <1>Mark DEF Mark
  <2> HIDE DEF s
  <2>3. ControlTyped'
    BY <1>1, <2>1, <2>2, GotoTyped
  <2> QED
    BY <1>1, <1>Mark, <2>3
    DEF Mark, TypeOK, ControlTyped, Markable
<1>ApplyDns. CASE ApplyDns(p)
  <2> DEFINE s == "truncate"
  <2>1. s \in Steps \ {"idle"} /\ idx[p] = 1 /\ ~At(p, "idle")
    BY <1>1, <1>ApplyDns DEF ApplyDns, ControlTyped, ControlOK, At, Steps, Commands
  <2>2. Goto(p, s) /\ UNCHANGED <<cmd, idx>>
    BY <1>ApplyDns DEF ApplyDns
  <2> HIDE DEF s
  <2>3. ControlTyped'
    BY <1>1, <2>1, <2>2, GotoTyped
  <2> QED
    BY <1>1, <1>ApplyDns, <2>3
    DEF ApplyDns, TypeOK, ControlTyped, EtcFiles
<1>TruncateState. CASE TruncateState(p)
  <2> DEFINE s == IF At(p, "truncate") THEN "activate" ELSE "inactive"
  <2>1. s \in Steps \ {"idle"} /\ idx[p] = 1 /\ ~At(p, "idle")
    BY <1>1, <1>TruncateState
    DEF TruncateState, ControlTyped, ControlOK, At, Steps, Commands
  <2>2. Goto(p, s) /\ UNCHANGED <<cmd, idx>>
    BY <1>TruncateState DEF TruncateState
  <2> HIDE DEF s
  <2>3. ControlTyped'
    BY <1>1, <2>1, <2>2, GotoTyped
  <2> QED
    BY <1>1, <1>TruncateState, <2>3
    DEF TruncateState, TypeOK, ControlTyped
<1>Unconfigure. CASE Unconfigure(p)
  <2> DEFINE s == "reload"
  <2>1. s \in Steps \ {"idle"} /\ idx[p] = 1 /\ ~At(p, "idle")
    BY <1>1, <1>Unconfigure
    DEF Unconfigure, ControlTyped, ControlOK, At, Steps, Commands
  <2>2. Goto(p, s) /\ UNCHANGED <<cmd, idx>>
    BY <1>Unconfigure DEF Unconfigure
  <2> HIDE DEF s
  <2>3. ControlTyped'
    BY <1>1, <2>1, <2>2, GotoTyped
  <2> QED
    BY <1>1, <1>Unconfigure, <2>3
    DEF Unconfigure, TypeOK, ControlTyped
<1>SaveInactive. CASE SaveInactive(p)
  <2> DEFINE s == "drop"
  <2>1. s \in Steps \ {"idle"} /\ idx[p] = 1 /\ ~At(p, "idle")
    BY <1>1, <1>SaveInactive
    DEF SaveInactive, ControlTyped, ControlOK, At, Steps, Commands
  <2>2. Goto(p, s) /\ UNCHANGED <<cmd, idx>>
    BY <1>SaveInactive DEF SaveInactive
  <2> HIDE DEF s
  <2>3. ControlTyped'
    BY <1>1, <2>1, <2>2, GotoTyped
  <2> QED
    BY <1>1, <1>SaveInactive, <2>3
    DEF SaveInactive, TypeOK, ControlTyped
<1>EnterCleaner. CASE EnterCleaner(p)
  <2> DEFINE s == "pkill"
  <2>1. s \in Steps \ {"idle"} /\ idx[p] = 1 /\ ~At(p, "idle")
    BY <1>1, <1>EnterCleaner
    DEF EnterCleaner, ControlTyped, ControlOK, At, Steps, Commands
  <2>2. Goto(p, s) /\ UNCHANGED <<cmd, idx>>
    BY <1>EnterCleaner DEF EnterCleaner
  <2> HIDE DEF s
  <2>3. ControlTyped'
    BY <1>1, <2>1, <2>2, GotoTyped
  <2> QED
    BY <1>1, <1>EnterCleaner, <2>3
    DEF EnterCleaner, TypeOK, ControlTyped
<1>Pkill. CASE Pkill(p)
  <2> DEFINE s == "unmark"
  <2>1. s \in Steps \ {"idle"} /\ idx[p] = 1 /\ ~At(p, "idle")
    BY <1>1, <1>Pkill DEF Pkill, ControlTyped, ControlOK, At, Steps, Commands
  <2>2. Goto(p, s) /\ UNCHANGED <<cmd, idx>>
    BY <1>Pkill DEF Pkill
  <2> HIDE DEF s
  <2>3. ControlTyped'
    BY <1>1, <2>1, <2>2, GotoTyped
  <2> QED
    BY <1>1, <1>Pkill, <2>3
    DEF Pkill, TypeOK, ControlTyped
<1>RemoveFile. CASE RemoveFile(p)
  <2>1. ControlTyped'
    BY <1>1, <1>RemoveFile, LoopTyped, NumKeysAssumption
    DEF RemoveFile, SameRun, At, ControlTyped, AfterFiles, RemovalOrder, WriteOrder,
        Steps
  <2> QED
    BY <1>1, <1>RemoveFile, <2>1
    DEF RemoveFile, SameRun, TypeOK, ControlTyped, ControlOK, At, WriteOrder,
        EtcFiles, Keys, Values, Pristine
<1>RestoreDefault. CASE RestoreDefault(p)
  <2>1. ControlTyped'
    BY <1>1, <1>RestoreDefault, LoopTyped, NumKeysAssumption
    DEF RestoreDefault, SameRun, At, ControlTyped, AfterFiles, RemovalOrder,
        WriteOrder, Steps
  <2> QED
    BY <1>1, <1>RestoreDefault, <2>1
    DEF RestoreDefault, SameRun, TypeOK, ControlTyped, ControlOK, At, WriteOrder,
        EtcFiles, Keys, Values, Pristine
<1>TuneKey. CASE TuneKey(p)
  <2>1. ControlTyped'
    BY <1>1, <1>TuneKey, LoopTyped, NumKeysAssumption
    DEF TuneKey, SameRun, At, ControlTyped, AfterFiles, RemovalOrder, WriteOrder,
        Steps
  <2>2. kernel' \in [Keys -> Values]
    BY <1>1, <1>TuneKey DEF TuneKey, TypeOK, Values, Pristine
  <2> QED
    BY <1>1, <1>TuneKey, <2>1, <2>2 DEF TuneKey, SameRun, TypeOK, ControlTyped
<1>WriteFile. CASE WriteFile(p)
  <2>1. ControlTyped'
    BY <1>1, <1>WriteFile, LoopTyped, NumKeysAssumption
    DEF WriteFile, SameRun, At, ControlTyped, AfterFiles, RemovalOrder, WriteOrder,
        Steps
  <2>2. idx[p] \in 1..5
    BY <1>1, <1>WriteFile DEF WriteFile, ControlTyped, ControlOK, At, WriteOrder
  <2>3. WriteOrder[idx[p]] \in EtcFiles
    BY <2>2 DEF WriteOrder, EtcFiles
  <2> QED
    BY <1>1, <1>WriteFile, <2>1, <2>3 DEF WriteFile, SameRun, TypeOK, ControlTyped
<1>RestoreKey. CASE RestoreKey(p)
  <2>1. ControlTyped'
    BY <1>1, <1>RestoreKey, LoopTyped, NumKeysAssumption
    DEF RestoreKey, SameRun, At, ControlTyped, AfterFiles, RemovalOrder, WriteOrder,
        Steps
  <2>2. kernel' \in [Keys -> Values]
    <3>1. \A k \in Keys : snap[p][k] \in Values \cup {""} /\ kernel[k] \in Values
      BY <1>1 DEF TypeOK
    <3> QED
      BY <1>RestoreKey, <3>1 DEF RestoreKey
  <2> QED
    BY <1>1, <1>RestoreKey, <2>1, <2>2 DEF RestoreKey, SameRun, TypeOK, ControlTyped
<1>Abort. CASE Abort(p)
  <2>1. ControlTyped'
    BY <1>1, <1>Abort, ExitTyped DEF Abort
  <2> QED
    BY <1>1, <1>Abort, <2>1, ExitTyped
    DEF Abort, TypeOK, ControlTyped, StoreFiles, Unsaved
<1>Activate. CASE Activate(p)
  <2>1. ControlTyped'
    BY <1>1, <1>Activate, ExitTyped DEF Activate
  <2> QED
    BY <1>1, <1>Activate, <2>1, ExitTyped
    DEF Activate, TypeOK, ControlTyped, StoreFiles, Unsaved
<1>Purge. CASE Purge(p)
  <2>1. ControlTyped'
    BY <1>1, <1>Purge, ExitTyped DEF Purge
  <2> QED
    BY <1>1, <1>Purge, <2>1, ExitTyped
    DEF Purge, TypeOK, ControlTyped, StoreFiles, Unsaved
<1>Kill. CASE Kill(p)
  <2>1. ControlTyped'
    BY <1>1, <1>Kill, ExitTyped DEF Kill
  <2> QED
    BY <1>1, <1>Kill, <2>1, ExitTyped
    DEF Kill, TypeOK, ControlTyped, StoreFiles, Unsaved
<1>Invoke. CASE InvokeStart(p) \/ InvokeStop(p) \/ InvokeClean(p)
  <2>1. PICK c \in {"start", "stop", "clean"}, s \in {"confirm", "enter"} : Invoke(p, c, s)
    BY <1>Invoke DEF InvokeStart, InvokeStop, InvokeClean
  <2>2. ControlTyped'
    BY <1>1, <2>1
    DEF Invoke, ControlTyped, ControlOK, Goto, At, Steps, Commands, WriteOrder
  <2> QED
    BY <1>1, <2>1, <2>2 DEF Invoke, TypeOK, ControlTyped
<1>LoadBackup. CASE LoadBackup(p)
  <2>1. CASE "sysctl_backup" \in store
    <3>1. ControlTyped'
      BY <1>1, <1>LoadBackup, <2>1, GotoTyped
      DEF LoadBackup, ControlTyped, ControlOK, At, Steps
    <3> QED
      BY <1>1, <1>LoadBackup, <2>1, <3>1 DEF LoadBackup, TypeOK, ControlTyped
  <2>2. CASE "sysctl_backup" \notin store
    <3>1. ControlTyped'
      BY <1>1, <1>LoadBackup, <2>2, ExitTyped DEF LoadBackup
    <3> QED
      BY <1>1, <1>LoadBackup, <2>2, <3>1, ExitTyped DEF LoadBackup, TypeOK, ControlTyped
  <2> QED
    BY <2>1, <2>2
<1>DropBackup. CASE DropBackup(p)
  <2>1. ControlTyped'
    BY <1>1, <1>DropBackup
    DEF DropBackup, ControlTyped, ControlOK, Goto, At, Steps, Commands, WriteOrder
  <2> QED
    BY <1>1, <1>DropBackup, <2>1
    DEF DropBackup, TypeOK, ControlTyped, StoreFiles, Unsaved
<1> QED
  BY <1>ConfirmStart, <1>ConfirmStop, <1>Unmark, <1>Ungroup, <1>StopService,
     <1>Disable, <1>Reload, <1>ReadSysctls, <1>CreateBackup, <1>WriteBackup,
     <1>ApplyFocusPriority, <1>ApplyWifiLatency, <1>Enable, <1>Mark, <1>ApplyDns,
     <1>TruncateState, <1>Unconfigure, <1>SaveInactive, <1>EnterCleaner, <1>Pkill,
     <1>RemoveFile, <1>RestoreDefault, <1>TuneKey, <1>WriteFile, <1>RestoreKey,
     <1>Abort, <1>Activate, <1>Purge, <1>Kill, <1>Invoke,
     <1>LoadBackup, <1>DropBackup
  DEF UserStep, ProgramStep, StartStep, RevertStep, SharedStep, CleanStep

(* The service and the environment do not move a command, but for a reboot. *)
LEMMA MachineTyped ==
    ASSUME TypeInv, ServiceStep \/ Reboot
    PROVE  TypeInv'
<1> USE DEF TypeInv, locals, disk, boot
<1>1. CASE ServiceStep
  <2>1. UNCHANGED <<pc, cmd, idx>>
    BY <1>1
    DEF ServiceStep, ServiceGroups, ServiceRules, ServiceExec, DaemonTune,
        DaemonExit, DaemonCrash
  <2>2. ControlOK'
    BY <2>1 DEF ControlOK, At
  <2>3. kernel' \in [Keys -> Values]
    BY <1>1, KeysAssumption
    DEF ServiceStep, ServiceGroups, ServiceRules, ServiceExec, DaemonTune,
        DaemonExit, DaemonCrash,
        TypeOK, Values
  <2> QED
    BY <1>1, <2>2, <2>3
    DEF ServiceStep, ServiceGroups, ServiceRules, ServiceExec, DaemonTune,
        DaemonExit, DaemonCrash,
        TypeOK, Markable
<1>2. CASE Reboot
  <2>1. ControlOK'
    BY <1>2 DEF Reboot, ControlOK, At
  <2>2. /\ kernel' \in [Keys -> Values]
        /\ snap' \in [Procs -> [Keys -> Values \cup {""}]]
    BY <1>2 DEF Reboot, Unsaved, Values, Pristine
  <2>3. pc' \in [Procs -> Steps] /\ cmd' \in [Procs -> Commands]
    BY <1>2 DEF Reboot, Steps, Commands
  <2>4. /\ idx' \in [Procs -> Nat \ {0}]
        /\ link' \in [Procs -> {"none"} \cup Links]
        /\ orphan' \in [Procs -> BOOLEAN]
    BY <1>2 DEF Reboot
  <2>5. /\ rules' \subseteq {"tier", "service"}
        /\ groups' \in BOOLEAN
        /\ service' \in {"off", "groups", "rules", "exec", "running", "stopping"}
    BY <1>2 DEF Reboot
  <2>6. UNCHANGED <<store, state, backup, etc, enabled, reverting>>
    BY <1>2 DEF Reboot
  <2> QED
    BY <2>1, <2>2, <2>3, <2>4, <2>5, <2>6 DEF TypeOK
<1> QED
  BY <1>1, <1>2

(* TypeInv is preserved by every step, a stutter included. *)
LEMMA NextTyped == TypeInv /\ [Next]_vars => TypeInv'
<1> SUFFICES ASSUME TypeInv, [Next]_vars PROVE TypeInv'
  OBVIOUS
<1>1. CASE UNCHANGED vars
  BY <1>1 DEF vars, locals, disk, boot, live, TypeInv, TypeOK, ControlOK, At
<1>2. CASE Next
  BY <1>2, ProcessTyped, MachineTyped DEF Next, Working, Interruption
<1> QED
  BY <1>1, <1>2

NoRunTyped ==
    /\ snap \in [Procs -> [Keys -> Values \cup {""}]]
    /\ link \in [Procs -> {"none"} \cup Links]
    /\ orphan \in [Procs -> BOOLEAN]

(* A machine that runs no command. *)
LEMMA NoRunTypes == NoRun => ControlTyped /\ NoRunTyped
<1> SUFFICES ASSUME NoRun PROVE ControlTyped /\ NoRunTyped
  OBVIOUS
<1>1. ControlTyped
  BY DEF NoRun, ControlTyped, ControlOK, At, Steps, Commands, WriteOrder
<1>2. NoRunTyped
  BY DEF NoRun, NoRunTyped, Unsaved
<1> QED
  BY <1>1, <1>2

(* TypeInv holds on a machine betterconn has never touched. *)
LEMMA InitTyped == Init => TypeInv
<1> SUFFICES ASSUME Init PROVE TypeInv
  OBVIOUS
<1>1. NoRun => ControlTyped /\ NoRunTyped
  BY NoRunTypes
<1>2. kernel \in [Keys -> Values] /\ backup \in [Keys -> Values \cup {""}]
  BY DEF Init, EmptyStorage, Unsaved, Values, Pristine
<1> QED
  BY <1>1, <1>2
  DEF Init, EmptyStorage, TypeInv, TypeOK, ControlTyped, NoRunTyped, EtcFiles,
      StoreFiles

(* TypeInv holds on a machine whose earlier betterconn lost its backup. *)
LEMMA LeftoverTyped == LeftoverInit => TypeInv
<1> SUFFICES ASSUME LeftoverInit PROVE TypeInv
  OBVIOUS
<1>1. NoRun => ControlTyped /\ NoRunTyped
  BY NoRunTypes
<1>2. kernel \in [Keys -> Values] /\ backup \in [Keys -> Values \cup {""}]
  BY DEF LeftoverInit, EmptyStorage, Unsaved, Values, Pristine
<1> QED
  BY <1>1, <1>2
  DEF LeftoverInit, EmptyStorage, TypeInv, TypeOK, ControlTyped, NoRunTyped, EtcFiles,
      StoreFiles

(* Every variable keeps to the values the code can give it, and an idle      *)
(* terminal runs no command, however many commands run, whatever is killed   *)
(* and whatever the disk loses.                                              *)
THEOREM TypeCorrect == Spec => []TypeOK
<1>1. Init => TypeInv
  BY InitTyped
<1>2. TypeInv => TypeOK
  BY DEF TypeInv
<1> QED
  BY <1>1, <1>2, NextTyped, PTL DEF Spec

(* The same on a machine whose earlier betterconn lost its backup: the path  *)
(* of apply() through restore_pristine_baseline() (optimizer.cpp:499) and of *)
(* the cleaner through its orphaned_tuning (cleaner.cpp:20).                 *)
THEOREM LeftoverTypeCorrect == LeftoverSpec => []TypeOK
<1>1. LeftoverInit => TypeInv
  BY LeftoverTyped
<1>2. TypeInv => TypeOK
  BY DEF TypeInv
<1> QED
  BY <1>1, <1>2, NextTyped, PTL DEF LeftoverSpec

-----------------------------------------------------------------------------
(* Safety, of commands that are typed one at a time.                       *)

(* An idle process owes nothing. *)
LEMMA IdleInv ==
    ASSUME NEW q \in Procs, At(q, "idle")', cmd'[q] = "none", ~orphan'[q]
    PROVE  ProcessInv(q)'
BY DEF ProcessInv, StepOfCommand, StartBegins, StartTunes, StopWithdraws, StopRestores,
       CleanerMeetsNothing, At, Saving, Applying, Restoring

(* Where a process stands is changed by its own steps alone. *)
Frame(p) ==
    \A q \in Procs \ {p} : pc'[q] = pc[q] /\ cmd'[q] = cmd[q] /\ orphan'[q] = orphan[q]

(* Each step of a process keeps to that frame. *)
LEMMA StepFrame ==
    ASSUME TypeOK, NEW p \in Procs, UserStep(p) \/ ProgramStep(p) \/ Kill(p)
    PROVE  Frame(p)
<1> USE DEF TypeOK, Frame, Goto, Exit, locals
<1>1. CASE UserStep(p)
  BY <1>1
  DEF UserStep, Invoke, InvokeStart, InvokeStop, InvokeClean, Abort, ConfirmStart,
      ConfirmStop
<1>2. CASE StartStep(p)
  BY <1>2
  DEF StartStep, ReadSysctls, CreateBackup, WriteBackup, TuneKey, ApplyFocusPriority,
      ApplyWifiLatency, WriteFile, Enable, Mark, ApplyDns, TruncateState, Activate,
      Loop, SameRun
<1>3. CASE RevertStep(p)
  <2>1. CASE SaveInactive(p)
    BY Zenon, <2>1 DEF SaveInactive
  <2>2. CASE LoadBackup(p) \/ RestoreKey(p) \/ Unconfigure(p) \/ DropBackup(p)
    BY <2>2 DEF LoadBackup, RestoreKey, Unconfigure, DropBackup, Loop, SameRun
  <2> QED
    BY <1>3, <2>1, <2>2 DEF RevertStep
<1>4. CASE SharedStep(p)
  BY <1>4
  DEF SharedStep, Unmark, Ungroup, StopService, Disable, RemoveFile, RestoreDefault,
      Reload, Loop, SameRun
<1>5. CASE CleanStep(p)
  BY <1>5 DEF CleanStep, EnterCleaner, Pkill, Purge
<1>6. CASE Kill(p)
  BY <1>6 DEF Kill
<1> QED
  BY <1>1, <1>2, <1>3, <1>4, <1>5, <1>6 DEF ProgramStep

(* With commands typed one at a time, the others are idle during a step. *)
LEMMA OthersIdle ==
    ASSUME OneAtATime, Serialized, NEW p \in Procs,
           UserStep(p) \/ ProgramStep(p) \/ Kill(p)
    PROVE  \A q \in Procs \ {p} : At(q, "idle")
<1>1. CASE InvokeStart(p) \/ InvokeStop(p) \/ InvokeClean(p)
  BY <1>1 DEF InvokeStart, InvokeStop, InvokeClean, Invoke, Quiet
<1>2. CASE ~At(p, "idle")
  BY <1>2 DEF OneAtATime
<1>3. InvokeStart(p) \/ InvokeStop(p) \/ InvokeClean(p) \/ ~At(p, "idle")
  BY DEF UserStep, Abort, ConfirmStart, ConfirmStop, ProgramStep, StartStep,
         ReadSysctls, CreateBackup, WriteBackup, TuneKey, ApplyFocusPriority,
         ApplyWifiLatency, WriteFile, Enable, Mark, ApplyDns, TruncateState, Activate,
         RevertStep, LoadBackup, RestoreKey, Unconfigure, SaveInactive, DropBackup,
         SharedStep, Unmark, Ungroup, StopService, Disable, RemoveFile,
         RestoreDefault, Reload, CleanStep, EnterCleaner, Pkill, Purge, Kill, At
<1> QED
  BY <1>1, <1>2, <1>3

(* ... and stay so, which is all the invariant says of them. *)
LEMMA OthersKept ==
    ASSUME Settled, Serialized, NEW p \in Procs, UserStep(p) \/ ProgramStep(p) \/ Kill(p)
    PROVE  OneAtATime' /\ \A q \in Procs \ {p} : ProcessInv(q)'
<1>1. \A q \in Procs \ {p} : pc'[q] = "idle" /\ cmd'[q] = "none" /\ ~orphan'[q]
  BY OthersIdle, StepFrame
  DEF Settled, ControlOK, Frame, At, ProcessInv, CleanerMeetsNothing
<1>2. OneAtATime'
  BY <1>1 DEF OneAtATime, At
<1>3. \A q \in Procs \ {p} : ProcessInv(q)'
  BY <1>1, IdleInv DEF At
<1> QED
  BY <1>2, <1>3

(* The end of a command, in whatever way. *)
LEMMA ExitPreserves ==
    ASSUME Settled, Serialized, NEW p \in Procs,
           Abort(p) \/ Activate(p) \/ Purge(p) \/ Kill(p)
    PROVE  MachineInv' /\ ProcessInv(p)'
<1> USE DEF At, Keys, Pristine, Values, Unsaved, Recorded, Detached, Untuned, NothingTuned,
            IsActive, PersistencePresent, KeyRestored, SameRun, disk, boot, live,
            Saving, Applying, Withdrawing, Restoring, Cleaning, MachineInv, ProcessInv,
            BackupWhole, TuningRecorded, StopNeverRefused, NoReturnAfterRevert,
            StepOfCommand, StartBegins, StartTunes, StopWithdraws,
            StopRestores, CleanerMeetsNothing
<1>1. TypeOK /\ ControlOK /\ MachineInv /\ ProcessInv(p)
  BY DEF Settled
<1>idx. idx[p] \in Nat \ {0} /\ NumKeys \in Nat
  BY <1>1, NumKeysAssumption DEF TypeOK
<1>2. pc'[p] = "idle" /\ cmd'[p] = "none" /\ ~orphan'[p]
  BY <1>1 DEF Abort, Activate, Purge, Kill, Exit, Goto, TypeOK
<1>3. ProcessInv(p)'
  BY <1>2, IdleInv
<1>4. CASE Abort(p) \/ Kill(p)
  <2>1. UNCHANGED <<disk, boot, live, reverting>>
    BY <1>4 DEF Abort, Kill
  <2>2. MachineInv'
    BY <1>1, <2>1
  <2> QED
    BY <1>3, <2>2
<1>5. CASE Activate(p)
  BY <1>1, <1>3, <1>5 DEF Activate
<1>6. CASE Purge(p)
  BY <1>1, <1>3, <1>6 DEF Purge
<1> QED
  BY <1>4, <1>5, <1>6

(* Typing and confirming a command. *)
LEMMA UserPreserves ==
    ASSUME Settled, Serialized, NEW p \in Procs, UserStep(p)
    PROVE  MachineInv' /\ ProcessInv(p)'
<1> USE DEF At, Keys, Pristine, Values, Unsaved, Recorded, Detached, Untuned, NothingTuned,
            IsActive, PersistencePresent, KeyRestored, SameRun, disk, boot, live,
            Saving, Applying, Withdrawing, Restoring, Cleaning, MachineInv, ProcessInv,
            BackupWhole, TuningRecorded, StopNeverRefused, NoReturnAfterRevert,
            StepOfCommand, StartBegins, StartTunes, StopWithdraws,
            StopRestores, CleanerMeetsNothing
<1>1. TypeOK /\ ControlOK /\ MachineInv /\ ProcessInv(p)
  BY DEF Settled
<1>idx. idx[p] \in Nat \ {0} /\ NumKeys \in Nat
  BY <1>1, NumKeysAssumption DEF TypeOK
<1>Invoke. CASE InvokeStart(p) \/ InvokeStop(p) \/ InvokeClean(p)
  <2>1. pc[p] = "idle" /\ cmd[p] = "none" /\ ~orphan[p]
    BY <1>1, <1>Invoke DEF InvokeStart, InvokeStop, InvokeClean, Invoke, ControlOK
  <2>2. PICK c \in {"start", "stop", "clean"} :
          /\ cmd'[p] = c
          /\ pc'[p] = IF c = "clean" THEN "enter" ELSE "confirm"
          /\ c = "clean" => ~IsActive
          /\ orphan' = orphan
    BY <1>1, <1>Invoke DEF InvokeStart, InvokeStop, InvokeClean, Invoke, Goto, TypeOK
  <2>3. UNCHANGED <<disk, boot, live, reverting>>
    BY <1>Invoke DEF InvokeStart, InvokeStop, InvokeClean, Invoke
  <2>4. MachineInv'
    BY <1>1, <2>3
  <2>5. ProcessInv(p)'
    BY <1>1, <2>1, <2>2, <2>3
  <2> QED
    BY <2>4, <2>5
<1>Abort. CASE Abort(p)
  BY <1>Abort, ExitPreserves
<1>ConfirmStart. CASE ConfirmStart(p)
  <2>1. ~PersistencePresent /\ pc'[p] = "read" /\ cmd'[p] = "start" /\ orphan'[p] = orphan[p]
    BY <1>1, <1>ConfirmStart DEF ConfirmStart, Goto, TypeOK, locals
  <2>2. MachineInv'
    BY <1>1, <1>ConfirmStart DEF ConfirmStart
  <2>3. ProcessInv(p)'
    BY <1>1, <1>ConfirmStart, <2>1 DEF ConfirmStart
  <2> QED
    BY <2>2, <2>3
<1>ConfirmStop. CASE ConfirmStop(p)
  <2>1. /\ cmd[p] = "stop" /\ pc[p] = "confirm"
        /\ pc'[p] = "halt" /\ cmd'[p] = cmd[p] /\ orphan'[p] = orphan[p]
    BY <1>1, <1>ConfirmStop DEF ConfirmStop, TypeOK, Goto, locals
  <2>2. MachineInv'
    BY <1>1, <1>ConfirmStop, <2>1 DEF ConfirmStop, MachineInv
  <2>3. ProcessInv(p)'
    BY <1>1, <1>ConfirmStop, <2>1 DEF ConfirmStop, ProcessInv
  <2> QED
    BY <2>2, <2>3
<1> QED
  BY <1>Invoke, <1>Abort, <1>ConfirmStart, <1>ConfirmStop DEF UserStep

(* Optimizer::apply. *)
LEMMA StartPreserves ==
    ASSUME Settled, Serialized, NEW p \in Procs, StartStep(p)
    PROVE  MachineInv' /\ ProcessInv(p)'
<1> USE DEF At, Keys, Pristine, Values, Unsaved, Recorded, Detached, Untuned, NothingTuned,
            IsActive, PersistencePresent, KeyRestored, SameRun, disk, boot, live,
            Saving, Applying, Withdrawing, Restoring, Cleaning, MachineInv, ProcessInv,
            BackupWhole, TuningRecorded, StopNeverRefused, NoReturnAfterRevert,
            StepOfCommand, StartBegins, StartTunes, StopWithdraws,
            StopRestores, CleanerMeetsNothing
<1>1. TypeOK /\ ControlOK /\ MachineInv /\ ProcessInv(p)
  BY DEF Settled
<1>idx. idx[p] \in Nat \ {0} /\ NumKeys \in Nat
  BY <1>1, NumKeysAssumption DEF TypeOK
<1>ReadSysctls. CASE ReadSysctls(p)
  <2>1. /\ cmd[p] = "start" /\ pc[p] = "read"
        /\ pc'[p] = "create" /\ cmd'[p] = cmd[p] /\ orphan'[p] = orphan[p]
    BY <1>1, <1>ReadSysctls DEF ReadSysctls, TypeOK, Goto, locals
  <2>2. snap'[p] = kernel /\ UNCHANGED <<disk, boot, live, reverting>>
    BY <1>1, <1>ReadSysctls DEF ReadSysctls, TypeOK
  <2>3. MachineInv'
    BY <1>1, <2>2
  <2>4. ProcessInv(p)'
    BY <1>1, <2>1, <2>2
  <2> QED
    BY <2>3, <2>4
<1>CreateBackup. CASE CreateBackup(p)
  <2>1. /\ cmd[p] = "start" /\ pc[p] = "create"
        /\ pc'[p] = "write" /\ cmd'[p] = cmd[p] /\ orphan'[p] = orphan[p]
    BY <1>1, <1>CreateBackup DEF CreateBackup, TypeOK, Goto, locals
  <2>2. snap'[p] = kernel' /\ Untuned' /\ Detached' /\ service' = "off"
    BY <1>1, <1>CreateBackup, <2>1 DEF CreateBackup, locals
  <2>3. MachineInv'
    BY <1>1, <1>CreateBackup, <2>1 DEF CreateBackup
  <2>4. ProcessInv(p)'
    BY <1>1, <1>CreateBackup, <2>1, <2>2 DEF CreateBackup
  <2> QED
    BY <2>3, <2>4
<1>WriteBackup. CASE WriteBackup(p)
  <2>1. /\ cmd[p] = "start" /\ pc[p] = "write"
        /\ pc'[p] = "tune" /\ cmd'[p] = cmd[p] /\ orphan'[p] = orphan[p]
    BY <1>1, <1>WriteBackup DEF WriteBackup, TypeOK, Goto, locals
  <2>2. backup' = snap[p] \/ DiskFull
    BY <1>WriteBackup DEF WriteBackup
  <2>3. /\ snap[p] = kernel /\ ~reverting /\ "sysctl_backup" \in store
        /\ DiskFull \/ NothingTuned
    BY <1>1, <2>1
  <2>4. /\ Recorded' /\ ~reverting'
        /\ UNCHANGED <<store, state, etc, enabled, kernel, rules, groups, service>>
    BY <1>1, <1>WriteBackup, <2>2, <2>3 DEF WriteBackup, TypeOK
  <2>5. MachineInv'
    BY <1>1, <2>4
  <2>6. ProcessInv(p)'
    BY <1>1, <2>1, <2>4
  <2> QED
    BY <2>5, <2>6
<1>TuneKey. CASE TuneKey(p)
  <2>1. /\ cmd[p] = "start" /\ pc[p] = "tune"
        /\ pc'[p] \in {"tune", "focus"} /\ cmd'[p] = cmd[p] /\ orphan'[p] = orphan[p]
    BY <1>1, <1>TuneKey DEF TuneKey, TypeOK, Goto, Loop
  <2>2. MachineInv'
    BY <1>1, <1>TuneKey, <2>1 DEF TuneKey, MachineInv
  <2>3. ProcessInv(p)'
    BY <1>1, <1>TuneKey, <2>1 DEF TuneKey, ProcessInv
  <2> QED
    BY <2>2, <2>3
<1>ApplyFocusPriority. CASE ApplyFocusPriority(p)
  <2>1. /\ cmd[p] = "start" /\ pc[p] = "focus"
        /\ pc'[p] = "wifi" /\ cmd'[p] = cmd[p] /\ orphan'[p] = orphan[p]
    BY <1>1, <1>ApplyFocusPriority DEF ApplyFocusPriority, TypeOK, Goto, locals
  <2>2. MachineInv'
    BY <1>1, <1>ApplyFocusPriority, <2>1 DEF ApplyFocusPriority, MachineInv
  <2>3. ProcessInv(p)'
    BY <1>1, <1>ApplyFocusPriority, <2>1 DEF ApplyFocusPriority, ProcessInv
  <2> QED
    BY <2>2, <2>3
<1>ApplyWifiLatency. CASE ApplyWifiLatency(p)
  <2>1. /\ cmd[p] = "start" /\ pc[p] = "wifi"
        /\ pc'[p] = "persist" /\ cmd'[p] = cmd[p] /\ orphan'[p] = orphan[p]
    BY <1>1, <1>ApplyWifiLatency DEF ApplyWifiLatency, TypeOK, Goto, locals
  <2>2. MachineInv'
    BY <1>1, <1>ApplyWifiLatency, <2>1 DEF ApplyWifiLatency, MachineInv
  <2>3. ProcessInv(p)'
    BY <1>1, <1>ApplyWifiLatency, <2>1 DEF ApplyWifiLatency, ProcessInv
  <2> QED
    BY <2>2, <2>3
<1>WriteFile. CASE WriteFile(p)
  <2>1. /\ cmd[p] = "start" /\ pc[p] = "persist"
        /\ pc'[p] \in {"persist", "enable"} /\ cmd'[p] = cmd[p] /\ orphan'[p] = orphan[p]
    BY <1>1, <1>WriteFile DEF WriteFile, TypeOK, Goto, Loop
  <2>2. MachineInv'
    BY <1>1, <1>WriteFile, <2>1 DEF WriteFile, MachineInv
  <2>3. ProcessInv(p)'
    BY <1>1, <1>WriteFile, <2>1 DEF WriteFile, ProcessInv
  <2> QED
    BY <2>2, <2>3
<1>Enable. CASE Enable(p)
  <2>1. /\ cmd[p] = "start" /\ pc[p] = "enable"
        /\ pc'[p] = "mark" /\ cmd'[p] = cmd[p] /\ orphan'[p] = orphan[p]
    BY <1>1, <1>Enable DEF Enable, TypeOK, Goto, locals
  <2>2. MachineInv'
    BY <1>1, <1>Enable, <2>1 DEF Enable, MachineInv
  <2>3. ProcessInv(p)'
    BY <1>1, <1>Enable, <2>1 DEF Enable, ProcessInv
  <2> QED
    BY <2>2, <2>3
<1>Mark. CASE Mark(p)
  <2>1. /\ cmd[p] = "start" /\ pc[p] = "mark"
        /\ pc'[p] = "dns" /\ cmd'[p] = cmd[p] /\ orphan'[p] = orphan[p]
    BY <1>1, <1>Mark DEF Mark, TypeOK, Goto, locals
  <2>2. MachineInv'
    BY <1>1, <1>Mark DEF Mark
  <2>3. ProcessInv(p)'
    BY <1>1, <1>Mark, <2>1 DEF Mark
  <2> QED
    BY <2>2, <2>3
<1>ApplyDns. CASE ApplyDns(p)
  <2>1. /\ cmd[p] = "start" /\ pc[p] = "dns"
        /\ pc'[p] = "truncate" /\ cmd'[p] = cmd[p] /\ orphan'[p] = orphan[p]
    BY <1>1, <1>ApplyDns DEF ApplyDns, TypeOK, Goto, locals
  <2>2. MachineInv'
    BY <1>1, <1>ApplyDns, <2>1 DEF ApplyDns, MachineInv
  <2>3. ProcessInv(p)'
    BY <1>1, <1>ApplyDns, <2>1 DEF ApplyDns, ProcessInv
  <2> QED
    BY <2>2, <2>3
<1>TruncateState. CASE TruncateState(p)
  <2>1. /\ \/ cmd[p] = "start" /\ pc[p] = "truncate" /\ pc'[p] = "activate"
           \/ cmd[p] = "stop" /\ pc[p] = "retruncate" /\ pc'[p] = "inactive"
        /\ cmd'[p] = cmd[p] /\ orphan'[p] = orphan[p]
    BY <1>1, <1>TruncateState DEF TruncateState, TypeOK, Goto, locals
  <2>2. MachineInv'
    BY <1>1, <1>TruncateState, <2>1 DEF TruncateState
  <2>3. ProcessInv(p)'
    BY <1>1, <1>TruncateState, <2>1 DEF TruncateState
  <2> QED
    BY <2>2, <2>3
<1>Activate. CASE Activate(p)
  BY <1>Activate, ExitPreserves
<1> QED
  BY <1>ReadSysctls, <1>CreateBackup, <1>WriteBackup, <1>TuneKey, <1>ApplyFocusPriority,
     <1>ApplyWifiLatency, <1>WriteFile, <1>Enable, <1>Mark, <1>ApplyDns, <1>TruncateState,
     <1>Activate
  DEF StartStep

(* Optimizer::revert. *)
LEMMA RevertPreserves ==
    ASSUME Settled, Serialized, NEW p \in Procs, RevertStep(p)
    PROVE  MachineInv' /\ ProcessInv(p)'
<1> USE DEF At, Keys, Pristine, Values, Unsaved, Recorded, Detached, Untuned, NothingTuned,
            IsActive, PersistencePresent, KeyRestored, SameRun, disk, boot, live,
            Saving, Applying, Withdrawing, Restoring, Cleaning, MachineInv, ProcessInv,
            BackupWhole, TuningRecorded, StopNeverRefused, NoReturnAfterRevert,
            StepOfCommand, StartBegins, StartTunes, StopWithdraws,
            StopRestores, CleanerMeetsNothing
<1>1. TypeOK /\ ControlOK /\ MachineInv /\ ProcessInv(p)
  BY DEF Settled
<1>idx. idx[p] \in Nat \ {0} /\ NumKeys \in Nat
  BY <1>1, NumKeysAssumption DEF TypeOK
<1>LoadBackup. CASE LoadBackup(p)
  <2>1. cmd[p] = "stop" /\ pc[p] = "load" /\ "sysctl_backup" \in store
    BY <1>1, <1>LoadBackup DEF LoadBackup
  <2>7. /\ pc' = [pc EXCEPT ![p] = "restore"] /\ snap' = [snap EXCEPT ![p] = backup]
        /\ UNCHANGED <<cmd, idx, orphan>> /\ reverting' = TRUE
    BY <1>LoadBackup, <2>1 DEF LoadBackup, Goto
  <2>2. /\ pc'[p] = "restore" /\ cmd'[p] = "stop" /\ orphan'[p] = orphan[p]
        /\ idx'[p] = 1 /\ snap'[p] = backup /\ reverting'
    BY <1>1, <2>1, <2>7 DEF TypeOK, ControlOK
  <2>3. UNCHANGED <<disk, boot, live>>
    BY <1>LoadBackup DEF LoadBackup
  <2>4. MachineInv'
    BY <1>1, <2>1, <2>2, <2>3
  <2>5. \A k \in Keys : ~ (k < idx'[p])
    BY <2>2
  <2>6. ProcessInv(p)'
    BY <1>1, <2>1, <2>2, <2>3, <2>5
  <2> QED
    BY <2>4, <2>6
<1>RestoreKey. CASE RestoreKey(p)
  <2>1. /\ cmd[p] = "stop" /\ pc[p] = "restore"
        /\ pc'[p] \in {"restore", "unmark"} /\ cmd'[p] = cmd[p] /\ orphan'[p] = orphan[p]
    BY <1>1, <1>RestoreKey DEF RestoreKey, TypeOK, Goto, Loop
  <2>2. /\ snap'[p] = backup /\ snap[p] = backup
        /\ UNCHANGED <<disk, boot, rules, groups, service, reverting>>
    BY <1>1, <1>RestoreKey, <2>1 DEF RestoreKey
  <2>3. \A k \in Keys :
          kernel'[k] = IF k = idx[p] /\ backup[k] # "" THEN backup[k] ELSE kernel[k]
    BY <1>RestoreKey, <2>2 DEF RestoreKey
  <2>4. \A k \in Keys : k <= idx[p] => KeyRestored(k)'
    <3> SUFFICES ASSUME NEW k \in Keys, k <= idx[p] PROVE KeyRestored(k)'
      OBVIOUS
    <3>0. k \in Nat /\ idx[p] \in Nat
      BY <1>idx
    <3>1. CASE k = idx[p]
      BY <2>2, <2>3, <3>1
    <3>2. CASE k < idx[p]
      <4>1. \A i \in Keys : i < idx[p] => KeyRestored(i)
        BY <1>1, <2>1
      <4>2. KeyRestored(k)
        BY <3>2, <4>1
      <4>3. k # idx[p]
        BY <3>0, <3>2
      <4>4. kernel'[k] = kernel[k]
        BY <2>3, <4>3
      <4> QED
        BY <2>2, <4>2, <4>4
    <3>3. k = idx[p] \/ k < idx[p]
      BY <3>0
    <3> QED
      BY <3>1, <3>2, <3>3
  <2>5. /\ pc'[p] = "restore" => idx'[p] = idx[p] + 1
        /\ pc'[p] = "unmark" => NumKeys <= idx[p]
    <3>1. /\ idx' = [idx EXCEPT ![p] = IF idx[p] < NumKeys THEN idx[p] + 1 ELSE 1]
          /\ pc' = [pc EXCEPT ![p] = IF idx[p] < NumKeys THEN "restore" ELSE "unmark"]
      BY <1>RestoreKey, <2>1 DEF RestoreKey, Loop, Goto
    <3>2. pc \in [Procs -> Steps] /\ idx \in [Procs -> Nat \ {0}]
      BY <1>1 DEF TypeOK
    <3> QED
      BY <1>idx, <3>1, <3>2
  <2>6. MachineInv'
    BY <1>1, <1>RestoreKey, <2>1 DEF RestoreKey
  <2>7. pc'[p] = "unmark" => Untuned' /\ \A k \in Keys : KeyRestored(k)'
    <3> SUFFICES ASSUME pc'[p] = "unmark" PROVE Untuned' /\ \A k \in Keys : KeyRestored(k)'
      OBVIOUS
    <3>1. \A k \in Keys : k <= idx[p]
      BY <1>idx, <2>5
    <3>2. \A k \in Keys : KeyRestored(k)'
      BY <2>4, <3>1
    <3>3. DiskFull \/ \A k \in Keys : /\ backup'[k] # "tuned"
                                      /\ backup'[k] = "" => kernel'[k] # "tuned"
      BY <1>1, <2>2, <2>6
    <3> QED
      BY <3>2, <3>3
  <2>8. pc'[p] = "restore" => \A k \in Keys : k < idx'[p] => KeyRestored(k)'
    <3> SUFFICES ASSUME pc'[p] = "restore", NEW k \in Keys, k < idx'[p] PROVE KeyRestored(k)'
      OBVIOUS
    <3>1. k <= idx[p]
      BY <1>idx, <2>5
    <3> QED
      BY <2>4, <3>1
  <2>9. ProcessInv(p)'
    <3> HIDE DEF KeyRestored, Untuned
    <3> QED
      BY <1>1, <2>1, <2>2, <2>7, <2>8
  <2> QED
    BY <2>6, <2>9
<1>Unconfigure. CASE Unconfigure(p)
  <2>1. /\ cmd[p] = "stop" /\ pc[p] = "unconfigure"
        /\ pc'[p] = "reload" /\ cmd'[p] = cmd[p] /\ orphan'[p] = orphan[p]
    BY <1>1, <1>Unconfigure DEF Unconfigure, TypeOK, Goto, locals
  <2>2. MachineInv'
    BY <1>1, <1>Unconfigure, <2>1 DEF Unconfigure, MachineInv
  <2>3. ProcessInv(p)'
    BY <1>1, <1>Unconfigure, <2>1 DEF Unconfigure, ProcessInv
  <2> QED
    BY <2>2, <2>3
<1>SaveInactive. CASE SaveInactive(p)
  <2>1. /\ cmd[p] = "stop" /\ pc[p] = "inactive"
        /\ pc'[p] = "drop" /\ cmd'[p] = cmd[p] /\ orphan'[p] = orphan[p]
    BY <1>1, <1>SaveInactive DEF SaveInactive, TypeOK, Goto, locals
  <2>2. MachineInv'
    BY <1>1, <1>SaveInactive, <2>1 DEF SaveInactive, MachineInv
  <2>3. ProcessInv(p)'
    BY <1>1, <1>SaveInactive, <2>1 DEF SaveInactive, ProcessInv
  <2> QED
    BY <2>2, <2>3
<1>DropBackup. CASE DropBackup(p)
  <2>1. cmd[p] = "stop" /\ pc[p] = "drop"
    BY <1>1, <1>DropBackup DEF DropBackup
  <2>2. pc'[p] = "enter" /\ cmd'[p] = "clean" /\ orphan'[p] = orphan[p]
    BY <1>1, <1>DropBackup DEF DropBackup, TypeOK, Goto
  <2>3. MachineInv'
    BY <1>1, <1>DropBackup, <2>1 DEF DropBackup
  <2>4. ProcessInv(p)'
    BY <1>1, <1>DropBackup, <2>1, <2>2 DEF DropBackup
  <2> QED
    BY <2>3, <2>4
<1> QED
  BY <1>LoadBackup, <1>RestoreKey, <1>Unconfigure, <1>SaveInactive, <1>DropBackup
  DEF RevertStep

(* The steps that revert and the cleaner share; no leftover brings start here. *)
LEMMA SharedPreserves ==
    ASSUME Settled, Serialized, NEW p \in Procs, SharedStep(p)
    PROVE  MachineInv' /\ ProcessInv(p)'
<1> USE DEF At, Keys, Pristine, Values, Unsaved, Recorded, Detached, Untuned, NothingTuned,
            IsActive, PersistencePresent, KeyRestored, SameRun, disk, boot, live,
            Saving, Applying, Withdrawing, Restoring, Cleaning, MachineInv, ProcessInv,
            BackupWhole, TuningRecorded, StopNeverRefused, NoReturnAfterRevert,
            StepOfCommand, StartBegins, StartTunes, StopWithdraws,
            StopRestores, CleanerMeetsNothing
<1>1. TypeOK /\ ControlOK /\ MachineInv /\ ProcessInv(p)
  BY DEF Settled
<1>idx. idx[p] \in Nat \ {0} /\ NumKeys \in Nat
  BY <1>1, NumKeysAssumption DEF TypeOK
<1>Unmark. CASE Unmark(p)
  <2>1. /\ cmd[p] \in {"stop", "clean"} /\ pc[p] = "unmark"
        /\ pc'[p] \in {"unmark", "ungroup"} /\ cmd'[p] = cmd[p] /\ orphan'[p] = orphan[p]
    BY <1>1, <1>Unmark DEF Unmark, TypeOK, Goto, locals
  <2>2. /\ rules' \subseteq rules
        /\ pc'[p] = "ungroup" => rules' = {}
    BY <1>1, <1>Unmark, <2>1 DEF Unmark, Goto, TypeOK
  <2>3. UNCHANGED <<disk, boot, kernel, groups, service, reverting>>
    BY <1>Unmark DEF Unmark
  <2>4. MachineInv'
    BY <1>1, <2>2, <2>3
  <2>5. ProcessInv(p)'
    BY <1>1, <2>1, <2>2, <2>3
  <2> QED
    BY <2>4, <2>5
<1>Ungroup. CASE Ungroup(p)
  <2>1. /\ pc[p] = "ungroup" /\ cmd'[p] = cmd[p] /\ orphan'[p] = orphan[p]
        /\ \/ cmd[p] = "stop" /\ pc'[p] = "unconfigure"
           \/ cmd[p] = "clean" /\ pc'[p] = "stop_service"
    <3>1. cmd[p] = "stop" \/ cmd[p] = "clean"
      BY <1>1, <1>Ungroup DEF Ungroup
    <3>2. AfterUngroup["stop"] = "unconfigure" /\ AfterUngroup["clean"] = "stop_service"
      BY DEF AfterUngroup
    <3> QED
      BY <1>1, <1>Ungroup, <3>1, <3>2 DEF Ungroup, TypeOK, Goto, locals
  <2>2. rules = {}
    BY <1>1, <2>1
  <2>3. /\ "sysctl_backup" \in store' <=> "sysctl_backup" \in store
        /\ UNCHANGED <<state, backup, boot, kernel, rules, service, reverting>>
    BY <1>Ungroup DEF Ungroup
  <2>4. MachineInv'
    BY <1>1, <2>2, <2>3
  <2>5. ProcessInv(p)'
    BY <1>1, <2>1, <2>2, <2>3
  <2> QED
    BY <2>4, <2>5
<1>StopService. CASE StopService(p)
  <2>1. /\ cmd'[p] = cmd[p] /\ orphan'[p] = orphan[p]
        /\ UNCHANGED <<disk, boot, kernel, rules, groups, reverting>>
    BY <1>1, <1>StopService DEF StopService, locals
  <2>2. \/ cmd[p] = "stop" /\ pc[p] \in {"halt", "stop_service"}
        \/ cmd[p] = "clean" /\ pc[p] = "stop_service"
    BY <1>1, <1>StopService DEF StopService
  <2>3. CASE service = "running" /\ service' = "stopping" /\ UNCHANGED pc
    <3>1. MachineInv'
      BY <1>1, <2>1, <2>3
    <3>2. ProcessInv(p)'
      BY <1>1, <2>1, <2>2, <2>3
    <3> QED
      BY <3>1, <3>2
  <2>4. CASE service' = "off" /\ Goto(p, IF At(p, "halt") THEN "stop_service" ELSE "disable")
    <3>1. \/ cmd[p] = "stop" /\ pc[p] = "halt" /\ pc'[p] = "stop_service"
          \/ cmd[p] \in {"stop", "clean"} /\ pc[p] = "stop_service" /\ pc'[p] = "disable"
      BY <1>1, <2>2, <2>4 DEF TypeOK, Goto
    <3>2. MachineInv'
      BY <1>1, <2>1, <2>4
    <3>3. ProcessInv(p)'
      BY <1>1, <2>1, <2>4, <3>1
    <3> QED
      BY <3>2, <3>3
  <2> QED
    BY <1>StopService, <2>3, <2>4 DEF StopService
<1>Disable. CASE Disable(p)
  <2>1. /\ cmd[p] \in {"stop", "clean"} /\ pc[p] = "disable"
        /\ pc'[p] = "files" /\ cmd'[p] = cmd[p] /\ orphan'[p] = orphan[p]
    BY <1>1, <1>Disable DEF Disable, TypeOK, Goto, locals
  <2>2. idx'[p] = 1 /\ ~enabled'
    BY <1>1, <1>Disable, <2>1 DEF Disable, ControlOK, locals
  <2>3. MachineInv'
    BY <1>1, <1>Disable DEF Disable
  <2>4. \A i \in DOMAIN RemovalOrder : ~ (i < idx'[p])
    BY <2>2 DEF RemovalOrder
  <2>5. ProcessInv(p)'
    BY <1>1, <1>Disable, <2>1, <2>2, <2>4 DEF Disable
  <2> QED
    BY <2>3, <2>5
<1>RemoveFile. CASE RemoveFile(p)
  <2>1. cmd[p] \in {"stop", "clean"} /\ pc[p] = "files" /\ cmd'[p] = cmd[p] /\ orphan'[p] = orphan[p]
    BY <1>1, <1>RemoveFile DEF RemoveFile
  <2>2. Len(RemovalOrder) = 7 /\ DOMAIN RemovalOrder = 1..7
    BY DEF RemovalOrder
  <2>3. \/ pc'[p] = "files" /\ idx'[p] = idx[p] + 1
        \/ 7 <= idx[p] /\ pc'[p] = IF cmd[p] = "stop" THEN "load" ELSE "reload"
    <3>1. /\ idx' = [idx EXCEPT ![p] = IF idx[p] < 7 THEN idx[p] + 1 ELSE 1]
          /\ pc' = [pc EXCEPT ![p] = IF idx[p] < 7 THEN "files" ELSE AfterFiles(p)]
      BY <1>RemoveFile, <2>1, <2>2 DEF RemoveFile, Loop, Goto
    <3>2. AfterFiles(p) = IF cmd[p] = "stop" THEN "load" ELSE "reload"
      BY <1>1, <2>1 DEF AfterFiles
    <3>3. pc \in [Procs -> Steps] /\ idx \in [Procs -> Nat \ {0}]
      BY <1>1 DEF TypeOK
    <3> QED
      BY <1>idx, <3>1, <3>2, <3>3
  <2>4. /\ etc' \subseteq etc
        /\ UNCHANGED <<disk, enabled, live, reverting>>
    BY <1>RemoveFile DEF RemoveFile
  <2>5. \A i \in DOMAIN RemovalOrder : i <= idx[p] => RemovalOrder[i] \notin etc'
    <3> SUFFICES ASSUME NEW i \in DOMAIN RemovalOrder, i <= idx[p]
                 PROVE  RemovalOrder[i] \notin etc'
      OBVIOUS
    <3>1. etc' = etc \ {RemovalOrder[idx[p]]}
      BY <1>RemoveFile DEF RemoveFile
    <3>2. CASE i = idx[p]
      BY <3>1, <3>2
    <3>3. CASE i < idx[p]
      BY <1>1, <2>1, <3>1, <3>3
    <3> QED
      BY <1>idx, <2>2, <3>2, <3>3
  <2>6. MachineInv'
    BY <1>1, <2>4
  <2>7. CASE pc'[p] = "files"
    <3>1. \A i \in DOMAIN RemovalOrder : i < idx'[p] => RemovalOrder[i] \notin etc'
      BY <1>idx, <2>1, <2>2, <2>3, <2>5, <2>7
    <3>2. ProcessInv(p)'
      BY <1>1, <2>1, <2>4, <2>7, <3>1
    <3> QED
      BY <2>6, <3>2
  <2>8. CASE pc'[p] # "files"
    <3>1. \A i \in DOMAIN RemovalOrder : RemovalOrder[i] \notin etc'
      BY <1>idx, <2>2, <2>3, <2>5, <2>8
    <3>2. etc' = {}
      <4>1. etc' \subseteq EtcFiles
        BY <1>1, <2>4 DEF TypeOK
      <4>2. \A i \in 1..7 : RemovalOrder[i] \notin etc'
        BY <2>2, <3>1
      <4>3. {"unit", "sysctl", "modules", "nm", "resolved", "script", "etcdir"} \cap etc' = {}
        BY <4>2 DEF RemovalOrder
      <4> QED
        BY <4>1, <4>3 DEF EtcFiles
    <3>3. ProcessInv(p)'
      BY <1>1, <2>1, <2>3, <2>4, <2>8, <3>2
    <3> QED
      BY <2>6, <3>3
  <2> QED
    BY <2>7, <2>8
<1>RestoreDefault. CASE RestoreDefault(p)
  BY <1>1, <1>RestoreDefault DEF RestoreDefault
<1>Reload. CASE Reload(p)
  <2>1. /\ pc[p] = "reload" /\ cmd'[p] = cmd[p] /\ orphan'[p] = orphan[p]
        /\ \/ cmd[p] = "stop" /\ pc'[p] = "retruncate"
           \/ cmd[p] = "clean" /\ pc'[p] = "purge"
    <3>1. cmd[p] = "stop" \/ cmd[p] = "clean"
      BY <1>1, <1>Reload DEF Reload
    <3>2. AfterReload["stop"] = "retruncate" /\ AfterReload["clean"] = "purge"
      BY DEF AfterReload
    <3> QED
      BY <1>1, <1>Reload, <3>1, <3>2 DEF Reload, TypeOK, Goto, locals
  <2>2. Untuned /\ etc = {}
    BY <1>1, <2>1
  <2>3. \A k \in Keys : \/ kernel'[k] = kernel[k]
                        \/ k \in Configured /\ kernel'[k] = "stock"
    BY <1>1, <1>Reload, <2>2 DEF Reload, SysctlFilesApplied, TypeOK
  <2>4. UNCHANGED <<disk, boot, rules, groups, service, reverting>>
    BY <1>Reload DEF Reload
  <2>5. MachineInv'
    BY <1>1, <2>2, <2>3, <2>4
  <2>6. Untuned'
    BY <2>2, <2>3
  <2>7. cmd[p] = "stop" => \A k \in Keys : KeyRestored(k)'
    BY <1>1, <2>1, <2>3, <2>4
  <2>8. ProcessInv(p)'
    <3> HIDE DEF KeyRestored, Untuned
    <3> QED
      BY <1>1, <2>1, <2>4, <2>6, <2>7
  <2> QED
    BY <2>5, <2>8
<1> QED
  BY <1>Unmark, <1>Ungroup, <1>StopService, <1>Disable, <1>RemoveFile, <1>RestoreDefault,
     <1>Reload
  DEF SharedStep

(* Cleaner::run. *)
LEMMA CleanPreserves ==
    ASSUME Settled, Serialized, NEW p \in Procs, CleanStep(p)
    PROVE  MachineInv' /\ ProcessInv(p)'
<1> USE DEF At, Keys, Pristine, Values, Unsaved, Recorded, Detached, Untuned, NothingTuned,
            IsActive, PersistencePresent, KeyRestored, SameRun, disk, boot, live,
            Saving, Applying, Withdrawing, Restoring, Cleaning, MachineInv, ProcessInv,
            BackupWhole, TuningRecorded, StopNeverRefused, NoReturnAfterRevert,
            StepOfCommand, StartBegins, StartTunes, StopWithdraws,
            StopRestores, CleanerMeetsNothing
<1>1. TypeOK /\ ControlOK /\ MachineInv /\ ProcessInv(p)
  BY DEF Settled
<1>idx. idx[p] \in Nat \ {0} /\ NumKeys \in Nat
  BY <1>1, NumKeysAssumption DEF TypeOK
<1>EnterCleaner. CASE EnterCleaner(p)
  <2>1. /\ cmd[p] = "clean" /\ pc[p] = "enter"
        /\ pc'[p] = "pkill" /\ cmd'[p] = cmd[p]
    BY <1>1, <1>EnterCleaner DEF EnterCleaner, TypeOK, Goto, locals
  <2>2. ~PersistencePresent
    BY <1>1, <2>1
  <2>3. ~orphan'[p] /\ UNCHANGED <<disk, boot, live, reverting>>
    BY <1>1, <1>EnterCleaner, <2>2 DEF EnterCleaner, TypeOK
  <2>4. MachineInv'
    BY <1>1, <2>3
  <2>5. ProcessInv(p)'
    BY <1>1, <2>1, <2>3
  <2> QED
    BY <2>4, <2>5
<1>Pkill. CASE Pkill(p)
  <2>1. /\ cmd[p] = "clean" /\ pc[p] = "pkill"
        /\ pc'[p] = "unmark" /\ cmd'[p] = cmd[p] /\ orphan'[p] = orphan[p]
    BY <1>1, <1>Pkill DEF Pkill, TypeOK, Goto, locals
  <2>2. MachineInv'
    BY <1>1, <1>Pkill, <2>1 DEF Pkill, MachineInv
  <2>3. ProcessInv(p)'
    BY <1>1, <1>Pkill, <2>1 DEF Pkill, ProcessInv
  <2> QED
    BY <2>2, <2>3
<1>Purge. CASE Purge(p)
  BY <1>Purge, ExitPreserves
<1> QED
  BY <1>EnterCleaner, <1>Pkill, <1>Purge DEF CleanStep

(* The service and the machine. *)
LEMMA MachinePreserves ==
    ASSUME Settled, TypeInv', ServiceStep \/ Reboot
    PROVE  Settled'
<1> USE DEF At, Keys, Pristine, Unsaved, Recorded, Detached, Untuned, NothingTuned,
            IsActive, PersistencePresent, disk, boot
<1>1. /\ TypeOK /\ ControlOK /\ OneAtATime /\ MachineInv
      /\ \A p \in Procs : ProcessInv(p)
  BY DEF Settled
<1>2. TypeOK' /\ ControlOK'
  BY DEF TypeInv
<1>3. CASE ServiceStep
  <2>1. service # "off" /\ Recorded
    BY <1>1, <1>3
    DEF ServiceStep, ServiceGroups, ServiceRules, ServiceExec, DaemonTune, DaemonExit,
        DaemonCrash, MachineInv, TuningRecorded
  <2>2. UNCHANGED <<pc, locals, disk, boot, reverting>>
    BY <1>3
    DEF ServiceStep, ServiceGroups, ServiceRules, ServiceExec, DaemonTune, DaemonExit,
        DaemonCrash
  <2>3. OneAtATime' /\ MachineInv'
    BY <1>1, <2>1, <2>2
    DEF OneAtATime, MachineInv, BackupWhole, TuningRecorded, StopNeverRefused,
        NoReturnAfterRevert
  <2>4. ASSUME NEW p \in Procs PROVE ProcessInv(p)'
    <3>1. ProcessInv(p)
      BY <1>1
    <3>2. cmd[p] = "clean" => FALSE
      BY <2>1, <3>1 DEF ProcessInv, CleanerMeetsNothing
    <3>3. ~ (cmd[p] = "stop" /\ pc[p] \in Restoring) /\ pc[p] \notin Saving
      BY <2>1, <3>1 DEF ProcessInv, StopRestores, StartBegins
    <3>4. pc[p] \notin {"disable", "files"}
      BY <2>1, <3>1 DEF ProcessInv, StopWithdraws
    <3> QED
      BY <2>1, <2>2, <3>1, <3>2, <3>3, <3>4
      DEF ProcessInv, StepOfCommand, StartBegins, StartTunes, StopWithdraws,
          StopRestores, CleanerMeetsNothing, locals
  <2> QED
    BY <1>2, <2>3, <2>4 DEF Settled
<1>4. CASE Reboot
  <2>1. /\ \A p \in Procs : pc'[p] = "idle" /\ cmd'[p] = "none" /\ ~orphan'[p]
        /\ UNCHANGED <<disk, boot, reverting>>
    BY <1>4 DEF Reboot
  <2>2. NothingTuned' \/ "sysctl" \in etc
    BY <1>4 DEF Reboot
  <2>3. service' = "off" \/ enabled
    BY <1>4 DEF Reboot
  <2>4. OneAtATime' /\ \A p \in Procs : ProcessInv(p)'
    BY <2>1, IdleInv DEF OneAtATime
  <2>5. MachineInv'
    BY <1>1, <2>1, <2>2, <2>3
    DEF MachineInv, BackupWhole, TuningRecorded, StopNeverRefused, NoReturnAfterRevert
  <2> QED
    BY <1>2, <2>4, <2>5 DEF Settled
<1> QED
  BY <1>3, <1>4

(* Settled is inductive, whatever the disk loses. *)
LEMMA SettledPreserved ==
    ASSUME Serialized, Settled, [Next]_vars
    PROVE  Settled'
<1>1. TypeInv'
  BY NextTyped DEF Settled, TypeInv
<1>2. CASE UNCHANGED vars
  <2> USE <1>2 DEF vars, locals, disk, boot, live
  <2>1. OneAtATime' /\ MachineInv'
    BY DEF Settled, OneAtATime, At, MachineInv, BackupWhole, Recorded, TuningRecorded,
           Untuned, NothingTuned, Detached, PersistencePresent, StopNeverRefused,
           IsActive, NoReturnAfterRevert
  <2>2. ASSUME NEW p \in Procs PROVE ProcessInv(p)'
    <3>1. ProcessInv(p)
      BY DEF Settled
    <3> QED
      BY <3>1
      DEF ProcessInv, At, StepOfCommand, StartBegins, StartTunes, StopWithdraws,
          StopRestores, CleanerMeetsNothing, KeyRestored, Recorded, Untuned,
          NothingTuned, Detached, PersistencePresent, IsActive
  <2> QED
    BY <1>1, <2>1, <2>2 DEF Settled, TypeInv
<1>3. ASSUME NEW p \in Procs, UserStep(p) \/ ProgramStep(p) \/ Kill(p) PROVE Settled'
  <2>1. MachineInv' /\ ProcessInv(p)'
    BY <1>3, UserPreserves, StartPreserves, RevertPreserves, SharedPreserves,
       CleanPreserves, ExitPreserves
    DEF ProgramStep
  <2>2. OneAtATime' /\ \A q \in Procs \ {p} : ProcessInv(q)'
    BY <1>3, OthersKept
  <2> QED
    BY <1>1, <2>1, <2>2 DEF Settled, TypeInv
<1>4. CASE Next
  BY <1>1, <1>3, <1>4, MachinePreserves DEF Next, Working, Interruption
<1> QED
  BY <1>2, <1>4

(* Whoever takes the groups away has taken the rules away before. *)
LEMMA GroupsKept ==
    ASSUME Settled, TierRulesHaveGroups, [Next]_vars
    PROVE  TierRulesHaveGroups'
<1> USE DEF TierRulesHaveGroups, live
<1>1. ASSUME UNCHANGED groups, \E added \in SUBSET Markable : rules' = rules \cup added
      PROVE  TierRulesHaveGroups'
  BY <1>1 DEF Markable
<1>2. CASE UNCHANGED <<rules, groups>>
  BY <1>2
<1>3. ASSUME NEW p \in Procs, Ungroup(p) PROVE rules' = {}
  <2>1. ProcessInv(p) /\ At(p, "ungroup")
    BY <1>3 DEF Settled, Ungroup
  <2>2. rules = {}
    BY <2>1
    DEF ProcessInv, StepOfCommand, StopRestores, CleanerMeetsNothing, At, Saving,
        Applying, Withdrawing, Restoring, Cleaning
  <2> QED
    BY <1>3, <2>2 DEF Ungroup
<1>4. ASSUME NEW p \in Procs, UserStep(p) \/ ProgramStep(p) \/ Kill(p)
      PROVE  TierRulesHaveGroups'
  <2>1. CASE UserStep(p) \/ Kill(p)
    BY <2>1
    DEF UserStep, Invoke, InvokeStart, InvokeStop, InvokeClean, Abort, ConfirmStart,
        ConfirmStop, Kill
  <2>2. CASE Mark(p)
    BY <1>1, <2>2 DEF Mark
  <2>3. CASE ApplyFocusPriority(p)
    BY <2>3 DEF ApplyFocusPriority
  <2>4. CASE StartStep(p) /\ ~Mark(p) /\ ~ApplyFocusPriority(p)
    <3>1. CASE Activate(p) \/ TruncateState(p)
      BY Zenon, <1>2, <3>1 DEF Activate, TruncateState
    <3>2. CASE ReadSysctls(p) \/ CreateBackup(p) \/ WriteBackup(p) \/ TuneKey(p)
      BY <3>2 DEF ReadSysctls, CreateBackup, WriteBackup, TuneKey
    <3>3. CASE ApplyWifiLatency(p) \/ WriteFile(p) \/ Enable(p) \/ ApplyDns(p)
      BY <3>3 DEF ApplyWifiLatency, WriteFile, Enable, ApplyDns
    <3> QED
      BY <2>4, <3>1, <3>2, <3>3 DEF StartStep
  <2>5. CASE RevertStep(p)
    <3>1. CASE SaveInactive(p)
      BY Zenon, <1>2, <3>1 DEF SaveInactive
    <3>2. CASE LoadBackup(p) \/ RestoreKey(p) \/ Unconfigure(p) \/ DropBackup(p)
      BY <3>2 DEF LoadBackup, RestoreKey, Unconfigure, DropBackup
    <3> QED
      BY <2>5, <3>1, <3>2 DEF RevertStep
  <2>6. CASE SharedStep(p)
    BY <1>3, <2>6
    DEF SharedStep, Unmark, StopService, Disable, RemoveFile, RestoreDefault, Reload
  <2>7. CASE CleanStep(p)
    BY <2>7 DEF CleanStep, EnterCleaner, Pkill, Purge
  <2> QED
    BY <1>4, <2>1, <2>2, <2>3, <2>4, <2>5, <2>6, <2>7 DEF ProgramStep
<1>5. CASE ServiceStep
  <2>1. CASE ServiceRules
    BY <1>1, <2>1 DEF ServiceRules
  <2>2. CASE ServiceGroups \/ ServiceExec \/ DaemonTune \/ DaemonExit \/ DaemonCrash
    BY <2>2 DEF ServiceGroups, ServiceExec, DaemonTune, DaemonExit, DaemonCrash
  <2> QED
    BY <1>5, <2>1, <2>2 DEF ServiceStep
<1>6. CASE Reboot
  BY <1>6 DEF Reboot
<1>7. CASE UNCHANGED vars
  BY <1>7 DEF vars
<1> QED
  BY <1>4, <1>5, <1>6, <1>7 DEF Next, Working, Interruption

(* IInv holds on a machine betterconn has never touched. *)
LEMMA InitialInvariant == Init => IInv
<1> SUFFICES ASSUME Init PROVE IInv
  OBVIOUS
<1>1. TypeInv
  BY InitTyped
<1>2. OneAtATime /\ \A p \in Procs : At(p, "idle") /\ cmd[p] = "none" /\ ~orphan[p]
  BY DEF Init, NoRun, OneAtATime, At
<1>3. MachineInv /\ TierRulesHaveGroups
  BY DEF Init, EmptyStorage, MachineInv, BackupWhole, TuningRecorded, Untuned,
         NothingTuned, Detached, PersistencePresent, StopNeverRefused, IsActive,
         NoReturnAfterRevert, TierRulesHaveGroups, Keys, Unsaved
<1>4. \A p \in Procs : ProcessInv(p)
  BY <1>2
  DEF ProcessInv, StepOfCommand, StartBegins, StartTunes, StopWithdraws, StopRestores,
      CleanerMeetsNothing, At, Saving, Applying, Restoring
<1> QED
  BY <1>1, <1>2, <1>3, <1>4 DEF IInv, Settled, TypeInv

(* In every reachable state each command stands where its part of the source *)
(* says it may stand, and the disk holds what undoes the tuning in force:    *)
(* the invariant all the safety properties of Lifecycle follow from.         *)
THEOREM LifecycleInvariant ==
    ASSUME Serialized
    PROVE  Spec => []IInv
<1>1. Init => IInv
  BY InitialInvariant
<1>2. IInv /\ [Next]_vars => IInv'
  BY SettledPreserved, GroupsKept DEF IInv
<1> QED
  BY <1>1, <1>2, PTL DEF Spec

-----------------------------------------------------------------------------
(* What Settled says of the properties the runs check: what is on the disk   *)
(* ... *)
LEMMA SettledIsOrderly == Settled => StopNeverRefused /\ NoReturnAfterRevert
BY DEF Settled, MachineInv

(* ... and, where that is what was written to it, the values.                *)
LEMMA SettledIsSafe ==
    ASSUME Settled, ~DiskFull
    PROVE  /\ BaselinePristine /\ TuningIsRecoverable
           /\ RevertRestores /\ CleanLeavesNothing
<1>1. BaselinePristine
  BY DEF Settled, MachineInv, BackupWhole, BaselinePristine, Unsaved, Recorded, Pristine
<1>2. TuningIsRecoverable
  BY DEF Settled, MachineInv, TuningRecorded, TuningIsRecoverable, Untuned,
         NothingTuned, Detached, Recorded
<1>3. RevertRestores
  <2> SUFFICES ASSUME NEW p \in Procs, At(p, "drop")
               PROVE  /\ NothingTuned /\ \A k \in Keys : KeyRestored(k)
                      /\ rules = {} /\ service = "off" /\ Detached
    BY DEF RevertRestores, KeyRestored, Detached
  <2>1. ProcessInv(p)
    BY DEF Settled
  <2>2. cmd[p] = "stop"
    BY <2>1 DEF ProcessInv, StepOfCommand, At, Saving, Applying, Cleaning
  <2> QED
    BY <2>1, <2>2 DEF ProcessInv, StopRestores, At, Restoring, Untuned
<1>4. CleanLeavesNothing
  <2> SUFFICES ASSUME NEW p \in Procs, At(p, "purge")
               PROVE  NothingTuned /\ rules = {} /\ service = "off" /\ Detached
    BY DEF CleanLeavesNothing, Detached
  <2>1. ProcessInv(p) /\ TuningRecorded
    BY DEF Settled, MachineInv
  <2>2. cmd[p] = "clean"
    BY <2>1 DEF ProcessInv, StepOfCommand, At, Saving, Applying, Withdrawing, Restoring
  <2> QED
    BY <2>1, <2>2
    DEF ProcessInv, CleanerMeetsNothing, At, TuningRecorded, Recorded, IsActive, Untuned
<1> QED
  BY <1>1, <1>2, <1>3, <1>4

(* Commands are typed one at a time from here on; they may be killed at any  *)
(* step, and the machine may go down.  The first three hold of any disk.     *)

(* Whoever is told that betterconn is active can run stop: a backup is there. *)
THEOREM StopIsNeverRefused ==
    ASSUME Serialized
    PROVE  Spec => []StopNeverRefused
BY LifecycleInvariant, SettledIsOrderly, PTL DEF IInv

(* A revert that failed half-way is not undone by the next boot.             *)
THEOREM RevertIsFinal ==
    ASSUME Serialized
    PROVE  Spec => []NoReturnAfterRevert
BY LifecycleInvariant, SettledIsOrderly, PTL DEF IInv

(* A tier rule never outlives its group, whoever made the groups and in which *)
(* order the commands and the service take them away.                        *)
THEOREM TierRulesFollowGroups ==
    ASSUME Serialized
    PROVE  Spec => []TierRulesHaveGroups
BY LifecycleInvariant, PTL DEF IInv

(* apply() never takes a value of betterconn's for the machine's own, however *)
(* the run before it ended.                                                  *)
THEOREM BaselineStaysPristine ==
    ASSUME Serialized, ~DiskFull
    PROVE  Spec => []BaselinePristine
BY LifecycleInvariant, SettledIsSafe, PTL DEF IInv

(* Tuning never outlives the backup that undoes it, nor does what would tune *)
(* the machine again.                                                        *)
THEOREM TuningStaysRecoverable ==
    ASSUME Serialized, ~DiskFull
    PROVE  Spec => []TuningIsRecoverable
BY LifecycleInvariant, SettledIsSafe, PTL DEF IInv

(* stop leaves the machine as start found it, also after a start or a stop   *)
(* that was cut short.                                                       *)
THEOREM StopRestoresMachine ==
    ASSUME Serialized, ~DiskFull
    PROVE  Spec => []RevertRestores
BY LifecycleInvariant, SettledIsSafe, PTL DEF IInv

(* What the cleaner says of the machine is true: nothing of betterconn is in *)
(* force or would come back.                                                 *)
THEOREM CleanRemovesEverything ==
    ASSUME Serialized, ~DiskFull
    PROVE  Spec => []CleanLeavesNothing
BY LifecycleInvariant, SettledIsSafe, PTL DEF IInv

-----------------------------------------------------------------------------
(* A machine with leftovers, until start or clean is through with their      *)
(* removal.                                                                  *)

Resetting == {
    "unmark", "ungroup", "stop_service", "disable", "files", "defaults", "reload" }

(* The steps at which the leftover files are gone. *)
Emptied == {"defaults", "reload", "purge"}

(* The cleaner knows of them, and service, unit, files and sysctls go in turn. *)
RemovalInv(p) ==
    /\ \/ At(p, "idle")
       \/ cmd[p] = "start" /\ pc[p] \in {"confirm"} \cup Resetting
       \/ cmd[p] = "clean" /\ pc[p] \in {"enter", "pkill", "purge"} \cup Resetting
    /\ orphan[p] <=> cmd[p] = "clean" /\ ~At(p, "enter")
    /\ pc[p] \in {"disable", "files"} \cup Emptied => service = "off"
    /\ pc[p] \in {"files"} \cup Emptied => ~enabled
    /\ At(p, "files") =>
         \A i \in DOMAIN RemovalOrder : i < idx[p] => RemovalOrder[i] \notin etc
    /\ pc[p] \in Emptied => etc = {}
    /\ At(p, "defaults") => \A k \in Keys : k < idx[p] => kernel[k] # "tuned"
    /\ pc[p] \in {"reload", "purge"} => NothingTuned

(* Nothing is on record, the daemon does not come up, and whoever looks finds *)
(* the files: /etc/betterconn is the last of them to go.                      *)
Leftovers ==
    /\ TypeOK /\ ControlOK
    /\ OneAtATime
    /\ EmptyStorage /\ ~reverting
    /\ service \notin {"running", "stopping"}
    /\ "etcdir" \in etc \/ \E p \in Procs : pc[p] \in Emptied
    /\ \A p \in Procs : RemovalInv(p)

(* What Leftovers says when only process p may run. *)
LeftoversOf(p) ==
    /\ EmptyStorage /\ ~reverting
    /\ service \notin {"running", "stopping"}
    /\ "etcdir" \in etc \/ pc[p] \in Emptied
    /\ RemovalInv(p)

(* What Settled says of it. *)
SettledOf(p) == MachineInv /\ ProcessInv(p)

(* The machine is as the last step left it, but for the process. *)
LEMMA LeftoversAtRest ==
    ASSUME NEW p \in Procs, LeftoversOf(p), "etcdir" \in etc,
           UNCHANGED <<store, state, backup, boot, kernel, service, reverting>>,
           pc'[p] = "idle", cmd'[p] = "none", ~orphan'[p]
    PROVE  LeftoversOf(p)'
BY DEF LeftoversOf, EmptyStorage, Unsaved, RemovalInv, At, Emptied, boot

(* Typing and confirming a command: betterconn is not active. *)
LEMMA LeftoversUser ==
    ASSUME TypeOK, ControlOK, NEW p \in Procs, LeftoversOf(p), UserStep(p)
    PROVE  LeftoversOf(p)'
<1> USE DEF LeftoversOf, EmptyStorage, RemovalInv, At, Resetting, Emptied, IsActive,
            disk, boot, live
<1>1. CASE InvokeStart(p) \/ InvokeStop(p) \/ InvokeClean(p)
  <2>1. /\ pc[p] = "idle" /\ cmd[p] = "none" /\ UNCHANGED <<disk, boot, live, reverting>>
        /\ orphan'[p] = orphan[p]
        /\ \/ cmd'[p] = "start" /\ pc'[p] = "confirm"
           \/ cmd'[p] = "clean" /\ pc'[p] = "enter"
    BY <1>1 DEF InvokeStart, InvokeStop, InvokeClean, Invoke, Goto, TypeOK, ControlOK
  <2> QED
    BY <2>1
<1>2. CASE Abort(p)
  <2>1. /\ pc'[p] = "idle" /\ cmd'[p] = "none" /\ ~orphan'[p]
        /\ "etcdir" \in etc /\ UNCHANGED <<disk, boot, live, reverting>>
    BY <1>2 DEF Abort, Exit, Goto, TypeOK
  <2> QED
    BY <2>1, LeftoversAtRest
<1>3. CASE ConfirmStart(p) \/ ConfirmStop(p)
  <2>1. /\ cmd'[p] = "start" /\ pc'[p] = "unmark" /\ orphan'[p] = orphan[p]
        /\ cmd[p] = "start" /\ pc[p] = "confirm"
        /\ UNCHANGED <<disk, boot, live, reverting>>
    BY <1>3 DEF ConfirmStart, ConfirmStop, Goto, PersistencePresent, TypeOK, locals
  <2> QED
    BY <2>1
<1> QED
  BY <1>1, <1>2, <1>3 DEF UserStep

(* The steps of the cleaner that start does not take. *)
LEMMA LeftoversClean ==
    ASSUME TypeOK, ControlOK, NEW p \in Procs, LeftoversOf(p), CleanStep(p)
    PROVE  LeftoversOf(p)' \/ SettledOf(p)'
<1> USE DEF EmptyStorage, RemovalInv, At, Resetting, Emptied, disk, boot, live
<1>1. CASE EnterCleaner(p)
  <2>1. /\ cmd'[p] = "clean" /\ pc'[p] = "pkill" /\ orphan'[p]
        /\ cmd[p] = "clean" /\ pc[p] = "enter"
        /\ UNCHANGED <<disk, boot, live, reverting>>
    BY <1>1 DEF EnterCleaner, Goto, PersistencePresent, TypeOK, LeftoversOf
  <2> QED
    BY <2>1 DEF LeftoversOf
<1>2. CASE Pkill(p)
  <2>1. /\ cmd'[p] = "clean" /\ pc'[p] = "unmark" /\ orphan'[p] = orphan[p]
        /\ cmd[p] = "clean" /\ pc[p] = "pkill"
        /\ UNCHANGED <<disk, boot, kernel, service, reverting>>
    BY <1>2 DEF Pkill, Goto, TypeOK, locals, LeftoversOf
  <2> QED
    BY <2>1 DEF LeftoversOf
<1>3. CASE Purge(p)
  <2>1. /\ etc = {} /\ ~enabled /\ service = "off" /\ NothingTuned /\ ~reverting
    BY <1>3 DEF Purge, LeftoversOf
  <2>2. /\ EmptyStorage' /\ UNCHANGED <<boot, live, reverting>>
        /\ pc'[p] = "idle" /\ cmd'[p] = "none" /\ ~orphan'[p]
    BY <1>3 DEF Purge, Exit, Goto, TypeOK
  <2>3. MachineInv'
    BY <2>1, <2>2
    DEF MachineInv, BackupWhole, TuningRecorded, Untuned, NothingTuned, Detached,
        PersistencePresent, StopNeverRefused, IsActive, NoReturnAfterRevert, Unsaved, Keys
  <2> QED
    BY <2>2, <2>3, IdleInv DEF SettledOf
<1> QED
  BY <1>1, <1>2, <1>3 DEF CleanStep

(* The removal of the leftovers, up to the last of the files ... *)
LEMMA LeftoversShared ==
    ASSUME TypeOK, ControlOK, NEW p \in Procs, LeftoversOf(p), SharedStep(p), ~Reload(p)
    PROVE  LeftoversOf(p)'
<1> USE DEF LeftoversOf, EmptyStorage, RemovalInv, At, Resetting, Emptied, disk, boot, live
<1>1. cmd[p] \in {"start", "clean"} /\ idx[p] \in Nat \ {0} /\ NumKeys \in Nat
  BY NumKeysAssumption
  DEF SharedStep, Unmark, Ungroup, StopService, Disable, RemoveFile, RestoreDefault,
      Reload, TypeOK
<1>Unmark. CASE Unmark(p)
  <2>1. /\ pc[p] = "unmark" /\ pc'[p] \in {"unmark", "ungroup"}
        /\ cmd'[p] = cmd[p] /\ orphan'[p] = orphan[p]
        /\ UNCHANGED <<disk, boot, kernel, service, reverting>>
    BY <1>Unmark DEF Unmark, TypeOK, Goto, locals
  <2> QED
    BY <2>1
<1>Ungroup. CASE Ungroup(p)
  <2>1. AfterUngroup["start"] = "stop_service" /\ AfterUngroup["clean"] = "stop_service"
    BY DEF AfterUngroup
  <2>2. /\ pc[p] = "ungroup" /\ pc'[p] = "stop_service"
        /\ cmd'[p] = cmd[p] /\ orphan'[p] = orphan[p]
        /\ UNCHANGED <<disk, boot, kernel, service, reverting>>
    BY <1>1, <1>Ungroup, <2>1 DEF Ungroup, TypeOK, Goto, locals
  <2> QED
    BY <2>2
<1>StopService. CASE StopService(p)
  <2>1. /\ pc[p] = "stop_service" /\ pc'[p] = "disable" /\ service' = "off"
        /\ cmd'[p] = cmd[p] /\ orphan'[p] = orphan[p]
        /\ UNCHANGED <<disk, boot, kernel, reverting>>
    BY <1>StopService DEF StopService, TypeOK, Goto, locals
  <2> QED
    BY <2>1
<1>Disable. CASE Disable(p)
  <2>1. /\ pc[p] = "disable" /\ pc'[p] = "files" /\ ~enabled' /\ idx'[p] = 1
        /\ cmd'[p] = cmd[p] /\ orphan'[p] = orphan[p]
        /\ UNCHANGED <<disk, etc, kernel, service, reverting>>
    BY <1>Disable DEF Disable, TypeOK, ControlOK, Goto, locals
  <2>2. \A i \in DOMAIN RemovalOrder : ~ (i < idx'[p])
    BY <2>1 DEF RemovalOrder
  <2> QED
    BY <2>1, <2>2
<1>RemoveFile. CASE RemoveFile(p)
  <2>1. /\ pc[p] = "files" /\ cmd'[p] = cmd[p] /\ orphan'[p] = orphan[p]
        /\ etc' = etc \ {RemovalOrder[idx[p]]}
        /\ UNCHANGED <<disk, enabled, kernel, service, reverting>>
    BY <1>RemoveFile DEF RemoveFile, SameRun
  <2>2. Len(RemovalOrder) = 7 /\ DOMAIN RemovalOrder = 1..7
    BY DEF RemovalOrder
  <2>3. /\ idx' = [idx EXCEPT ![p] = IF idx[p] < 7 THEN idx[p] + 1 ELSE 1]
        /\ pc' = [pc EXCEPT ![p] = IF idx[p] < 7 THEN "files" ELSE "defaults"]
    <3>1. AfterFiles(p) = "defaults"
      BY <1>1, <2>1 DEF AfterFiles
    <3> QED
      BY <1>RemoveFile, <2>1, <2>2, <3>1 DEF RemoveFile, Loop, Goto
  <2>4. \A i \in 1..7 : i <= idx[p] => RemovalOrder[i] \notin etc'
    <3> SUFFICES ASSUME NEW i \in 1..7, i <= idx[p] PROVE RemovalOrder[i] \notin etc'
      OBVIOUS
    <3>1. CASE i = idx[p]
      BY <2>1, <3>1
    <3>2. CASE i < idx[p]
      BY <2>1, <2>2, <3>2
    <3> QED
      BY <1>1, <3>1, <3>2
  <2>5. CASE idx[p] < 7
    <3>1. pc'[p] = "files" /\ idx'[p] = idx[p] + 1
      BY <2>3, <2>5 DEF TypeOK
    <3>2. \A i \in DOMAIN RemovalOrder : i < idx'[p] => RemovalOrder[i] \notin etc'
      BY <1>1, <2>2, <2>4, <3>1
    <3>3. "etcdir" \in etc'
      <4>1. idx[p] \in 1..6
        BY <1>1, <2>5
      <4>2. RemovalOrder[idx[p]] # "etcdir"
        BY <4>1 DEF RemovalOrder
      <4> QED
        BY <2>1, <4>2
    <3> QED
      BY <2>1, <3>1, <3>2, <3>3
  <2>6. CASE ~ (idx[p] < 7)
    <3>1. pc'[p] = "defaults" /\ idx'[p] = 1
      BY <2>3, <2>6 DEF TypeOK
    <3>2. \A i \in 1..7 : RemovalOrder[i] \notin etc'
      BY <1>1, <2>4, <2>6
    <3>3. {"unit", "sysctl", "modules", "nm", "resolved", "script", "etcdir"} \cap etc' = {}
      BY <3>2 DEF RemovalOrder
    <3>4. etc' = {}
      BY <2>1, <3>3 DEF TypeOK, EtcFiles
    <3>5. \A k \in Keys : ~ (k < idx'[p])
      BY <1>1, <3>1 DEF Keys
    <3> QED
      BY <2>1, <3>1, <3>4, <3>5
  <2> QED
    BY <2>5, <2>6
<1>RestoreDefault. CASE RestoreDefault(p)
  <2>1. /\ pc[p] = "defaults" /\ cmd'[p] = cmd[p] /\ orphan'[p] = orphan[p]
        /\ UNCHANGED <<disk, boot, service, reverting>>
    BY <1>RestoreDefault DEF RestoreDefault, SameRun
  <2>2. /\ idx' = [idx EXCEPT ![p] = IF idx[p] < NumKeys THEN idx[p] + 1 ELSE 1]
        /\ pc' = [pc EXCEPT ![p] = IF idx[p] < NumKeys THEN "defaults" ELSE "reload"]
    BY <1>RestoreDefault, <2>1 DEF RestoreDefault, Loop, Goto
  <2>3. \A k \in Keys : k <= idx[p] => kernel'[k] # "tuned"
    <3> SUFFICES ASSUME NEW k \in Keys, k <= idx[p] PROVE kernel'[k] # "tuned"
      OBVIOUS
    <3>1. kernel'[k] = IF k = idx[p] THEN "default" ELSE kernel[k]
      BY <1>RestoreDefault DEF RestoreDefault
    <3>2. k = idx[p] \/ k < idx[p]
      BY <1>1 DEF Keys
    <3> QED
      BY <2>1, <3>1, <3>2
  <2>4. CASE idx[p] < NumKeys
    <3>1. pc'[p] = "defaults" /\ idx'[p] = idx[p] + 1
      BY <2>2, <2>4 DEF TypeOK
    <3>2. \A k \in Keys : k < idx'[p] => kernel'[k] # "tuned"
      BY <1>1, <2>3, <3>1 DEF Keys
    <3> QED
      BY <2>1, <3>1, <3>2
  <2>5. CASE ~ (idx[p] < NumKeys)
    <3>1. pc'[p] = "reload"
      BY <2>2, <2>5 DEF TypeOK
    <3>2. NothingTuned'
      BY <1>1, <2>3, <2>5 DEF Keys, NothingTuned
    <3> QED
      BY <2>1, <3>1, <3>2
  <2> QED
    BY <2>4, <2>5
<1> QED
  BY <1>Unmark, <1>Ungroup, <1>StopService, <1>Disable, <1>RemoveFile, <1>RestoreDefault
  DEF SharedStep

(* ... and the re-read of the sysctl files, after which start finds a machine *)
(* without leftovers.                                                        *)
LEMMA LeftoversReload ==
    ASSUME TypeOK, ControlOK, NEW p \in Procs, LeftoversOf(p), Reload(p)
    PROVE  LeftoversOf(p)' \/ SettledOf(p)'
<1>1. /\ EmptyStorage /\ ~reverting /\ pc[p] = "reload" /\ cmd[p] \in {"start", "clean"}
      /\ etc = {} /\ ~enabled /\ service = "off" /\ NothingTuned
      /\ orphan[p] <=> cmd[p] = "clean"
  BY DEF LeftoversOf, RemovalInv, Reload, At, Emptied
<1>2. AfterReload["start"] = "read" /\ AfterReload["clean"] = "purge"
  BY DEF AfterReload
<1>3. /\ cmd'[p] = cmd[p] /\ orphan'[p] = orphan[p]
      /\ pc'[p] = IF cmd[p] = "start" THEN "read" ELSE "purge"
      /\ UNCHANGED <<disk, boot, rules, groups, service, reverting>>
  BY <1>1, <1>2 DEF Reload, Goto, TypeOK, locals
<1>4. NothingTuned'
  BY <1>1 DEF Reload, SysctlFilesApplied, NothingTuned
<1>5. CASE cmd[p] = "clean"
  BY <1>1, <1>3, <1>4, <1>5
  DEF LeftoversOf, EmptyStorage, RemovalInv, At, Emptied, Resetting, disk, boot
<1>6. CASE cmd[p] = "start"
  <2>1. MachineInv'
    BY <1>1, <1>3, <1>4
    DEF EmptyStorage, MachineInv, BackupWhole, TuningRecorded, Untuned, Detached,
        PersistencePresent, StopNeverRefused, IsActive, NoReturnAfterRevert, Unsaved, Keys,
        disk, boot
  <2>2. ProcessInv(p)'
    BY <1>1, <1>3, <1>4, <1>6
    DEF EmptyStorage, ProcessInv, StepOfCommand, StartBegins, StartTunes, StopWithdraws,
        StopRestores, CleanerMeetsNothing, At, Saving, Applying, Restoring, Untuned,
        Detached, PersistencePresent, IsActive, disk, boot
  <2> QED
    BY <2>1, <2>2 DEF SettledOf
<1> QED
  BY <1>1, <1>5, <1>6

(* A command that dies with the defaults not yet back leaves the tuning and   *)
(* nothing to know it by; at any other step the next one takes over.         *)
LEMMA LeftoversKill ==
    ASSUME TypeOK, ControlOK, NEW p \in Procs, LeftoversOf(p), Kill(p),
           DiskFull \/ ~At(p, "defaults")
    PROVE  LeftoversOf(p)' \/ SettledOf(p)'
<1>1. /\ pc'[p] = "idle" /\ cmd'[p] = "none" /\ ~orphan'[p]
      /\ UNCHANGED <<disk, boot, live, reverting>>
  BY DEF Kill, Exit, Goto, TypeOK
<1>2. CASE "etcdir" \in etc
  BY <1>1, <1>2, LeftoversAtRest DEF disk, live
<1>3. CASE "etcdir" \notin etc
  <2>1. /\ EmptyStorage /\ ~reverting /\ etc = {} /\ ~enabled /\ service = "off"
        /\ Untuned
    BY <1>3 DEF LeftoversOf, RemovalInv, Emptied, At, Untuned
  <2>2. MachineInv'
    BY <1>1, <2>1
    DEF EmptyStorage, MachineInv, BackupWhole, TuningRecorded, Untuned, NothingTuned,
        Detached, PersistencePresent, StopNeverRefused, IsActive, NoReturnAfterRevert,
        Unsaved, Keys, disk, boot, live
  <2> QED
    BY <1>1, <2>2, IdleInv DEF SettledOf, At
<1> QED
  BY <1>2, <1>3

(* The other processes are idle and remain so. *)
LEMMA LeftoversProcess ==
    ASSUME Serialized, Leftovers, TypeInv', NEW p \in Procs,
           \/ UserStep(p) \/ ProgramStep(p)
           \/ (DiskFull \/ ~At(p, "defaults")) /\ Kill(p)
    PROVE  Leftovers' \/ Settled'
<1>1. /\ TypeOK /\ ControlOK /\ OneAtATime
      /\ \A q \in Procs : RemovalInv(q)
  BY DEF Leftovers
<1>2. \A q \in Procs \ {p} : pc[q] = "idle"
  BY <1>1, OthersIdle DEF At
<1>3. \A q \in Procs \ {p} : pc'[q] = "idle" /\ cmd'[q] = "none" /\ ~orphan'[q]
  BY <1>1, <1>2, StepFrame DEF Frame, ControlOK, At, RemovalInv
<1>4. LeftoversOf(p)
  BY <1>1, <1>2 DEF Leftovers, LeftoversOf, Emptied
<1>5. ~StartStep(p) /\ ~RevertStep(p)
  BY <1>1
  DEF StartStep, ReadSysctls, CreateBackup, WriteBackup, TuneKey, ApplyFocusPriority,
      ApplyWifiLatency, WriteFile, Enable, Mark, ApplyDns, TruncateState, Activate,
      RevertStep, LoadBackup, RestoreKey, Unconfigure, SaveInactive, DropBackup,
      RemovalInv, At, Resetting
<1>6. LeftoversOf(p)' \/ SettledOf(p)'
  BY <1>1, <1>4, <1>5, LeftoversUser, LeftoversClean, LeftoversShared, LeftoversReload,
     LeftoversKill
  DEF ProgramStep
<1>7. OneAtATime'
  BY <1>3 DEF OneAtATime, At
<1>8. CASE LeftoversOf(p)'
  <2>1. \A q \in Procs : RemovalInv(q)'
    BY <1>3, <1>8 DEF LeftoversOf, RemovalInv, At, Emptied
  <2> QED
    BY <1>7, <1>8, <2>1 DEF Leftovers, LeftoversOf, TypeInv
<1>9. CASE SettledOf(p)'
  <2>1. \A q \in Procs : ProcessInv(q)'
    BY <1>3, <1>9, IdleInv DEF SettledOf, At
  <2> QED
    BY <1>7, <1>9, <2>1 DEF Settled, SettledOf, TypeInv
<1> QED
  BY <1>6, <1>8, <1>9

(* The unit's restart loop, and a reboot. *)
LEMMA LeftoversMachine ==
    ASSUME Leftovers, TypeInv', ServiceStep \/ Reboot
    PROVE  Leftovers' \/ Settled'
<1>1. /\ TypeOK /\ ControlOK /\ OneAtATime /\ EmptyStorage /\ ~reverting
      /\ service \notin {"running", "stopping"}
      /\ \A p \in Procs : RemovalInv(p)
  BY DEF Leftovers
<1>2. CASE ServiceStep
  <2>1. /\ service # "off" /\ service' \notin {"running", "stopping"}
        /\ UNCHANGED <<pc, locals, disk, boot, kernel, reverting>>
    BY <1>1, <1>2
    DEF ServiceStep, ServiceGroups, ServiceRules, ServiceExec, DaemonTune, DaemonExit,
        DaemonCrash, EmptyStorage
  <2>2. \A p \in Procs : RemovalInv(p)'
    BY <1>1, <2>1 DEF RemovalInv, At, Emptied, locals, boot
  <2>3. OneAtATime' /\ EmptyStorage'
    BY <1>1, <2>1 DEF OneAtATime, EmptyStorage, At, disk, Unsaved
  <2> QED
    BY <2>1, <2>2, <2>3 DEF Leftovers, TypeInv, boot
<1>3. CASE Reboot
  <2>1. /\ \A p \in Procs : pc'[p] = "idle" /\ cmd'[p] = "none" /\ ~orphan'[p]
        /\ UNCHANGED <<disk, boot, reverting>>
        /\ service' = IF enabled /\ "unit" \in etc THEN "groups" ELSE "off"
        /\ "sysctl" \notin etc => NothingTuned'
    BY <1>3 DEF Reboot, NothingTuned
  <2>2. OneAtATime' /\ EmptyStorage'
    BY <1>1, <2>1 DEF OneAtATime, EmptyStorage, At, disk, Unsaved
  <2>3. CASE "etcdir" \in etc
    BY <1>1, <2>1, <2>2, <2>3 DEF Leftovers, RemovalInv, At, Emptied, TypeInv, boot
  <2>4. CASE "etcdir" \notin etc
    <3>1. etc = {} /\ ~enabled
      BY <1>1, <2>4 DEF Leftovers, RemovalInv, Emptied
    <3>2. MachineInv'
      BY <1>1, <2>1, <2>2, <3>1
      DEF EmptyStorage, MachineInv, BackupWhole, TuningRecorded, Untuned, Detached,
          PersistencePresent, StopNeverRefused, IsActive, NoReturnAfterRevert, boot
    <3> QED
      BY <2>1, <2>2, <3>2, IdleInv DEF Settled, TypeInv, At
  <2> QED
    BY <2>3, <2>4
<1> QED
  BY <1>2, <1>3

(* A step either leaves leftovers behind or the machine is settled. *)
LEMMA LeftoversPreserved ==
    ASSUME Serialized, Leftovers \/ Settled, [Uncut \/ (DiskFull /\ Next)]_vars
    PROVE  (Leftovers \/ Settled)'
<1>1. [Next]_vars
  BY DEF Uncut, Next, Interruption
<1>2. CASE Settled
  BY <1>1, <1>2, SettledPreserved
<1>3. CASE Leftovers
  <2>1. TypeInv'
    BY <1>1, <1>3, NextTyped DEF Leftovers, TypeInv
  <2>2. CASE UNCHANGED vars
    <3>1. OneAtATime' /\ EmptyStorage' /\ \A p \in Procs : RemovalInv(p)'
      BY <1>3, <2>2
      DEF vars, locals, disk, boot, live, Leftovers, OneAtATime, At, EmptyStorage,
          Unsaved, RemovalInv, Emptied, NothingTuned
    <3> QED
      BY <1>3, <2>1, <2>2, <3>1 DEF vars, boot, live, Leftovers, TypeInv
  <2>3. CASE ServiceStep \/ Reboot
    BY <1>3, <2>1, <2>3, LeftoversMachine
  <2>4. ASSUME NEW p \in Procs,
               \/ UserStep(p) \/ ProgramStep(p)
               \/ (DiskFull \/ ~At(p, "defaults")) /\ Kill(p)
        PROVE  Leftovers' \/ Settled'
    BY <1>3, <2>1, <2>4, LeftoversProcess
  <2> QED
    BY <2>2, <2>3, <2>4 DEF Uncut, Next, Working, Interruption
<1> QED
  BY <1>2, <1>3

(* Leftovers are what LeftoverInit is about. *)
LEMMA InitialLeftovers == LeftoverInit => Leftovers
<1> SUFFICES ASSUME LeftoverInit PROVE Leftovers
  OBVIOUS
<1>1. TypeInv
  BY LeftoverTyped
<1>2. \A p \in Procs : pc[p] = "idle" /\ cmd[p] = "none" /\ ~orphan[p]
  BY DEF LeftoverInit, NoRun
<1>3. OneAtATime /\ \A p \in Procs : RemovalInv(p)
  BY <1>2 DEF OneAtATime, RemovalInv, At, Emptied
<1>4. "etcdir" \in etc
  BY DEF LeftoverInit, EtcFiles
<1> QED
  BY <1>1, <1>3, <1>4 DEF LeftoverInit, Leftovers, TypeInv

(* Until start or clean is through with the leftovers nothing is on record and *)
(* whoever looks finds the files; then the machine is settled, as if betterconn *)
(* had never been there.  A command may be killed and the machine go down, at  *)
(* any step but at the one in whose midst there is neither file nor default.   *)
THEOREM LeftoverInvariant ==
    ASSUME Serialized
    PROVE  UncutSpec => [](Leftovers \/ Settled)
<1>1. LeftoverInit => Leftovers \/ Settled
  BY InitialLeftovers
<1>2. (Leftovers \/ Settled) /\ [Uncut]_vars => (Leftovers \/ Settled)'
  <2> SUFFICES ASSUME Leftovers \/ Settled, [Uncut]_vars
               PROVE  (Leftovers \/ Settled)'
    OBVIOUS
  <2>1. [Uncut \/ (DiskFull /\ Next)]_vars
    OBVIOUS
  <2> QED
    BY <2>1, LeftoversPreserved
<1> QED
  BY <1>1, <1>2, PTL DEF UncutSpec

(* What a machine with leftovers and a settled one have in common. *)
LEMMA LeftoversOrSettled ==
    ASSUME Leftovers \/ Settled
    PROVE  /\ StopNeverRefused /\ NoReturnAfterRevert
           /\ ~DiskFull => BaselinePristine /\ RevertRestores /\ CleanGivesBack
<1>1. CASE Settled
  BY <1>1, SettledIsOrderly, SettledIsSafe DEF CleanLeavesNothing, CleanGivesBack
<1>2. CASE Leftovers
  <2>1. StopNeverRefused /\ NoReturnAfterRevert
    BY <1>2 DEF Leftovers, EmptyStorage, StopNeverRefused, IsActive, NoReturnAfterRevert
  <2>2. BaselinePristine
    BY <1>2 DEF Leftovers, EmptyStorage, BaselinePristine, Unsaved
  <2>3. RevertRestores
    BY <1>2 DEF Leftovers, RemovalInv, RevertRestores, At, Resetting
  <2>4. CleanGivesBack
    BY <1>2 DEF Leftovers, RemovalInv, CleanGivesBack, At, Emptied, PersistencePresent
  <2> QED
    BY <2>1, <2>2, <2>3, <2>4
<1> QED
  BY <1>1, <1>2

(* start on a machine with leftovers: what it then takes for the machine's    *)
(* own values are the defaults, never those the earlier run left.            *)
THEOREM LeftoverBaselinePristine ==
    ASSUME Serialized, ~DiskFull
    PROVE  UncutSpec => []BaselinePristine
BY LeftoverInvariant, LeftoversOrSettled, PTL

(* ... so that stop brings back what that start found. *)
THEOREM LeftoverRevertRestores ==
    ASSUME Serialized, ~DiskFull
    PROVE  UncutSpec => []RevertRestores
BY LeftoverInvariant, LeftoversOrSettled, PTL

(* clean on a machine with leftovers has put the defaults back and taken      *)
(* service, unit and files away before it says that everything is removed,   *)
(* also when an earlier clean or start was cut short.                        *)
THEOREM LeftoverCleanGivesBack ==
    ASSUME Serialized, ~DiskFull
    PROVE  UncutSpec => []CleanGivesBack
BY LeftoverInvariant, LeftoversOrSettled, PTL

(* Wherever a command is killed (a disk that may lose what is written is one  *)
(* of which nothing is said about values), leftovers do not keep stop from    *)
(* its backup nor bring tuning back after a revert.                          *)
THEOREM LeftoversKeepOrder ==
    ASSUME Serialized, DiskFull
    PROVE  LeftoverSpec => [](StopNeverRefused /\ NoReturnAfterRevert)
<1>1. LeftoverInit => Leftovers \/ Settled
  BY InitialLeftovers
<1>2. (Leftovers \/ Settled) /\ [Next]_vars => (Leftovers \/ Settled)'
  BY LeftoversPreserved
<1> QED
  BY <1>1, <1>2, LeftoversOrSettled, PTL DEF LeftoverSpec

-----------------------------------------------------------------------------
(* Lifecycle keeps the contract of Baseline.                                 *)

BaselineStep == [B!Record \/ B!Change]_<<kernel, backup>>

(* Steps that leave the sysctls and the backup alone. *)
Silent == UNCHANGED <<kernel, backup>>

(* Taking or dropping the backup of an untuned machine is Baseline's Record. *)
LEMMA RecordStep ==
    ASSUME TypeOK, NothingTuned, UNCHANGED kernel, backup' \in {kernel, Unsaved}
    PROVE  BaselineStep
<1>1. kernel \in [Keys -> Pristine] /\ Unsaved \in [Keys -> {""}]
  BY DEF TypeOK, NothingTuned, Values, Unsaved
<1>2. backup' \in [Keys -> Pristine \cup {""}]
  BY <1>1
<1>3. \A k \in Keys : kernel[k] # "tuned" /\ backup'[k] \in {kernel[k], ""}
  BY <1>1 DEF NothingTuned, Unsaved
<1> QED
  BY <1>2, <1>3 DEF BaselineStep, B!Record

(* Moving keys to their recorded or own values is Baseline's Change, and     *)
(* so is tuning a recorded one.                                              *)
LEMMA ChangeStep ==
    ASSUME kernel' \in [Keys -> Values], UNCHANGED backup,
           \A k \in Keys : \/ kernel'[k] = kernel[k]
                           \/ kernel'[k] = "tuned" /\ backup[k] \in Pristine
                           \/ kernel'[k] = backup[k]
                           \/ kernel'[k] = "stock"
    PROVE  BaselineStep
BY DEF BaselineStep, B!Change, B!Values, Values

(* The steps of a command. *)
LEMMA ProcessKeepsContract ==
    ASSUME Settled, TypeInv', Serialized, ~DiskFull, NEW p \in Procs,
           UserStep(p) \/ ProgramStep(p) \/ Kill(p)
    PROVE  BaselineStep
<1> USE DEF disk, live
<1>1. TypeOK /\ MachineInv /\ ProcessInv(p) /\ kernel' \in [Keys -> Values]
  BY DEF Settled, TypeInv, TypeOK
<1>2. CASE CreateBackup(p)
  BY <1>1, <1>2, RecordStep DEF CreateBackup, ProcessInv, StartBegins, Saving, At, Untuned
<1>3. CASE WriteBackup(p)
  <2>1. backup' = snap[p] /\ UNCHANGED kernel
    BY <1>3 DEF WriteBackup
  <2>2. NothingTuned /\ snap[p] = kernel
    BY <1>1, <1>3 DEF WriteBackup, ProcessInv, StartBegins, Saving, At, Untuned
  <2> QED
    BY <1>1, <2>1, <2>2, RecordStep
<1>4. CASE TuneKey(p)
  <2>1. \A k \in Keys : backup[k] \in Pristine
    BY <1>1, <1>4 DEF TuneKey, ProcessInv, StartTunes, Applying, At, Recorded
  <2>2. \A k \in Keys : kernel'[k] = kernel[k] \/ kernel'[k] = "tuned"
    BY <1>4 DEF TuneKey
  <2> QED
    BY <1>1, <1>4, <2>1, <2>2, ChangeStep DEF TuneKey
<1>5. CASE RestoreKey(p)
  <2>1. snap[p] = backup
    BY <1>1, <1>5 DEF RestoreKey, ProcessInv, StepOfCommand, StopRestores, Saving, Applying, Cleaning,
        Restoring, At
  <2>2. \A k \in Keys : kernel'[k] = kernel[k] \/ kernel'[k] = backup[k]
    BY <1>5, <2>1 DEF RestoreKey
  <2> QED
    BY <1>1, <1>5, <2>2, ChangeStep DEF RestoreKey
<1>6. CASE Reload(p)
  <2>1. etc = {}
    BY <1>1, <1>6 DEF Reload, ProcessInv, StepOfCommand, StopRestores, CleanerMeetsNothing,
        MachineInv,
        TuningRecorded, Recorded, IsActive, Detached, PersistencePresent, Saving, Applying,
        Withdrawing, Restoring, At
  <2>2. \A k \in Keys : kernel'[k] = kernel[k] \/ kernel'[k] = "stock"
    BY <1>6, <2>1 DEF Reload, SysctlFilesApplied
  <2> QED
    BY <1>1, <1>6, <2>2, ChangeStep DEF Reload
<1>7. CASE RestoreDefault(p)
  BY <1>1, <1>7
  DEF RestoreDefault, ProcessInv, StepOfCommand, Saving, Applying, Withdrawing,
      Restoring,
      Cleaning, At
<1>8. CASE DropBackup(p)
  BY <1>1, <1>8, RecordStep
  DEF DropBackup, ProcessInv, StepOfCommand, StopRestores, Saving, Applying, Cleaning,
      Restoring, At, Untuned
<1>9. CASE Purge(p)
  <2>1. NothingTuned
    BY <1>1, <1>9 DEF Purge, ProcessInv, StepOfCommand, CleanerMeetsNothing, MachineInv,
        TuningRecorded,
        Recorded, IsActive, Untuned, Saving, Applying, Withdrawing,
        Restoring, At
  <2> QED
    BY <1>1, <1>9, <2>1, RecordStep DEF Purge
<1>10. CASE Silent
  BY <1>10 DEF Silent, BaselineStep
<1>11. CASE UserStep(p) \/ Kill(p)
  BY <1>10, <1>11
  DEF UserStep, InvokeStart, InvokeStop, InvokeClean, Invoke, Abort, ConfirmStart,
      ConfirmStop,
      Kill, Silent
<1>12. CASE StartStep(p)
  BY <1>2, <1>3, <1>4, <1>10, <1>12
  DEF StartStep, ReadSysctls, ApplyFocusPriority, ApplyWifiLatency, WriteFile, Enable,
      Mark,
      ApplyDns, TruncateState, Activate, Silent
<1>13. CASE RevertStep(p)
  BY <1>5, <1>8, <1>10, <1>13
  DEF RevertStep, LoadBackup, Unconfigure, SaveInactive, Silent
<1>14. CASE SharedStep(p)
  BY <1>6, <1>7, <1>10, <1>14
  DEF SharedStep, Unmark, Ungroup, StopService, Disable, RemoveFile, Silent
<1>15. CASE CleanStep(p)
  BY <1>9, <1>10, <1>15 DEF CleanStep, EnterCleaner, Pkill, Silent
<1> QED
  BY <1>11, <1>12, <1>13, <1>14, <1>15 DEF ProgramStep

(* Every step of the machine is a step of Baseline or leaves it alone. *)
LEMMA NextKeepsContract ==
    ASSUME Serialized, ~DiskFull, Settled, [Next]_vars
    PROVE  BaselineStep
<1> USE DEF disk
<1>1. TypeInv'
  BY NextTyped DEF Settled, TypeInv
<1>2. /\ kernel' \in [Keys -> Values]
      /\ MachineInv
  BY <1>1 DEF TypeInv, TypeOK, Settled
<1>3. CASE UNCHANGED vars
  BY <1>3 DEF vars, live, BaselineStep
<1>4. CASE ServiceStep
  <2>1. Recorded /\ UNCHANGED backup
    BY <1>2, <1>4
    DEF ServiceStep, ServiceGroups, ServiceRules, ServiceExec, DaemonTune, DaemonExit,
        DaemonCrash,
        MachineInv, TuningRecorded
  <2>2. \A k \in Keys : kernel'[k] = kernel[k] \/ kernel'[k] = "tuned"
    <3>1. kernel \in [Keys -> Values]
      BY DEF Settled, TypeOK
    <3> QED
      BY <1>4, <3>1
      DEF ServiceStep, ServiceGroups, ServiceRules, ServiceExec, DaemonTune,
          DaemonExit, DaemonCrash
  <2> QED
    BY <1>2, <2>1, <2>2, ChangeStep DEF Recorded
<1>5. CASE Reboot
  <2>1. etc # {} => \A k \in Keys : backup[k] \in Pristine
    BY <1>2 DEF MachineInv, TuningRecorded, Detached, PersistencePresent, Recorded
  <2>2. \A k \in Keys : \/ kernel'[k] = "stock"
                        \/ kernel'[k] = "tuned" /\ etc # {}
    <3>1. kernel' = [k \in Keys |-> IF "sysctl" \in etc THEN "tuned" ELSE "stock"]
      BY <1>5 DEF Reboot
    <3>2. CASE "sysctl" \in etc
      <4>1. etc # {}
        BY <3>2
      <4>2. \A k \in Keys : kernel'[k] = "tuned"
        BY <3>1, <3>2
      <4> QED
        BY <4>1, <4>2
    <3>3. CASE "sysctl" \notin etc
      <4>1. \A k \in Keys : kernel'[k] = "stock"
        BY <3>1, <3>3
      <4> QED
        BY <4>1
    <3> QED
      BY <3>2, <3>3
  <2> QED
    BY <1>2, <1>5, <2>1, <2>2, ChangeStep DEF Reboot
<1>6. CASE \E p \in Procs : UserStep(p) \/ ProgramStep(p) \/ Kill(p)
  BY <1>1, <1>6, ProcessKeepsContract
<1> QED
  BY <1>3, <1>4, <1>5, <1>6 DEF Next, Working, Interruption

(* Lifecycle implements Baseline: a sysctl is tuned only while its pristine *)
(* value is on record, and the record is taken and dropped only while none  *)
(* is tuned.                                                                *)
THEOREM ImplementsBaseline ==
    ASSUME Serialized, ~DiskFull
    PROVE  Spec => BaselineContract
<1>1. Init => B!Init
  BY DEF Init, EmptyStorage, B!Init, Unsaved, Pristine
<1>2. IInv /\ [Next]_vars => BaselineStep
  BY NextKeepsContract DEF IInv
<1> QED
  BY <1>1, <1>2, LifecycleInvariant, PTL
  DEF Spec, BaselineContract, B!Spec, BaselineStep

-----------------------------------------------------------------------------
(* Where the values come from that stop gives back.                         *)

BP == INSTANCE BaselineProofs WITH live <- kernel, record <- backup, Stock <- "stock"

(* What a stop or clean leaves is what the sysctls held before, b, or what    *)
(* the machine boots with.                                                   *)
OwnAgain(b) ==
    \A p \in Procs : pc[p] \in {"drop", "purge"} =>
        \A k \in Keys : kernel[k] \in {b[k], "stock"}

LEMMA OwnWhenRestored ==
    ASSUME NEW b, TypeOK, BP!OwnValues(b), RevertRestores, CleanLeavesNothing
    PROVE  OwnAgain(b)
BY DEF BP!OwnValues, RevertRestores, CleanLeavesNothing, NothingTuned, OwnAgain, At

(* However many starts and stops were run, cut short or overtaken by a reboot, *)
(* stop brings back the values from before the first of them or those of the  *)
(* boot: none that was recorded in between by mistake.                       *)
THEOREM StopReturnsOwnValues ==
    ASSUME Serialized, ~DiskFull, NEW CONSTANT Before \in [Keys -> Pristine]
    PROVE  kernel = Before /\ Spec => []OwnAgain(Before)
<1>1. BP!ProperValues
  BY DEF BP!ProperValues, Pristine
<1>2. kernel = Before /\ BP!Spec => []BP!OwnValues(Before)
  BY <1>1, BP!ContractInventsNothing
<1>3. BaselineContract => BP!Spec
  BY PTL
  DEF BaselineContract, B!Spec, BP!Spec, B!Init, BP!Init, B!Record, BP!Record,
      B!Change, BP!Change, B!Values, BP!Values
<1>4. TypeOK /\ BP!OwnValues(Before) /\ RevertRestores /\ CleanLeavesNothing
        => OwnAgain(Before)
  BY OwnWhenRestored
<1> QED
  BY <1>2, <1>3, <1>4, ImplementsBaseline, TypeCorrect, StopRestoresMachine,
     CleanRemovesEverything, PTL
=============================================================================
