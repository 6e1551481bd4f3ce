----------------------------- MODULE WifiAirtime -----------------------------
(***************************************************************************)
(* WifiAirtime (core/src/wifi_airtime.cpp): the airtime queue limits of    *)
(* mac80211 are tightened by start and again by every start of the daemon, *)
(* and given back by stop from a copy that only the first apply() makes.   *)
(*                                                                         *)
(* One command or daemon is in apply() or revert() at a time: start ends   *)
(* in a reboot, and stop waits for the service to be down.  Any of them    *)
(* may be killed between two steps, and the machine may be rebooted; the   *)
(* limits live in debugfs and are then the driver's again.                 *)
(***************************************************************************)
EXTENDS Naturals

CONSTANTS
    NumCategories,  \* how many access categories have a limit
    SaveCut         \* TRUE: apply() may be cut short while it saves

Categories == 1..NumCategories

(* aql_threshold is key 0. *)
Keys == 0..NumCategories

ASSUME NumCategoriesAssumption == NumCategories \in Nat \ {0}
ASSUME SaveCutAssumption == SaveCut \in BOOLEAN

(* A limit is the driver's, an administrator's own, or tightened. *)
Pristine == {"driver", "custom"}
Values == Pristine \cup {"tuned"}

Nothing == [k \in Keys |-> ""]

VARIABLES
    pc,         \* the step that is taken next
    by,         \* who is in apply(): start or the daemon
    idx,        \* the position in the loop over the categories
    seen,       \* what apply() has read
    files,      \* which of aql_saved_limits, aql_phy, aql_saved_threshold exist
    saved,      \* saved[k]: the value of k in the first and in the last of them
    phyKnown,   \* aql_phy has its content
    live,       \* live[k]: the value in force
    present,    \* debugfs shows the limits of a phy: the adapter is plugged in
    threshold,  \* ... and the threshold, if the kernel has one (never changes)
    active,     \* sysctl_backup exists: start is refused, stop is not
    installed   \* the service is started at boot

control == <<pc, by, idx, seen>>
disk == <<files, saved, phyKnown>>
machine == <<live, present, threshold>>
lifecycle == <<active, installed>>
vars == <<control, disk, machine, lifecycle>>

Steps == {
    "idle", "look", "create", "write", "create_phy", "write_phy", "threshold",
    "create_threshold", "write_threshold", "tighten", "tighten_threshold", "applied",
    "phy", "restore", "remove", "restore_threshold", "remove_threshold", "remove_phy",
    "reverted", "purge" }

Files == {"aql_saved_limits", "aql_phy", "aql_saved_threshold"}

TypeOK ==
    /\ pc \in Steps
    /\ by \in {"start", "daemon"}
    /\ idx \in Categories
    /\ seen \in [Keys -> Values \cup {""}]
    /\ files \subseteq Files
    /\ saved \in [Keys -> Values \cup {""}]
    /\ phyKnown \in BOOLEAN
    /\ live \in [Keys -> Values]
    /\ present \in BOOLEAN
    /\ threshold \in BOOLEAN
    /\ active \in BOOLEAN
    /\ installed \in BOOLEAN

-----------------------------------------------------------------------------
Goto(s) == pc' = s

(* Mutant: the loop runs once too often. *)
Loop_Mutant(s) ==
    /\ idx' = IF idx <= NumCategories THEN idx + 1 ELSE 1
    /\ Goto(IF idx <= NumCategories THEN pc ELSE s)

Loop(s) ==
    /\ idx' = IF idx < NumCategories THEN idx + 1 ELSE 1
    /\ Goto(IF idx < NumCategories THEN pc ELSE s)

(* f on the categories, g on the threshold. *)
CategoriesOf(f, g) == [k \in Keys |-> IF k \in Categories THEN f[k] ELSE g[k]]

-----------------------------------------------------------------------------
(* apply()                                                                 *)

(* start has its backup of the sysctls when it comes to apply(). *)
Start ==
    /\ pc = "idle" /\ ~active
    /\ active' = TRUE
    /\ by' = "start"
    /\ Goto("look")
    /\ UNCHANGED <<idx, seen, disk, machine, installed>>

DaemonStart ==
    /\ pc = "idle" /\ installed
    /\ by' = "daemon"
    /\ Goto("look")
    /\ UNCHANGED <<idx, seen, disk, machine, lifecycle>>

(* Mutant: every apply() saves the limits. *)
Look_Mutant ==
    /\ pc = "look"
    /\ IF ~present
       THEN Goto("applied") /\ UNCHANGED seen
       ELSE Goto("create") /\ seen' = CategoriesOf(live, Nothing)
    /\ UNCHANGED <<by, idx, disk, machine, lifecycle>>

(* Without limits to read apply() returns; a saved copy is never replaced. *)
Look ==
    /\ pc = "look"
    /\ IF ~present
       THEN Goto("applied") /\ UNCHANGED seen
       ELSE IF "aql_saved_limits" \in files
       THEN Goto("tighten") /\ UNCHANGED seen
       ELSE Goto("create") /\ seen' = CategoriesOf(live, Nothing)
    /\ UNCHANGED <<by, idx, disk, machine, lifecycle>>

(* Storage::save: the file exists without content before it is written. *)
CreateLimits ==
    /\ pc = "create"
    /\ files' = files \cup {"aql_saved_limits"}
    /\ saved' = CategoriesOf(Nothing, saved)
    /\ Goto("write")
    /\ UNCHANGED <<by, idx, seen, phyKnown, machine, lifecycle>>

WriteLimits ==
    /\ pc = "write"
    /\ saved' = CategoriesOf(seen, saved)
    /\ Goto("create_phy")
    /\ UNCHANGED <<by, idx, seen, files, phyKnown, machine, lifecycle>>

CreatePhy ==
    /\ pc = "create_phy"
    /\ files' = files \cup {"aql_phy"}
    /\ phyKnown' = FALSE
    /\ Goto("write_phy")
    /\ UNCHANGED <<by, idx, seen, saved, machine, lifecycle>>

WritePhy ==
    /\ pc = "write_phy"
    /\ phyKnown' = TRUE
    /\ Goto("threshold")
    /\ UNCHANGED <<by, idx, seen, files, saved, machine, lifecycle>>

ReadThreshold ==
    /\ pc = "threshold"
    /\ IF threshold
       THEN Goto("create_threshold") /\ seen' = [seen EXCEPT ![0] = live[0]]
       ELSE Goto("tighten") /\ UNCHANGED seen
    /\ UNCHANGED <<by, idx, disk, machine, lifecycle>>

CreateThreshold ==
    /\ pc = "create_threshold"
    /\ files' = files \cup {"aql_saved_threshold"}
    /\ saved' = [saved EXCEPT ![0] = ""]
    /\ Goto("write_threshold")
    /\ UNCHANGED <<by, idx, seen, phyKnown, machine, lifecycle>>

WriteThreshold ==
    /\ pc = "write_threshold"
    /\ saved' = [saved EXCEPT ![0] = seen[0]]
    /\ Goto("tighten")
    /\ UNCHANGED <<by, idx, seen, files, phyKnown, machine, lifecycle>>

(* A limit the driver refuses is left as it is. *)
Tighten ==
    /\ pc = "tighten"
    /\ live' \in {live, [live EXCEPT ![idx] = "tuned"]}
    /\ Loop("tighten_threshold")
    /\ UNCHANGED <<by, seen, disk, present, threshold, lifecycle>>

TightenThreshold ==
    /\ pc = "tighten_threshold"
    /\ live' \in {live} \cup
         (IF threshold THEN {[live EXCEPT ![0] = "tuned"]} ELSE {})
    /\ Goto("applied")
    /\ UNCHANGED <<by, idx, seen, disk, present, threshold, lifecycle>>

(* start goes on and installs the service. *)
Applied ==
    /\ pc = "applied"
    /\ installed' = (installed \/ by = "start")
    /\ Goto("idle")
    /\ UNCHANGED <<by, idx, seen, disk, machine, active>>

-----------------------------------------------------------------------------
(* revert()                                                                *)

(* stop has removed the service when it comes to revert(). *)
Stop ==
    /\ pc = "idle" /\ active
    /\ installed' = FALSE
    /\ Goto("phy")
    /\ UNCHANGED <<by, idx, seen, disk, machine, active>>

LookPhy ==
    /\ pc = "phy"
    /\ Goto(IF "aql_phy" \notin files THEN "reverted"
            ELSE IF "aql_saved_limits" \in files THEN "restore"
            ELSE "restore_threshold")
    /\ UNCHANGED <<by, idx, seen, disk, machine, lifecycle>>

(* A write needs the name of the phy, the file in debugfs and a value. *)
GivenBack(k) ==
    IF phyKnown /\ present /\ saved[k] # ""
    THEN [live EXCEPT ![k] = saved[k]] ELSE live

(* Mutant: the last category is left out. *)
RestoreLimit_Mutant ==
    /\ pc = "restore"
    /\ live' = IF idx < NumCategories THEN GivenBack(idx) ELSE live
    /\ Loop("remove")
    /\ UNCHANGED <<by, seen, disk, present, threshold, lifecycle>>

RestoreLimit ==
    /\ pc = "restore"
    /\ live' = GivenBack(idx)
    /\ Loop("remove")
    /\ UNCHANGED <<by, seen, disk, present, threshold, lifecycle>>

RemoveLimits ==
    /\ pc = "remove"
    /\ files' = files \ {"aql_saved_limits"}
    /\ saved' = CategoriesOf(Nothing, saved)
    /\ Goto("restore_threshold")
    /\ UNCHANGED <<by, idx, seen, phyKnown, machine, lifecycle>>

RestoreThreshold ==
    /\ pc = "restore_threshold"
    /\ IF "aql_saved_threshold" \in files
       THEN live' = GivenBack(0) /\ Goto("remove_threshold")
       ELSE UNCHANGED live /\ Goto("remove_phy")
    /\ UNCHANGED <<by, idx, seen, disk, present, threshold, lifecycle>>

RemoveThreshold ==
    /\ pc = "remove_threshold"
    /\ files' = files \ {"aql_saved_threshold"}
    /\ saved' = [saved EXCEPT ![0] = ""]
    /\ Goto("remove_phy")
    /\ UNCHANGED <<by, idx, seen, phyKnown, machine, lifecycle>>

RemovePhy ==
    /\ pc = "remove_phy"
    /\ files' = files \ {"aql_phy"}
    /\ phyKnown' = FALSE
    /\ Goto("reverted")
    /\ UNCHANGED <<by, idx, seen, saved, machine, lifecycle>>

(* stop ends by removing sysctl_backup ... *)
Reverted ==
    /\ pc = "reverted"
    /\ active' = FALSE
    /\ Goto("purge")
    /\ UNCHANGED <<by, idx, seen, disk, machine, installed>>

(* ... and the cleaner, which clean runs alone, the whole store. *)
Clean ==
    /\ pc = "idle" /\ ~active
    /\ Goto("purge")
    /\ UNCHANGED <<by, idx, seen, disk, machine, lifecycle>>

Purge ==
    /\ pc = "purge"
    /\ files' = {}
    /\ saved' = Nothing
    /\ phyKnown' = FALSE
    /\ Goto("idle")
    /\ UNCHANGED <<by, idx, seen, machine, lifecycle>>

-----------------------------------------------------------------------------
(* The environment.                                                        *)

Saving == pc \in {"create", "write", "create_phy", "write_phy", "threshold",
                  "create_threshold", "write_threshold"}

Kill ==
    /\ pc # "idle" /\ (Saving => SaveCut)
    /\ Goto("idle")
    /\ idx' = 1
    /\ seen' = Nothing
    /\ UNCHANGED <<by, disk, machine, lifecycle>>

(* The adapter may come and go between two boots. *)
Reboot ==
    /\ Saving => SaveCut
    /\ Goto("idle")
    /\ idx' = 1
    /\ seen' = Nothing
    /\ live' = [k \in Keys |-> "driver"]
    /\ present' \in BOOLEAN
    /\ UNCHANGED <<by, disk, threshold, lifecycle>>

-----------------------------------------------------------------------------
Init ==
    /\ pc = "idle" /\ by = "start" /\ idx = 1 /\ seen = Nothing
    /\ files = {} /\ saved = Nothing /\ phyKnown = FALSE
    /\ live \in [Keys -> Pristine]
    /\ present \in BOOLEAN /\ threshold \in BOOLEAN
    /\ active = FALSE /\ installed = FALSE

Apply ==
    \/ Start \/ DaemonStart \/ Look \/ CreateLimits \/ WriteLimits \/ CreatePhy
    \/ WritePhy \/ ReadThreshold \/ CreateThreshold \/ WriteThreshold
    \/ Tighten \/ TightenThreshold \/ Applied

Revert ==
    \/ Stop \/ LookPhy \/ RestoreLimit \/ RemoveLimits \/ RestoreThreshold
    \/ RemoveThreshold \/ RemovePhy \/ Reverted \/ Clean \/ Purge

Next == Apply \/ Revert \/ Kill \/ Reboot

Spec == Init /\ [][Next]_vars

-----------------------------------------------------------------------------
(* Properties.                                                             *)

(* "The original values are saved and restored on stop" (README.md:64): when *)
(* revert() is through, no limit and no threshold is betterconn's, whatever *)
(* was killed before, and however often the daemon applied again since.     *)
LimitsRestored == pc = "reverted" => \A k \in Keys : live[k] # "tuned"

(* The limits keep the contract of module Baseline; in particular "the      *)
(* saved baseline must never be overwritten with our own values"            *)
(* (wifi_airtime.cpp:155), neither by a restart of the daemon nor by a      *)
(* start after an interrupted stop.                                         *)
B == INSTANCE Baseline WITH record <- saved, Stock <- "driver"

BaselineContract == B!Spec
=============================================================================
