------------------------------ MODULE LinkTuning ------------------------------
(***************************************************************************)
(* What Optimizer::apply() and revert() (core/src/optimizer.cpp) do to the *)
(* link itself: the root qdisc, the power saving of a WiFi card and the    *)
(* interrupt coalescing of a network card, each with files of its own in   *)
(* the store.  The boot script sets all three again at every boot.         *)
(*                                                                         *)
(* One command is in apply() or revert() at a time; the script runs when   *)
(* the machine is up again after start, and stop waits for it.  A command  *)
(* may be killed between two steps, and the machine may be rebooted.       *)
(*                                                                         *)
(* One adaptive flag stands for rx and tx, one counter for the four.       *)
(***************************************************************************)
EXTENDS Naturals, Sequences

CONSTANT
    Cut   \* TRUE: a kill may also hit one of the Gaps

ASSUME CutAssumption == Cut \in BOOLEAN

(* Saved and removed in this order. *)
Order == <<"tc_iface", "wifi_pm_original", "wifi_pm_iface",
           "nic_iface", "nic_adaptive", "nic_counters">>

Files == {Order[i] : i \in DOMAIN Order}

(* What comes after the save, and after the removal, of each of them. *)
AfterSave == <<"wifi", "create", "pm_off", "create", "create", "coalesce">>
AfterRemoval == <<"restore_pm", "remove", "nm_forget", "remove", "remove", "reverted">>

(* A file that was not written yet; what is left out of a request. *)
Empty == ""

OnOff == {"on", "off"}
Counters == {"own", "tuned"}

(* How a driver takes a request for coalescing: all of it, counters only    *)
(* while adaptive mode is off, flags only, none.                            *)
Drivers == {"plain", "moderating", "flags", "fixed"}

(* ProfileSelector; the first sets counters, the other adaptive mode. *)
Profiles == {"fixed_rate", "balanced"}

VARIABLES
    pc,        \* the step that is taken next
    idx,       \* the file that is saved or removed next
    seen,      \* what apply() has read of the card
    store,     \* store[f]: the content of a file, "absent" without it
    qdisc,     \* the root qdisc: the kernel's, somebody's own, or low latency
    pm,        \* power saving
    adaptive,  \* the adaptive flag in force
    counters,  \* the counters in force
    nm,        \* NetworkManager's drop-in exists
    nmLoaded,  \* NetworkManager keeps power saving off
    profile,   \* the profile start has chosen
    active,    \* sysctl_backup exists: start is refused, stop is not
    installed, \* the boot script is run
    hardware,  \* [wifi, ethtool, shaper, driver, pm, adaptive] (never changes)
    before     \* history: the link when start was typed (the qdisc: or at boot)

control == <<pc, idx, seen>>
link == <<qdisc, pm, adaptive, counters>>
manager == <<nm, nmLoaded>>
lifecycle == <<profile, active, installed>>
fixed == <<hardware, before>>
vars == <<control, store, link, manager, lifecycle, fixed>>

Unread == [pm |-> "on", adaptive |-> "off", counters |-> Empty]

TypeOK ==
    /\ pc \in {"idle", "qdisc", "create", "write", "wifi", "pm_off", "nm_conf", "nic",
               "coalesce", "install", "restore_qdisc", "remove", "restore_pm",
               "nm_forget", "restore_nic", "reverted", "purge"}
    /\ idx \in DOMAIN Order
    /\ seen \in [pm : OnOff, adaptive : OnOff, counters : Counters \cup {Empty}]
    /\ store \in [Files -> {"absent", Empty, "iface"} \cup OnOff \cup Counters]
    /\ qdisc \in {"default", "custom", "low"}
    /\ pm \in OnOff /\ adaptive \in OnOff /\ counters \in Counters
    /\ nm \in BOOLEAN /\ nmLoaded \in BOOLEAN
    /\ profile \in Profiles
    /\ active \in BOOLEAN /\ installed \in BOOLEAN
    /\ hardware \in [wifi : BOOLEAN, ethtool : BOOLEAN, shaper : BOOLEAN,
                     driver : Drivers, pm : OnOff, adaptive : OnOff]
    /\ before \in [qdisc : {"default", "custom", "low"}, pm : OnOff, adaptive : OnOff]

-----------------------------------------------------------------------------
Goto(s) == pc' = s

From(s, t) == pc = s /\ Goto(t)

(* Mutant: the index is not reset behind the last file. *)
Following_Mutant(i) == i + 1

Following(i) == IF i < Len(Order) THEN i + 1 ELSE 1

Exists(f) == store[f] # "absent"

-----------------------------------------------------------------------------
(* Interrupt coalescing.                                                   *)

Request(flag, counter) == [adaptive |-> flag, counters |-> counter]

(* ethtool -C takes a request as a whole or not at all; counters that are   *)
(* empty are left out of it, and an empty flag is a syntax error.           *)
Accepts(r) ==
    /\ r.adaptive \in OnOff
    /\ \/ hardware.driver = "plain"
       \/ hardware.driver = "moderating" /\ (r.adaptive = "off" \/ r.counters = Empty)
       \/ hardware.driver = "flags" /\ r.counters = Empty

Set(r) ==
    /\ adaptive' = r.adaptive
    /\ counters' = IF r.counters = Empty THEN counters ELSE r.counters

(* Mutant: there is no second request. *)
SetOr_Mutant(r, s) ==
    IF Accepts(r) THEN Set(r) ELSE UNCHANGED <<adaptive, counters>>

(* The second request is for when the first is not taken. *)
SetOr(r, s) ==
    IF Accepts(r) THEN Set(r)
    ELSE IF Accepts(s) THEN Set(s)
    ELSE UNCHANGED <<adaptive, counters>>

(* ethtool_coalesce_args() *)
Wanted == IF profile = "balanced" THEN Request("on", Empty) ELSE Request("off", "tuned")

-----------------------------------------------------------------------------
(* apply()                                                                 *)

(* start has its backup of the sysctls when it comes to the link; a WiFi    *)
(* card is never given the other profile.                                   *)
Start ==
    /\ From("idle", "qdisc") /\ ~active
    /\ active' = TRUE
    /\ profile' \in IF hardware.wifi THEN {"balanced"} ELSE Profiles
    /\ before' = [qdisc |-> qdisc, pm |-> pm, adaptive |-> adaptive]
    /\ UNCHANGED <<idx, seen, store, link, manager, installed, hardware>>

(* Mutant: a qdisc that was replaced is not noted. *)
ReplaceQdisc_Mutant ==
    /\ From("qdisc", "wifi")
    /\ qdisc' = IF hardware.shaper THEN "low" ELSE qdisc
    /\ UNCHANGED <<idx, seen, store, pm, adaptive, counters, manager, lifecycle, fixed>>

(* Neither cake nor fq_codel may be there to replace it. *)
ReplaceQdisc ==
    /\ From("qdisc", IF hardware.shaper THEN "create" ELSE "wifi")
    /\ qdisc' = IF hardware.shaper THEN "low" ELSE qdisc
    /\ idx' = 1
    /\ UNCHANGED <<seen, store, pm, adaptive, counters, manager, lifecycle, fixed>>

(* Storage::save: the file is there, and empty, before it is written. *)
Create ==
    /\ From("create", "write")
    /\ store' = [store EXCEPT ![Order[idx]] = Empty]
    /\ UNCHANGED <<idx, seen, link, manager, lifecycle, fixed>>

Content ==
    CASE Order[idx] = "wifi_pm_original" -> seen.pm
      [] Order[idx] = "nic_adaptive" -> seen.adaptive
      [] Order[idx] = "nic_counters" -> seen.counters
      [] OTHER -> "iface"

Write ==
    /\ From("write", AfterSave[idx])
    /\ store' = [store EXCEPT ![Order[idx]] = Content]
    /\ idx' = Following(idx)
    /\ UNCHANGED <<seen, link, manager, lifecycle, fixed>>

ReadPowerSave ==
    /\ From("wifi", IF hardware.wifi THEN "create" ELSE "nic")
    /\ idx' = IF hardware.wifi THEN 2 ELSE 4
    /\ seen' = IF hardware.wifi THEN [seen EXCEPT !.pm = pm] ELSE seen
    /\ UNCHANGED <<store, link, manager, lifecycle, fixed>>

PowerSaveOff ==
    /\ From("pm_off", "nm_conf")
    /\ pm' = "off"
    /\ UNCHANGED <<idx, seen, store, qdisc, adaptive, counters, manager, lifecycle, fixed>>

(* The drop-in is written, reloaded and reapplied. *)
ConfigureManager ==
    /\ From("nm_conf", "nic")
    /\ nm' = TRUE /\ nmLoaded' = TRUE
    /\ UNCHANGED <<idx, seen, store, link, lifecycle, fixed>>

(* Without ethtool the card is left alone; what a driver does not tell is   *)
(* "off", or no counter.                                                    *)
ReadCoalescing ==
    /\ From("nic", IF hardware.ethtool THEN "create" ELSE "install")
    /\ idx' = 4
    /\ seen' = [seen EXCEPT
                  !.adaptive = IF hardware.driver = "fixed" THEN "off" ELSE adaptive,
                  !.counters = IF hardware.driver \in {"plain", "moderating"}
                               THEN counters ELSE Empty]
    /\ UNCHANGED <<store, link, manager, lifecycle, fixed>>

Coalesce ==
    /\ From("coalesce", "install")
    /\ SetOr(Wanted, Request("on", Empty))
    /\ UNCHANGED <<idx, seen, store, qdisc, pm, manager, lifecycle, fixed>>

(* write_persistence(), and the rest of apply(). *)
Install ==
    /\ From("install", "idle")
    /\ installed' = TRUE
    /\ UNCHANGED <<idx, seen, store, link, manager, profile, active, fixed>>

-----------------------------------------------------------------------------
(* The boot script: ethtool without the second request, tc and iw.         *)

ScriptCoalesces ==
    /\ pc = "idle" /\ installed /\ hardware.ethtool
    /\ Accepts(Wanted) /\ Set(Wanted)
    /\ UNCHANGED <<control, store, qdisc, pm, manager, lifecycle, fixed>>

ScriptReplacesQdisc ==
    /\ pc = "idle" /\ installed /\ hardware.shaper
    /\ qdisc' = "low"
    /\ UNCHANGED <<control, store, pm, adaptive, counters, manager, lifecycle, fixed>>

ScriptPowersOn ==
    /\ pc = "idle" /\ installed /\ hardware.wifi
    /\ pm' = "off"
    /\ UNCHANGED <<control, store, qdisc, adaptive, counters, manager, lifecycle, fixed>>

-----------------------------------------------------------------------------
(* revert()                                                                *)

(* stop has removed the service, the script and the drop-in by then. *)
Stop ==
    /\ From("idle", "restore_qdisc") /\ active
    /\ installed' = FALSE /\ nm' = FALSE
    /\ UNCHANGED <<idx, seen, store, link, nmLoaded, profile, active, fixed>>

(* Without a name in it, the file is left where it is. *)
RestoreQdisc ==
    /\ From("restore_qdisc", IF store["tc_iface"] = "iface" THEN "remove" ELSE "restore_pm")
    /\ qdisc' = IF store["tc_iface"] = "iface" THEN "default" ELSE qdisc
    /\ idx' = 1
    /\ UNCHANGED <<seen, store, pm, adaptive, counters, manager, lifecycle, fixed>>

Remove ==
    /\ From("remove", AfterRemoval[idx])
    /\ store' = [store EXCEPT ![Order[idx]] = "absent"]
    /\ idx' = Following(idx)
    /\ UNCHANGED <<seen, link, manager, lifecycle, fixed>>

(* Mutant: the original is not looked up. *)
SavedPowerSave_Mutant == "on"

SavedPowerSave == IF Exists("wifi_pm_original") THEN store["wifi_pm_original"] ELSE "on"

RestorePowerSave ==
    /\ From("restore_pm", IF Exists("wifi_pm_iface") THEN "remove" ELSE "restore_nic")
    /\ pm' = IF store["wifi_pm_iface"] = "iface" /\ SavedPowerSave \in OnOff
             THEN SavedPowerSave ELSE pm
    /\ idx' = 2
    /\ UNCHANGED <<seen, store, qdisc, adaptive, counters, manager, lifecycle, fixed>>

(* The drop-in is removed, and NetworkManager told. *)
ForgetManager ==
    /\ From("nm_forget", "restore_nic")
    /\ nm' = FALSE /\ nmLoaded' = FALSE
    /\ UNCHANGED <<idx, seen, store, link, lifecycle, fixed>>

SavedAdaptive == IF Exists("nic_adaptive") THEN store["nic_adaptive"] ELSE "off"

SavedCounters == IF Exists("nic_counters") THEN store["nic_counters"] ELSE Empty

RestoreCoalescing ==
    /\ pc = "restore_nic"
    /\ IF Exists("nic_iface") /\ hardware.ethtool
       THEN /\ Goto("remove")
            /\ IF store["nic_iface"] = "iface"
               THEN SetOr(Request(SavedAdaptive, SavedCounters),
                          Request(SavedAdaptive, Empty))
               ELSE UNCHANGED <<adaptive, counters>>
       ELSE Goto("reverted") /\ UNCHANGED <<adaptive, counters>>
    /\ idx' = 4
    /\ UNCHANGED <<seen, store, qdisc, pm, manager, lifecycle, fixed>>

(* stop ends by removing sysctl_backup ... *)
Reverted ==
    /\ From("reverted", "purge")
    /\ active' = FALSE
    /\ UNCHANGED <<idx, seen, store, link, manager, profile, installed, fixed>>

(* ... and the cleaner, which clean runs alone, the drop-in and the store. *)
Clean ==
    /\ From("idle", "purge") /\ ~active
    /\ UNCHANGED <<idx, seen, store, link, manager, lifecycle, fixed>>

Purge ==
    /\ From("purge", "idle")
    /\ installed' = FALSE /\ nm' = FALSE /\ nmLoaded' = FALSE
    /\ store' = [f \in Files |-> "absent"]
    /\ UNCHANGED <<idx, seen, link, profile, active, fixed>>

-----------------------------------------------------------------------------
(* The environment.                                                        *)

(* Where a kill leaves something revert() does not know or gets wrong: a    *)
(* qdisc that is not noted, a card of which not all is saved (an older file *)
(* may still be there), an original power saving that is removed before the *)
(* note that there is one, a note that is removed before NetworkManager is  *)
(* told.                                                                    *)
Gaps ==
    \/ pc \in {"create", "write"} /\ idx = 1
    \/ pc = "create" /\ idx \in {5, 6}
    \/ pc = "remove" /\ idx = 3
    \/ pc = "nm_forget"

Stopped == pc' = "idle" /\ idx' = 1 /\ seen' = Unread

Kill ==
    /\ pc # "idle" /\ (Gaps => Cut)
    /\ Stopped
    /\ UNCHANGED <<store, link, manager, lifecycle, fixed>>

(* The link is the hardware's again, and NetworkManager reads its files. *)
Reboot ==
    /\ Gaps => Cut
    /\ Stopped
    /\ qdisc' = "default"
    /\ pm' = IF nm THEN "off" ELSE hardware.pm
    /\ adaptive' = hardware.adaptive /\ counters' = "own"
    /\ nmLoaded' = nm
    /\ before' = [before EXCEPT !.qdisc = "default"]
    /\ UNCHANGED <<store, nm, lifecycle, hardware>>

(* NetworkManager connects again while no command runs. *)
Reconnect ==
    /\ pc = "idle" /\ nmLoaded
    /\ pm' = "off"
    /\ UNCHANGED <<control, store, qdisc, adaptive, counters, manager, lifecycle, fixed>>

-----------------------------------------------------------------------------
Init ==
    /\ pc = "idle" /\ idx = 1 /\ seen = Unread
    /\ store = [f \in Files |-> "absent"]
    /\ qdisc \in {"default", "custom"}
    /\ pm \in OnOff /\ adaptive \in OnOff /\ counters = "own"
    /\ nm = FALSE /\ nmLoaded = FALSE
    /\ profile = "balanced" /\ active = FALSE /\ installed = FALSE
    /\ hardware \in [wifi : BOOLEAN, ethtool : BOOLEAN, shaper : BOOLEAN,
                     driver : Drivers, pm : OnOff, adaptive : OnOff]
    /\ before = [qdisc |-> qdisc, pm |-> pm, adaptive |-> adaptive]

Apply ==
    \/ Start \/ ReplaceQdisc \/ Create \/ Write \/ ReadPowerSave \/ PowerSaveOff
    \/ ConfigureManager \/ ReadCoalescing \/ Coalesce \/ Install

Script == ScriptCoalesces \/ ScriptReplacesQdisc \/ ScriptPowersOn

Revert ==
    \/ Stop \/ RestoreQdisc \/ Remove \/ RestorePowerSave \/ ForgetManager
    \/ RestoreCoalescing \/ Reverted \/ Clean \/ Purge

Next == Apply \/ Script \/ Revert \/ Kill \/ Reboot \/ Reconnect

Spec == Init /\ [][Next]_vars

-----------------------------------------------------------------------------
(* Properties.                                                             *)

(* Whenever betterconn is not active, "the original NIC coalescing          *)
(* parameters" (README.md:147) are in force again, or a boot's: the flag is *)
(* back, and counters of betterconn's are not used, although the driver may *)
(* refuse the request that would restore both at once.                      *)
CoalescingRestored ==
    ~active =>
        /\ adaptive \in {before.adaptive, hardware.adaptive}
        /\ adaptive = "off" => counters = "own"

(* Whenever betterconn is not active its qdisc is gone, whichever of start, *)
(* boot and an interrupted stop came last.                                  *)
QdiscRestored == ~active => qdisc # "low"

(* Whenever betterconn is not active the card saves power as it did before, *)
(* or as it does after a boot, and NetworkManager will not keep it from it  *)
(* at the next connect.                                                     *)
PowerSaveRestored ==
    ~active => pm \in {before.pm, hardware.pm} /\ ~nm /\ ~nmLoaded

(* "After `stop`, the machine behaves exactly as it did before" (README.md, *)
(* line 147), a root qdisc of somebody's own included.  It does not:        *)
(* apply() saves that it replaced the qdisc, not which one.                 *)
QdiscAsBefore == pc = "reverted" => qdisc = before.qdisc
=============================================================================
