-------------------------- MODULE LinkTuningProofs --------------------------
(* What is proved about LinkTuning: what stop gives back of the link, for   *)
(* any card and driver, wherever start, stop and the boot script were       *)
(* interrupted outside of the Gaps.                                         *)
EXTENDS LinkTuning, TLAPS

-----------------------------------------------------------------------------
(* The inductive invariant: for each of the three, what is on record while  *)
(* the link is not what it was, step by step of apply() and revert().       *)

Applying == {"qdisc", "create", "write", "wifi", "pm_off", "nm_conf", "nic", "coalesce",
             "install"}
Reverting == {"restore_qdisc", "remove", "restore_pm", "nm_forget", "restore_nic",
              "reverted"}

Steps == {"idle", "purge"} \cup Applying \cup Reverting

(* The command is saving, or removing, one of these files.                *)
Saving(files) == pc \in {"create", "write"} /\ idx \in files
Removing(files) == pc = "remove" /\ idx \in files

(* What is saved of the counters can be given back as counters. *)
CountersTyped == store["nic_counters"] \in Counters \cup {"absent", Empty}

LifecycleInv ==
    /\ pc \in Applying \cup Reverting => active
    /\ pc = "purge" => ~active
    /\ installed => active /\ pc = "idle"

QdiscSetBefore == pc \in {"wifi", "pm_off", "nm_conf", "nic", "coalesce", "install"}
QdiscRestoredBy == pc \in {"restore_pm", "nm_forget", "restore_nic", "reverted"}

(* A replaced qdisc is noted, or its note is being written. *)
QdiscInv ==
    /\ qdisc = "low" => store["tc_iface"] = "iface" \/ Saving({1})
    /\ ~active \/ pc = "remove" \/ QdiscRestoredBy => qdisc # "low"
    /\ hardware.shaper /\ (installed \/ Saving({2, 3, 4, 5, 6}) \/ QdiscSetBefore) =>
         store["tc_iface"] = "iface"

Powers == {before.pm, hardware.pm}

(* Power saving is as it was, or what it was is on record; only then may    *)
(* NetworkManager be told to turn it off.                                   *)
PowerInv ==
    /\ pm \in Powers \/ store["wifi_pm_iface"] = "iface"
    /\ nm \/ nmLoaded => store["wifi_pm_iface"] = "iface" \/ pc = "nm_forget"
    /\ store["wifi_pm_iface"] = "iface" =>
         store["wifi_pm_original"] \in Powers \/ (pc = "remove" /\ idx = 3)
    /\ Removing({2, 3, 4, 5, 6}) \/ pc \in {"nm_forget", "restore_nic", "reverted"} =>
         pm \in Powers
    /\ Saving({2}) => seen.pm \in Powers
    /\ Saving({3}) => store["wifi_pm_original"] \in Powers

PowerUnsaved ==
    pc \in {"qdisc", "wifi"} \/ Saving({1, 2}) \/ (pc = "create" /\ idx = 3)
PowerSetBefore == pc \in {"nic", "coalesce", "install"}
PowerRestored == Removing({4, 5, 6}) \/ pc \in {"nm_forget", "restore_nic", "reverted"}

(* The note that there is an original is there for as long as it is needed, *)
(* and no longer.                                                           *)
PowerNoteInv ==
    /\ ~active \/ PowerUnsaved \/ PowerRestored => store["wifi_pm_iface"] = "absent"
    /\ pc = "write" /\ idx = 3 => store["wifi_pm_iface"] = Empty
    /\ pc \in {"pm_off", "nm_conf"} => store["wifi_pm_iface"] = "iface"
    /\ hardware.wifi /\ (installed \/ Saving({4, 5, 6}) \/ PowerSetBefore) =>
         store["wifi_pm_iface"] = "iface"

Flags == {before.adaptive, hardware.adaptive}

AsBefore == adaptive \in Flags /\ (adaptive = "off" => counters = "own")

(* What is on record restores the coalescing from whatever it is now ...    *)
Complete ==
    \/ hardware.driver = "fixed"
    \/ /\ store["nic_adaptive"] \in Flags
       /\ store["nic_adaptive"] = "off" =>
            store["nic_counters"] = "own" \/ hardware.driver = "flags"

(* ... or from what it is as long as it has not been changed.               *)
Restorable ==
    \/ hardware.driver = "fixed"
    \/ store["nic_adaptive"] = Empty /\ AsBefore
    \/ /\ store["nic_adaptive"] \in Flags
       /\ store["nic_adaptive"] = "off" =>
            \/ store["nic_counters"] = "own"
            \/ store["nic_counters"] = Empty /\ counters = "own"

CoalescingInv ==
    /\ hardware.driver \in {"flags", "fixed"} => counters = "own"
    /\ hardware.driver = "fixed" => adaptive \in Flags
    /\ AsBefore \/ (store["nic_iface"] = "iface" /\ Complete)
    /\ ~active \/ pc \in {"create", "write"} \/ Removing({4, 5, 6}) \/ pc = "reverted" =>
         AsBefore
    /\ store["nic_iface"] = "iface" /\ ~Saving({5, 6}) => Restorable
    /\ pc = "coalesce" \/ (hardware.ethtool /\ (installed \/ pc = "install")) =>
         store["nic_iface"] = "iface" /\ Complete

CoalescingUnsaved ==
    \/ pc \in {"qdisc", "wifi", "pm_off", "nm_conf", "nic"}
    \/ Saving({1, 2, 3}) \/ (pc = "create" /\ idx = 4)

(* What apply() has read of the card, and what it has of that in the store. *)
CoalescingNoteInv ==
    /\ ~active \/ CoalescingUnsaved \/ Removing({5, 6}) \/ pc = "reverted" =>
         store["nic_iface"] = "absent"
    /\ pc = "write" /\ idx = 4 => store["nic_iface"] = Empty
    /\ Saving({5, 6}) => store["nic_iface"] = "iface"
    /\ ~hardware.ethtool => store["nic_iface"] = "absent"
    /\ Saving({4, 5, 6}) =>
         /\ hardware.ethtool
         /\ hardware.driver = "fixed" \/ seen.adaptive = adaptive
         /\ hardware.driver \in {"plain", "moderating"} => seen.counters = counters
         /\ hardware.driver = "flags" => seen.counters = Empty
    /\ pc = "write" /\ idx = 5 => store["nic_adaptive"] = Empty
    /\ Saving({6}) =>
         hardware.driver = "fixed" \/ store["nic_adaptive"] = adaptive
    /\ pc = "write" /\ idx = 6 => store["nic_counters"] = Empty

IInv ==
    /\ TypeOK /\ CountersTyped /\ LifecycleInv /\ QdiscInv
    /\ PowerInv /\ PowerNoteInv
    /\ CoalescingInv /\ CoalescingNoteInv

-----------------------------------------------------------------------------
(* The files, and the steps that come after each of them.                   *)

LEMMA EmptyIsNoWord ==
    /\ Empty # "absent" /\ Empty # "iface" /\ Empty # "on"
    /\ Empty # "off" /\ Empty # "own" /\ Empty # "tuned"
BY Zenon DEF Empty

LEMMA OrderValues ==
    /\ DOMAIN Order = 1..6
    /\ Order[1] = "tc_iface" /\ Order[2] = "wifi_pm_original"
    /\ Order[3] = "wifi_pm_iface" /\ Order[4] = "nic_iface"
    /\ Order[5] = "nic_adaptive" /\ Order[6] = "nic_counters"
BY DEF Order

LEMMA FileNames ==
    Files = {"tc_iface", "wifi_pm_original", "wifi_pm_iface",
             "nic_iface", "nic_adaptive", "nic_counters"}
<1>1. Files = {Order[i] : i \in 1..6}
  BY OrderValues DEF Files
<1>2. 1..6 = {1, 2, 3, 4, 5, 6}
  OBVIOUS
<1>3. Files = {Order[1], Order[2], Order[3], Order[4], Order[5], Order[6]}
  BY <1>1, <1>2
<1> QED
  BY <1>3, OrderValues

LEMMA StepsAfter ==
    /\ AfterSave[1] = "wifi" /\ AfterSave[2] = "create" /\ AfterSave[3] = "pm_off"
    /\ AfterSave[4] = "create" /\ AfterSave[5] = "create" /\ AfterSave[6] = "coalesce"
    /\ AfterRemoval[1] = "restore_pm" /\ AfterRemoval[2] = "remove"
    /\ AfterRemoval[3] = "nm_forget" /\ AfterRemoval[4] = "remove"
    /\ AfterRemoval[5] = "remove" /\ AfterRemoval[6] = "reverted"
BY DEF AfterSave, AfterRemoval

LEMMA FollowingValues ==
    ASSUME NEW i \in 1..6
    PROVE  Following(i) = IF i = 6 THEN 1 ELSE i + 1
<1>1. Len(Order) = 6
  BY DEF Order
<1> QED
  BY <1>1 DEF Following

(* The file of an index, the step after it, and what is written into it.    *)
Turn(i, f, c, next, other) ==
    /\ Order[i] = f /\ AfterSave[i] = next /\ AfterRemoval[i] = other
    /\ idx = i => Content = c

LEMMA Turns ==
    /\ Turn(1, "tc_iface", "iface", "wifi", "restore_pm")
    /\ Turn(2, "wifi_pm_original", seen.pm, "create", "remove")
    /\ Turn(3, "wifi_pm_iface", "iface", "pm_off", "nm_forget")
    /\ Turn(4, "nic_iface", "iface", "create", "remove")
    /\ Turn(5, "nic_adaptive", seen.adaptive, "create", "remove")
    /\ Turn(6, "nic_counters", seen.counters, "coalesce", "reverted")
BY OrderValues, StepsAfter DEF Turn, Content

(* The content of the other files stays. *)
Kept(f) ==
    /\ f # "tc_iface" => store'["tc_iface"] = store["tc_iface"]
    /\ f # "wifi_pm_original" => store'["wifi_pm_original"] = store["wifi_pm_original"]
    /\ f # "wifi_pm_iface" => store'["wifi_pm_iface"] = store["wifi_pm_iface"]
    /\ f # "nic_iface" => store'["nic_iface"] = store["nic_iface"]
    /\ f # "nic_adaptive" => store'["nic_adaptive"] = store["nic_adaptive"]
    /\ f # "nic_counters" => store'["nic_counters"] = store["nic_counters"]

Saves(i, f, c, next, next_idx) ==
    idx = i /\ pc' = next /\ idx' = next_idx /\ store'[f] = c /\ Kept(f)

LEMMA SavesOne ==
    ASSUME TypeOK, NEW i, NEW f \in Files, NEW c, NEW next, NEW next_idx,
           idx = i, pc' = next, idx' = next_idx, store' = [store EXCEPT ![f] = c]
    PROVE  Saves(i, f, c, next, next_idx)
<1>1. store \in [Files -> {"absent", Empty, "iface"} \cup OnOff \cup Counters]
  BY DEF TypeOK
<1> QED
  BY <1>1, FileNames DEF Saves, Kept

(* One of the six is next.                                                  *)
LEMMA IndexCases ==
    ASSUME TypeOK
    PROVE  idx = 1 \/ idx = 2 \/ idx = 3 \/ idx = 4 \/ idx = 5 \/ idx = 6
<1>1. idx \in 1..6
  BY OrderValues DEF TypeOK
<1> QED
  BY <1>1

(* Each of the six writes, removals and creations, one by one.              *)
LEMMA WriteTurn ==
    ASSUME TypeOK, Write, NEW i, NEW f \in Files, NEW c, NEW next, NEW other,
           Turn(i, f, c, next, other), idx = i
    PROVE  Saves(i, f, c, next, Following(i))
BY SavesOne DEF Turn, Write, From, Goto

LEMMA WriteCases ==
    ASSUME TypeOK, Write
    PROVE  \/ Saves(1, "tc_iface", "iface", "wifi", 2)
           \/ Saves(2, "wifi_pm_original", seen.pm, "create", 3)
           \/ Saves(3, "wifi_pm_iface", "iface", "pm_off", 4)
           \/ Saves(4, "nic_iface", "iface", "create", 5)
           \/ Saves(5, "nic_adaptive", seen.adaptive, "create", 6)
           \/ Saves(6, "nic_counters", seen.counters, "coalesce", 1)
<1>1. idx = 1 \/ idx = 2 \/ idx = 3 \/ idx = 4 \/ idx = 5 \/ idx = 6
  BY IndexCases
<1>2. /\ Following(1) = 2 /\ Following(2) = 3 /\ Following(3) = 4
      /\ Following(4) = 5 /\ Following(5) = 6 /\ Following(6) = 1
  BY FollowingValues
<1> QED
  BY <1>1, <1>2, Turns, FileNames, WriteTurn

LEMMA RemoveTurn ==
    ASSUME TypeOK, Remove, NEW i, NEW f \in Files, NEW c, NEW next, NEW other,
           Turn(i, f, c, next, other), idx = i
    PROVE  Saves(i, f, "absent", other, Following(i))
BY SavesOne DEF Turn, Remove, From, Goto

LEMMA RemoveCases ==
    ASSUME TypeOK, Remove
    PROVE  \/ Saves(1, "tc_iface", "absent", "restore_pm", 2)
           \/ Saves(2, "wifi_pm_original", "absent", "remove", 3)
           \/ Saves(3, "wifi_pm_iface", "absent", "nm_forget", 4)
           \/ Saves(4, "nic_iface", "absent", "remove", 5)
           \/ Saves(5, "nic_adaptive", "absent", "remove", 6)
           \/ Saves(6, "nic_counters", "absent", "reverted", 1)
<1>1. idx = 1 \/ idx = 2 \/ idx = 3 \/ idx = 4 \/ idx = 5 \/ idx = 6
  BY IndexCases
<1>2. /\ Following(1) = 2 /\ Following(2) = 3 /\ Following(3) = 4
      /\ Following(4) = 5 /\ Following(5) = 6 /\ Following(6) = 1
  BY FollowingValues
<1> QED
  BY <1>1, <1>2, Turns, FileNames, RemoveTurn

LEMMA CreateTurn ==
    ASSUME TypeOK, Create, NEW i, NEW f \in Files, NEW c, NEW next, NEW other,
           Turn(i, f, c, next, other), idx = i
    PROVE  Saves(i, f, Empty, "write", i)
BY SavesOne DEF Turn, Create, From, Goto

LEMMA CreateCases ==
    ASSUME TypeOK, Create
    PROVE  \/ Saves(1, "tc_iface", Empty, "write", 1)
           \/ Saves(2, "wifi_pm_original", Empty, "write", 2)
           \/ Saves(3, "wifi_pm_iface", Empty, "write", 3)
           \/ Saves(4, "nic_iface", Empty, "write", 4)
           \/ Saves(5, "nic_adaptive", Empty, "write", 5)
           \/ Saves(6, "nic_counters", Empty, "write", 6)
<1>1. idx = 1 \/ idx = 2 \/ idx = 3 \/ idx = 4 \/ idx = 5 \/ idx = 6
  BY IndexCases
<1>2. /\ Following(1) = 2 /\ Following(2) = 3 /\ Following(3) = 4
      /\ Following(4) = 5 /\ Following(5) = 6 /\ Following(6) = 1
  BY FollowingValues
<1> QED
  BY <1>1, <1>2, Turns, FileNames, CreateTurn

-----------------------------------------------------------------------------
(* The variables keep their types.                                          *)

(* Who changes what.                                                        *)
LEMMA Unmoved ==
    ASSUME [Next]_vars
    PROVE  /\ hardware' = hardware
           /\ \/ before' = before
              \/ before' = [before EXCEPT !.qdisc = "default"]
              \/ before' = [qdisc |-> qdisc, pm |-> pm, adaptive |-> adaptive]
           /\ seen' = seen \/ ReadPowerSave \/ ReadCoalescing \/ Stopped
           /\ store' = store \/ Create \/ Write \/ Remove \/ Purge
BY DEF Next, Apply, Script, Revert, Start, ReplaceQdisc, Create, Write,
      ReadPowerSave, PowerSaveOff, ConfigureManager, ReadCoalescing, Coalesce,
      Install, ScriptCoalesces, ScriptReplacesQdisc, ScriptPowersOn, Stop,
      RestoreQdisc, Remove, RestorePowerSave, ForgetManager, RestoreCoalescing,
      Reverted, Clean, Purge, Kill, Reboot, Reconnect, Stopped, vars, control, link,
      manager, lifecycle, fixed

(* What start asks of the driver, and what it writes into a file.           *)
LEMMA WantedTyped ==
    /\ Wanted \in [adaptive : OnOff, counters : {Empty, "tuned"}]
    /\ Request("on", Empty) \in [adaptive : OnOff, counters : {Empty, "tuned"}]
BY DEF Wanted, Request, OnOff

LEMMA ContentTyped ==
    ASSUME TypeOK
    PROVE  Content \in {"iface"} \cup OnOff \cup Counters \cup {Empty}
BY DEF Content, TypeOK

(* Each step keeps the types; its part about the counters is not in TypeOK, *)
(* and needed for it: stop gives back what it finds in nic_counters.        *)
LEMMA NextTyped ==
    ASSUME TypeOK, CountersTyped, [Next]_vars
    PROVE  TypeOK'
<1>1. hardware' = hardware
  BY Unmoved
<1>2. before' \in [qdisc : {"default", "custom", "low"}, pm : OnOff, adaptive : OnOff]
  <2>1. CASE before' = before
    BY <2>1 DEF TypeOK
  <2>2. CASE before' = [before EXCEPT !.qdisc = "default"]
    BY <2>2 DEF TypeOK
  <2>3. CASE before' = [qdisc |-> qdisc, pm |-> pm, adaptive |-> adaptive]
    BY <2>3 DEF TypeOK
  <2> QED
    BY <2>1, <2>2, <2>3, Unmoved
<1>3. seen' \in [pm : OnOff, adaptive : OnOff, counters : Counters \cup {Empty}]
  <2>1. CASE ReadPowerSave
    BY <2>1 DEF ReadPowerSave, TypeOK
  <2>2. CASE ReadCoalescing
    BY <2>2 DEF ReadCoalescing, TypeOK, OnOff
  <2>3. CASE Stopped
    BY <2>3 DEF Stopped, Unread, OnOff
  <2> QED
    BY <2>1, <2>2, <2>3, Unmoved DEF TypeOK
<1>4. store' \in [Files -> {"absent", Empty, "iface"} \cup OnOff \cup Counters]
  <2>1. Order[idx] \in Files
    BY DEF Files, TypeOK
  <2>2. CASE Create
    BY <2>1, <2>2 DEF Create, TypeOK
  <2>3. CASE Write
    BY <2>1, <2>3, ContentTyped DEF Write, TypeOK
  <2>4. CASE Remove
    BY <2>1, <2>4 DEF Remove, TypeOK
  <2>5. CASE Purge
    BY <2>5 DEF Purge
  <2> QED
    BY <2>2, <2>3, <2>4, <2>5, Unmoved DEF TypeOK
<1>5. idx' \in DOMAIN Order
  <2>1. CASE Write \/ Remove
    <3>1. idx' = Following(idx) /\ idx \in 1..6
      BY <2>1, OrderValues DEF Write, Remove, TypeOK
    <3> QED
      BY <3>1, FollowingValues, OrderValues
  <2>2. CASE ~(Write \/ Remove)
    <3>1. idx' \in {idx, 1, 2, 4}
      BY <2>2
      DEF Next, Apply, Script, Revert, Start, ReplaceQdisc, Create,
          ReadPowerSave, PowerSaveOff, ConfigureManager, ReadCoalescing,
          Coalesce, Install, ScriptCoalesces, ScriptReplacesQdisc,
          ScriptPowersOn, Stop, RestoreQdisc, RestorePowerSave, ForgetManager,
          RestoreCoalescing, Reverted, Clean, Purge, Kill, Reboot, Reconnect,
          Stopped, vars, control
    <3>2. idx \in 1..6
      BY OrderValues DEF TypeOK
    <3> QED
      BY <3>1, <3>2, OrderValues
  <2> QED
    BY <2>1, <2>2
<1>6. pc' \in Steps
  <2>1. CASE Write
    BY <2>1, WriteCases DEF Saves, Steps, Applying, Reverting
  <2>2. CASE Remove
    BY <2>2, RemoveCases DEF Saves, Steps, Applying, Reverting
  <2>3. CASE ~(Write \/ Remove)
    <3>1. pc' \in {pc, "idle", "purge"} \cup Applying \cup Reverting
      BY <2>3
      DEF Next, Apply, Script, Revert, Start, ReplaceQdisc, Create,
          ReadPowerSave, PowerSaveOff, ConfigureManager, ReadCoalescing,
          Coalesce, Install, ScriptCoalesces, ScriptReplacesQdisc,
          ScriptPowersOn, Stop, RestoreQdisc, RestorePowerSave, ForgetManager,
          RestoreCoalescing, Reverted, Clean, Purge, Kill, Reboot, Reconnect,
          Stopped, vars, control, From, Goto, Applying, Reverting
    <3>2. pc \in Steps
      BY DEF TypeOK, Steps, Applying, Reverting
    <3> QED
      BY <3>1, <3>2 DEF Steps
  <2> QED
    BY <2>1, <2>2, <2>3
<1>7. /\ qdisc' \in {"default", "custom", "low"}
      /\ nm' \in BOOLEAN /\ nmLoaded' \in BOOLEAN
      /\ active' \in BOOLEAN /\ installed' \in BOOLEAN
      /\ profile' \in Profiles
  <2>1. qdisc' \in {"default", "custom", "low"}
    BY
    DEF Next, Apply, Script, Revert, Start, ReplaceQdisc, Create, Write,
        ReadPowerSave, PowerSaveOff, ConfigureManager, ReadCoalescing, Coalesce,
        Install, ScriptCoalesces, ScriptReplacesQdisc, ScriptPowersOn, Stop,
        RestoreQdisc, Remove, RestorePowerSave, ForgetManager,
        RestoreCoalescing, Reverted, Clean, Purge, Kill, Reboot, Reconnect,
        Stopped, vars, control, link, manager, lifecycle, fixed, Profiles,
        TypeOK
  <2>2. nm' \in BOOLEAN /\ nmLoaded' \in BOOLEAN
    BY
    DEF Next, Apply, Script, Revert, Start, ReplaceQdisc, Create, Write,
        ReadPowerSave, PowerSaveOff, ConfigureManager, ReadCoalescing, Coalesce,
        Install, ScriptCoalesces, ScriptReplacesQdisc, ScriptPowersOn, Stop,
        RestoreQdisc, Remove, RestorePowerSave, ForgetManager,
        RestoreCoalescing, Reverted, Clean, Purge, Kill, Reboot, Reconnect,
        Stopped, vars, control, link, manager, lifecycle, fixed, Profiles,
        TypeOK
  <2>3. active' \in BOOLEAN /\ installed' \in BOOLEAN
    BY
    DEF Next, Apply, Script, Revert, Start, ReplaceQdisc, Create, Write,
        ReadPowerSave, PowerSaveOff, ConfigureManager, ReadCoalescing, Coalesce,
        Install, ScriptCoalesces, ScriptReplacesQdisc, ScriptPowersOn, Stop,
        RestoreQdisc, Remove, RestorePowerSave, ForgetManager,
        RestoreCoalescing, Reverted, Clean, Purge, Kill, Reboot, Reconnect,
        Stopped, vars, control, link, manager, lifecycle, fixed, Profiles,
        TypeOK
  <2>4. profile' \in Profiles
    BY
    DEF Next, Apply, Script, Revert, Start, ReplaceQdisc, Create, Write,
        ReadPowerSave, PowerSaveOff, ConfigureManager, ReadCoalescing, Coalesce,
        Install, ScriptCoalesces, ScriptReplacesQdisc, ScriptPowersOn, Stop,
        RestoreQdisc, Remove, RestorePowerSave, ForgetManager,
        RestoreCoalescing, Reverted, Clean, Purge, Kill, Reboot, Reconnect,
        Stopped, vars, control, link, manager, lifecycle, fixed, Profiles,
        TypeOK
  <2> QED
    BY <2>1, <2>2, <2>3, <2>4
<1>8. pm' \in OnOff
  BY DEF Next, Apply, Script, Revert, Start, ReplaceQdisc, Create, Write,
      ReadPowerSave, PowerSaveOff, ConfigureManager, ReadCoalescing, Coalesce,
      Install, ScriptCoalesces, ScriptReplacesQdisc, ScriptPowersOn, Stop,
      RestoreQdisc, Remove, RestorePowerSave, ForgetManager, RestoreCoalescing,
      Reverted, Clean, Purge, Kill, Reboot, Reconnect, Stopped, vars, control, link,
      manager, lifecycle, fixed, TypeOK, OnOff
<1>9. adaptive' \in OnOff /\ counters' \in Counters
  <2>1. CASE Coalesce
    BY <2>1, WantedTyped DEF Coalesce, SetOr, Set, TypeOK, Counters
  <2>2. CASE ScriptCoalesces
    BY <2>2, WantedTyped DEF ScriptCoalesces, Set, TypeOK, Counters
  <2>3. CASE RestoreCoalescing
    <3>1. SavedCounters \in Counters \cup {Empty}
      BY DEF SavedCounters, Exists, CountersTyped
    <3>2. ASSUME NEW flag, NEW c \in Counters \cup {Empty},
                 Accepts(Request(flag, c)), Set(Request(flag, c))
          PROVE  adaptive' \in OnOff /\ counters' \in Counters
      BY <3>2 DEF Request, Accepts, Set, TypeOK
    <3> QED
      BY <2>3, <3>1, <3>2 DEF RestoreCoalescing, SetOr, TypeOK
  <2>4. CASE ~(Coalesce \/ ScriptCoalesces \/ RestoreCoalescing)
    BY <2>4
    DEF Next, Apply, Script, Revert, Start, ReplaceQdisc, Create, Write,
        ReadPowerSave, PowerSaveOff, ConfigureManager, ReadCoalescing, Install,
        ScriptReplacesQdisc, ScriptPowersOn, Stop, RestoreQdisc, Remove,
        RestorePowerSave, ForgetManager, Reverted, Clean, Purge, Kill, Reboot,
        Reconnect, Stopped, vars, control, link, manager, lifecycle, fixed,
        TypeOK, Counters
  <2> QED
    BY <2>1, <2>2, <2>3, <2>4
<1> QED
  BY <1>1, <1>2, <1>3, <1>4, <1>5, <1>6, <1>7, <1>8, <1>9
  DEF TypeOK, Steps, Applying, Reverting

(* What is saved of the counters stays an answer of the driver, or empty.   *)
LEMMA NextCountersTyped ==
    ASSUME TypeOK, CountersTyped, [Next]_vars
    PROVE  CountersTyped'
<1>1. store \in [Files -> {"absent", Empty, "iface"} \cup OnOff \cup Counters]
  BY DEF TypeOK
<1>2. CASE Create
  BY <1>1, <1>2, CreateCases, FileNames, EmptyIsNoWord DEF Saves, Kept, CountersTyped
<1>3. CASE Write
  <2>1. seen.counters \in Counters \cup {Empty}
    BY DEF TypeOK
  <2> QED
    BY <1>1, <1>3, <2>1, WriteCases, FileNames, EmptyIsNoWord DEF Saves, Kept, CountersTyped
<1>4. CASE Remove
  BY <1>1, <1>4, RemoveCases, FileNames, EmptyIsNoWord DEF Saves, Kept, CountersTyped
<1>5. CASE Purge
  BY <1>5, FileNames DEF Purge, CountersTyped
<1>6. CASE store' = store
  BY <1>6 DEF CountersTyped
<1> QED
  BY <1>2, <1>3, <1>4, <1>5, <1>6, Unmoved

(* The types hold before the first command.                                 *)
LEMMA InitTyped == Init => TypeOK /\ CountersTyped
<1> SUFFICES ASSUME Init
             PROVE  TypeOK /\ CountersTyped
  OBVIOUS
<1>1. seen \in [pm : OnOff, adaptive : OnOff, counters : Counters \cup {Empty}]
  BY DEF Init, Unread, OnOff
<1>2. before \in [qdisc : {"default", "custom", "low"}, pm : OnOff, adaptive : OnOff]
  BY DEF Init
<1>3. store \in [Files -> {"absent", Empty, "iface"} \cup OnOff \cup Counters]
  BY DEF Init
<1>4. CountersTyped
  BY FileNames DEF Init, CountersTyped
<1>5. idx \in DOMAIN Order /\ profile \in Profiles /\ counters \in Counters
  BY OrderValues DEF Init, Profiles, Counters
<1> QED
  BY <1>1, <1>2, <1>3, <1>4, <1>5 DEF Init, TypeOK

(* Every variable keeps its type, wherever a command is killed.             *)
THEOREM LinkTypeCorrect == Spec => []TypeOK
<1> DEFINE I == TypeOK /\ CountersTyped
<1>1. Init => I
  BY InitTyped
<1>2. I /\ [Next]_vars => I'
  BY NextTyped, NextCountersTyped
<1> QED
  BY <1>1, <1>2, PTL DEF Spec

-----------------------------------------------------------------------------
(* What a driver that takes a request does with it. *)
LEMMA Accepted ==
    ASSUME NEW r, Accepts(r), Set(r)
    PROVE  /\ hardware.driver \in {"plain", "moderating", "flags"}
           /\ adaptive' = r.adaptive /\ r.adaptive \in OnOff
           /\ counters' = IF r.counters = Empty THEN counters ELSE r.counters
           /\ hardware.driver = "flags" => r.counters = Empty
BY DEF Accepts, Set

(* With all or none of the card on record, the request of revert() and its  *)
(* fallback give back the flag, and the counters where the flag is off.     *)
LEMMA RestoredCoalescing ==
    ASSUME IInv, RestoreCoalescing, Exists("nic_iface"), hardware.ethtool
    PROVE  /\ AsBefore'
           /\ hardware.driver \in {"flags", "fixed"} => counters' = "own"
<1> DEFINE first == Request(SavedAdaptive, SavedCounters)
           second == Request(SavedAdaptive, Empty)
<1> USE EmptyIsNoWord
<1>1. /\ hardware.driver \in {"plain", "moderating", "flags", "fixed"}
      /\ before.adaptive \in {"on", "off"} /\ hardware.adaptive \in {"on", "off"}
      /\ OnOff = {"on", "off"}
  BY DEF IInv, TypeOK, Drivers, OnOff
<1>2. /\ hardware.driver \in {"flags", "fixed"} => counters = "own"
      /\ hardware.driver = "fixed" => AsBefore
      /\ store["nic_iface"] # "iface" => AsBefore
      /\ store["nic_iface"] = "iface" => Restorable
  BY DEF IInv, CoalescingInv, RestoreCoalescing, Saving, AsBefore
<1>3. Flags' = Flags
  BY DEF RestoreCoalescing, fixed, Flags
<1>4. CASE UNCHANGED <<adaptive, counters>> /\ AsBefore
  BY <1>2, <1>3, <1>4 DEF AsBefore
<1>5. CASE store["nic_iface"] = "iface" /\ hardware.driver # "fixed"
  <2>1. SetOr(first, second)
    BY <1>5 DEF RestoreCoalescing
  <2>2. /\ first.adaptive = SavedAdaptive /\ first.counters = SavedCounters
        /\ second.adaptive = SavedAdaptive /\ second.counters = Empty
    BY DEF Request
  <2>3. CASE store["nic_adaptive"] = Empty /\ AsBefore
    <3>1. SavedAdaptive = Empty
      BY <2>3 DEF SavedAdaptive, Exists
    <3>2. ~Accepts(first) /\ ~Accepts(second)
      BY <1>1, <2>2, <3>1 DEF Accepts
    <3> QED
      BY <1>4, <2>1, <2>3, <3>2 DEF SetOr
  <2>4. CASE ~(store["nic_adaptive"] = Empty /\ AsBefore)
    <3>1. /\ store["nic_adaptive"] \in Flags
          /\ store["nic_adaptive"] = "off" =>
               \/ store["nic_counters"] = "own"
               \/ store["nic_counters"] = Empty /\ counters = "own"
      BY <1>2, <1>5, <2>4 DEF Restorable
    <3>2. /\ SavedAdaptive = store["nic_adaptive"] /\ SavedAdaptive \in OnOff
          /\ SavedAdaptive = "off" =>
               \/ SavedCounters = "own"
               \/ SavedCounters = Empty /\ counters = "own"
      BY <1>1, <3>1 DEF SavedAdaptive, SavedCounters, Exists, Flags
    <3>3. Accepts(second)
      BY <1>1, <1>5, <2>2, <3>2 DEF Accepts
    <3>4. CASE Accepts(first)
      <4>1. Set(first)
        BY <2>1, <3>4 DEF SetOr
      <4>2. /\ adaptive' = SavedAdaptive
            /\ counters' = (IF SavedCounters = Empty THEN counters ELSE SavedCounters)
            /\ hardware.driver = "flags" => SavedCounters = Empty
        BY <2>2, <3>4, <4>1, Accepted
      <4> QED
        BY <1>2, <1>3, <1>5, <3>1, <3>2, <4>2 DEF AsBefore
    <3>5. CASE ~Accepts(first)
      <4>1. Set(second)
        BY <2>1, <3>3, <3>5 DEF SetOr
      <4>2. adaptive' = SavedAdaptive /\ counters' = counters
        BY <2>2, <3>3, <4>1, Accepted
      <4>3. hardware.driver = "flags" \/ SavedAdaptive = "on" \/ SavedCounters = Empty
        BY <1>1, <1>5, <2>2, <3>2, <3>5 DEF Accepts
      <4> QED
        BY <1>1, <1>2, <1>3, <3>1, <3>2, <4>2, <4>3 DEF AsBefore
    <3> QED
      BY <3>4, <3>5
  <2> QED
    BY <2>3, <2>4
<1>6. CASE hardware.driver = "fixed" \/ store["nic_iface"] # "iface"
  <2>1. UNCHANGED <<adaptive, counters>>
    BY <1>6 DEF RestoreCoalescing, SetOr, Accepts
  <2> QED
    BY <1>2, <1>4, <1>6, <2>1
<1> QED
  BY <1>5, <1>6

(* Each step keeps the invariant, provided that nothing is interrupted in   *)
(* one of the Gaps.                                                         *)
LEMMA NextInvariant ==
    ASSUME IInv, ~Cut, [Next]_vars
    PROVE  IInv'
<1> USE DEF IInv, LifecycleInv, Applying, Reverting, Saving, Removing, From, Goto,
            link, manager, lifecycle, fixed, control, QdiscSetBefore, QdiscRestoredBy,
            PowerUnsaved, PowerSetBefore, PowerRestored, Powers,
            CoalescingUnsaved, Flags, AsBefore, Complete, Restorable
<1> USE EmptyIsNoWord
<1>0. TypeOK' /\ CountersTyped'
  BY NextTyped, NextCountersTyped
<1>files. /\ store \in [Files -> {"absent", Empty, "iface"} \cup OnOff \cup Counters]
          /\ "tc_iface" \in Files /\ "nic_iface" \in Files
          /\ "wifi_pm_iface" \in Files /\ "wifi_pm_original" \in Files
          /\ "nic_adaptive" \in Files /\ "nic_counters" \in Files
  BY FileNames DEF TypeOK
<1>seen. seen \in [pm : OnOff, adaptive : OnOff, counters : Counters \cup {Empty}]
  BY DEF TypeOK
<1>before. before \in [qdisc : {"default", "custom", "low"}, pm : OnOff, adaptive : OnOff]
  BY DEF TypeOK
<1>card. /\ hardware.driver \in {"plain", "moderating", "flags", "fixed"}
         /\ before.pm \in OnOff /\ hardware.pm \in OnOff
         /\ before.adaptive \in OnOff /\ hardware.adaptive \in OnOff
         /\ OnOff = {"on", "off"}
  BY DEF TypeOK, Drivers, OnOff
<1>1. CASE Start
  <2>1. LifecycleInv' /\ QdiscInv'
    BY <1>1 DEF Start, QdiscInv
  <2>2. PowerInv' /\ PowerNoteInv'
    BY <1>1 DEF Start, PowerInv, PowerNoteInv
  <2>3. CoalescingInv' /\ CoalescingNoteInv'
    BY <1>1 DEF Start, CoalescingInv, CoalescingNoteInv
  <2> QED
    BY <1>0, <2>1, <2>2, <2>3
<1>2. CASE ReplaceQdisc
  <2>1. CASE hardware.shaper
    <3>1. LifecycleInv' /\ QdiscInv'
      BY <1>2, <2>1 DEF ReplaceQdisc, QdiscInv
    <3>2. PowerInv' /\ PowerNoteInv'
      BY <1>2, <2>1 DEF ReplaceQdisc, PowerInv, PowerNoteInv
    <3>3. CoalescingInv' /\ CoalescingNoteInv'
      BY <1>2, <2>1 DEF ReplaceQdisc, CoalescingInv, CoalescingNoteInv
    <3> QED
      BY <1>0, <3>1, <3>2, <3>3
  <2>2. CASE ~hardware.shaper
    <3>1. LifecycleInv' /\ QdiscInv'
      BY <1>2, <2>2 DEF ReplaceQdisc, QdiscInv
    <3>2. PowerInv' /\ PowerNoteInv'
      BY <1>2, <2>2 DEF ReplaceQdisc, PowerInv, PowerNoteInv
    <3>3. CoalescingInv' /\ CoalescingNoteInv'
      BY <1>2, <2>2 DEF ReplaceQdisc, CoalescingInv, CoalescingNoteInv
    <3> QED
      BY <1>0, <3>1, <3>2, <3>3
  <2> QED
    BY <2>1, <2>2
<1>3. CASE Create
  <2>0. /\ pc = "create"
        /\ UNCHANGED <<seen, qdisc, pm, adaptive, counters, nm, nmLoaded>>
        /\ UNCHANGED <<profile, active, installed, hardware, before>>
    BY <1>3 DEF Create
  <2>1. CASE Saves(1, "tc_iface", Empty, "write", 1)
    <3>1. LifecycleInv' /\ QdiscInv'
      BY <2>0, <2>1 DEF QdiscInv, Saves, Kept
    <3>2. PowerInv' /\ PowerNoteInv'
      BY <2>0, <2>1 DEF PowerInv, PowerNoteInv, Saves, Kept
    <3>3. CoalescingInv' /\ CoalescingNoteInv'
      BY <2>0, <2>1 DEF CoalescingInv, CoalescingNoteInv, Saves, Kept
    <3> QED
      BY <1>0, <3>1, <3>2, <3>3
  <2>2. CASE Saves(2, "wifi_pm_original", Empty, "write", 2)
    <3>1. LifecycleInv' /\ QdiscInv'
      BY <2>0, <2>2 DEF QdiscInv, Saves, Kept
    <3>2. PowerInv' /\ PowerNoteInv'
      BY <2>0, <2>2 DEF PowerInv, PowerNoteInv, Saves, Kept
    <3>3. CoalescingInv' /\ CoalescingNoteInv'
      BY <2>0, <2>2 DEF CoalescingInv, CoalescingNoteInv, Saves, Kept
    <3> QED
      BY <1>0, <3>1, <3>2, <3>3
  <2>3. CASE Saves(3, "wifi_pm_iface", Empty, "write", 3)
    <3>1. LifecycleInv' /\ QdiscInv'
      BY <2>0, <2>3 DEF QdiscInv, Saves, Kept
    <3>2. PowerInv' /\ PowerNoteInv'
      BY <2>0, <2>3 DEF PowerInv, PowerNoteInv, Saves, Kept
    <3>3. CoalescingInv' /\ CoalescingNoteInv'
      BY <2>0, <2>3 DEF CoalescingInv, CoalescingNoteInv, Saves, Kept
    <3> QED
      BY <1>0, <3>1, <3>2, <3>3
  <2>4. CASE Saves(4, "nic_iface", Empty, "write", 4)
    <3>1. LifecycleInv' /\ QdiscInv'
      BY <2>0, <2>4 DEF QdiscInv, Saves, Kept
    <3>2. PowerInv' /\ PowerNoteInv'
      BY <2>0, <2>4 DEF PowerInv, PowerNoteInv, Saves, Kept
    <3>3. CoalescingInv' /\ CoalescingNoteInv'
      BY <2>0, <2>4 DEF CoalescingInv, CoalescingNoteInv, Saves, Kept
    <3> QED
      BY <1>0, <3>1, <3>2, <3>3
  <2>5. CASE Saves(5, "nic_adaptive", Empty, "write", 5)
    <3>1. LifecycleInv' /\ QdiscInv'
      BY <2>0, <2>5 DEF QdiscInv, Saves, Kept
    <3>2. PowerInv' /\ PowerNoteInv'
      BY <2>0, <2>5 DEF PowerInv, PowerNoteInv, Saves, Kept
    <3>3. CoalescingInv' /\ CoalescingNoteInv'
      BY <2>0, <2>5 DEF CoalescingInv, CoalescingNoteInv, Saves, Kept
    <3> QED
      BY <1>0, <3>1, <3>2, <3>3
  <2>6. CASE Saves(6, "nic_counters", Empty, "write", 6)
    <3>1. LifecycleInv' /\ QdiscInv'
      BY <2>0, <2>6 DEF QdiscInv, Saves, Kept
    <3>2. PowerInv' /\ PowerNoteInv'
      BY <2>0, <2>6 DEF PowerInv, PowerNoteInv, Saves, Kept
    <3>3. CoalescingInv' /\ CoalescingNoteInv'
      BY <2>0, <2>6 DEF CoalescingInv, CoalescingNoteInv, Saves, Kept
    <3> QED
      BY <1>0, <3>1, <3>2, <3>3
  <2> QED
    BY <2>1, <2>2, <2>3, <2>4, <2>5, <2>6, <1>3, CreateCases
<1>4. CASE Write
  <2>0. /\ pc = "write"
        /\ UNCHANGED <<seen, qdisc, pm, adaptive, counters, nm, nmLoaded>>
        /\ UNCHANGED <<profile, active, installed, hardware, before>>
    BY <1>4 DEF Write
  <2>1. CASE Saves(1, "tc_iface", "iface", "wifi", 2)
    <3>1. LifecycleInv' /\ QdiscInv'
      BY <2>0, <2>1 DEF QdiscInv, Saves, Kept
    <3>2. PowerInv' /\ PowerNoteInv'
      BY <2>0, <2>1 DEF PowerInv, PowerNoteInv, Saves, Kept
    <3>3. CoalescingInv' /\ CoalescingNoteInv'
      BY <2>0, <2>1 DEF CoalescingInv, CoalescingNoteInv, Saves, Kept
    <3> QED
      BY <1>0, <3>1, <3>2, <3>3
  <2>2. CASE Saves(2, "wifi_pm_original", seen.pm, "create", 3)
    <3>1. LifecycleInv' /\ QdiscInv'
      BY <2>0, <2>2 DEF QdiscInv, Saves, Kept
    <3>2. PowerInv' /\ PowerNoteInv'
      BY <2>0, <2>2 DEF PowerInv, PowerNoteInv, Saves, Kept
    <3>3. CoalescingInv' /\ CoalescingNoteInv'
      BY <2>0, <2>2 DEF CoalescingInv, CoalescingNoteInv, Saves, Kept
    <3> QED
      BY <1>0, <3>1, <3>2, <3>3
  <2>3. CASE Saves(3, "wifi_pm_iface", "iface", "pm_off", 4)
    <3>1. LifecycleInv' /\ QdiscInv'
      BY <2>0, <2>3 DEF QdiscInv, Saves, Kept
    <3>2. PowerInv' /\ PowerNoteInv'
      BY <2>0, <2>3 DEF PowerInv, PowerNoteInv, Saves, Kept
    <3>3. CoalescingInv' /\ CoalescingNoteInv'
      BY <2>0, <2>3 DEF CoalescingInv, CoalescingNoteInv, Saves, Kept
    <3> QED
      BY <1>0, <3>1, <3>2, <3>3
  <2>4. CASE Saves(4, "nic_iface", "iface", "create", 5)
    <3>1. LifecycleInv' /\ QdiscInv'
      BY <2>0, <2>4 DEF QdiscInv, Saves, Kept
    <3>2. PowerInv' /\ PowerNoteInv'
      BY <2>0, <2>4 DEF PowerInv, PowerNoteInv, Saves, Kept
    <3>3. CoalescingInv' /\ CoalescingNoteInv'
      BY <2>0, <2>4 DEF CoalescingInv, CoalescingNoteInv, Saves, Kept
    <3> QED
      BY <1>0, <3>1, <3>2, <3>3
  <2>5. CASE Saves(5, "nic_adaptive", seen.adaptive, "create", 6)
    <3>1. LifecycleInv' /\ QdiscInv'
      BY <2>0, <2>5 DEF QdiscInv, Saves, Kept
    <3>2. PowerInv' /\ PowerNoteInv'
      BY <2>0, <2>5 DEF PowerInv, PowerNoteInv, Saves, Kept
    <3>3. CoalescingInv' /\ CoalescingNoteInv'
      BY <2>0, <2>5 DEF CoalescingInv, CoalescingNoteInv, Saves, Kept
    <3> QED
      BY <1>0, <3>1, <3>2, <3>3
  <2>6. CASE Saves(6, "nic_counters", seen.counters, "coalesce", 1)
    <3>1. LifecycleInv' /\ QdiscInv'
      BY <2>0, <2>6 DEF QdiscInv, Saves, Kept
    <3>2. PowerInv' /\ PowerNoteInv'
      BY <2>0, <2>6 DEF PowerInv, PowerNoteInv, Saves, Kept
    <3>3. CoalescingInv' /\ CoalescingNoteInv'
      BY <2>0, <2>6, <1>card DEF CoalescingInv, CoalescingNoteInv, Saves, Kept
    <3> QED
      BY <1>0, <3>1, <3>2, <3>3
  <2> QED
    BY <2>1, <2>2, <2>3, <2>4, <2>5, <2>6, <1>4, WriteCases
<1>5. CASE ReadPowerSave
  <2>1. CASE hardware.wifi
    <3>1. LifecycleInv' /\ QdiscInv'
      BY <1>5, <2>1, <1>seen DEF ReadPowerSave, QdiscInv
    <3>2. PowerInv' /\ PowerNoteInv'
      BY <1>5, <2>1, <1>seen DEF ReadPowerSave, PowerInv, PowerNoteInv
    <3>3. CoalescingInv' /\ CoalescingNoteInv'
      BY <1>5, <2>1, <1>seen DEF ReadPowerSave, CoalescingInv, CoalescingNoteInv
    <3> QED
      BY <1>0, <3>1, <3>2, <3>3
  <2>2. CASE ~hardware.wifi
    <3>1. LifecycleInv' /\ QdiscInv'
      BY <1>5, <2>2, <1>seen DEF ReadPowerSave, QdiscInv
    <3>2. PowerInv' /\ PowerNoteInv'
      BY <1>5, <2>2, <1>seen DEF ReadPowerSave, PowerInv, PowerNoteInv
    <3>3. CoalescingInv' /\ CoalescingNoteInv'
      BY <1>5, <2>2, <1>seen DEF ReadPowerSave, CoalescingInv, CoalescingNoteInv
    <3> QED
      BY <1>0, <3>1, <3>2, <3>3
  <2> QED
    BY <2>1, <2>2
<1>6. CASE PowerSaveOff
  <2>1. LifecycleInv' /\ QdiscInv'
    BY <1>6 DEF PowerSaveOff, QdiscInv
  <2>2. PowerInv' /\ PowerNoteInv'
    BY <1>6 DEF PowerSaveOff, PowerInv, PowerNoteInv
  <2>3. CoalescingInv' /\ CoalescingNoteInv'
    BY <1>6 DEF PowerSaveOff, CoalescingInv, CoalescingNoteInv
  <2> QED
    BY <1>0, <2>1, <2>2, <2>3
<1>7. CASE ConfigureManager
  <2>1. LifecycleInv' /\ QdiscInv'
    BY <1>7 DEF ConfigureManager, QdiscInv
  <2>2. PowerInv' /\ PowerNoteInv'
    BY <1>7 DEF ConfigureManager, PowerInv, PowerNoteInv
  <2>3. CoalescingInv' /\ CoalescingNoteInv'
    BY <1>7 DEF ConfigureManager, CoalescingInv, CoalescingNoteInv
  <2> QED
    BY <1>0, <2>1, <2>2, <2>3
<1>8. CASE ReadCoalescing
  <2>1. CASE hardware.ethtool
    <3>1. LifecycleInv' /\ QdiscInv'
      BY <1>8, <2>1, <1>seen DEF ReadCoalescing, QdiscInv
    <3>2. PowerInv' /\ PowerNoteInv'
      BY <1>8, <2>1, <1>seen DEF ReadCoalescing, PowerInv, PowerNoteInv
    <3>3. CoalescingInv' /\ CoalescingNoteInv'
      BY <1>8, <2>1, <1>seen DEF ReadCoalescing, CoalescingInv, CoalescingNoteInv
    <3> QED
      BY <1>0, <3>1, <3>2, <3>3
  <2>2. CASE ~hardware.ethtool
    <3>1. LifecycleInv' /\ QdiscInv'
      BY <1>8, <2>2, <1>seen DEF ReadCoalescing, QdiscInv
    <3>2. PowerInv' /\ PowerNoteInv'
      BY <1>8, <2>2, <1>seen DEF ReadCoalescing, PowerInv, PowerNoteInv
    <3>3. CoalescingInv' /\ CoalescingNoteInv'
      BY <1>8, <2>2, <1>seen DEF ReadCoalescing, CoalescingInv, CoalescingNoteInv
    <3> QED
      BY <1>0, <3>1, <3>2, <3>3
  <2> QED
    BY <2>1, <2>2
<1>9. CASE Coalesce
  <2>0. \/ UNCHANGED <<adaptive, counters>>
        \/ /\ hardware.driver \in {"plain", "moderating", "flags"}
           /\ hardware.driver = "flags" => counters' = counters
    BY <1>9, Accepted DEF Coalesce, SetOr
  <2>1. LifecycleInv' /\ QdiscInv'
    BY <1>9 DEF Coalesce, QdiscInv
  <2>2. PowerInv' /\ PowerNoteInv'
    BY <1>9 DEF Coalesce, PowerInv, PowerNoteInv
  <2>3. CoalescingInv' /\ CoalescingNoteInv'
    BY <1>9, <2>0, <1>card DEF Coalesce, CoalescingInv, CoalescingNoteInv
  <2> QED
    BY <1>0, <2>1, <2>2, <2>3
<1>10. CASE Install
  <2>1. LifecycleInv' /\ QdiscInv'
    BY <1>10 DEF Install, QdiscInv
  <2>2. PowerInv' /\ PowerNoteInv'
    BY <1>10 DEF Install, PowerInv, PowerNoteInv
  <2>3. CoalescingInv' /\ CoalescingNoteInv'
    BY <1>10 DEF Install, CoalescingInv, CoalescingNoteInv
  <2> QED
    BY <1>0, <2>1, <2>2, <2>3
<1>11. CASE ScriptCoalesces
  <2>0. /\ hardware.driver \in {"plain", "moderating", "flags"}
        /\ hardware.driver = "flags" => counters' = counters
    BY <1>11, Accepted DEF ScriptCoalesces
  <2>1. LifecycleInv' /\ QdiscInv'
    BY <1>11 DEF ScriptCoalesces, QdiscInv
  <2>2. PowerInv' /\ PowerNoteInv'
    BY <1>11 DEF ScriptCoalesces, PowerInv, PowerNoteInv
  <2>3. CoalescingInv' /\ CoalescingNoteInv'
    BY <1>11, <2>0, <1>card DEF ScriptCoalesces, CoalescingInv, CoalescingNoteInv
  <2> QED
    BY <1>0, <2>1, <2>2, <2>3
<1>12. CASE ScriptReplacesQdisc
  <2>1. LifecycleInv' /\ QdiscInv'
    BY <1>12 DEF ScriptReplacesQdisc, QdiscInv
  <2>2. PowerInv' /\ PowerNoteInv'
    BY <1>12 DEF ScriptReplacesQdisc, PowerInv, PowerNoteInv
  <2>3. CoalescingInv' /\ CoalescingNoteInv'
    BY <1>12 DEF ScriptReplacesQdisc, CoalescingInv, CoalescingNoteInv
  <2> QED
    BY <1>0, <2>1, <2>2, <2>3
<1>13. CASE ScriptPowersOn
  <2>1. LifecycleInv' /\ QdiscInv'
    BY <1>13 DEF ScriptPowersOn, QdiscInv
  <2>2. PowerInv' /\ PowerNoteInv'
    BY <1>13 DEF ScriptPowersOn, PowerInv, PowerNoteInv
  <2>3. CoalescingInv' /\ CoalescingNoteInv'
    BY <1>13 DEF ScriptPowersOn, CoalescingInv, CoalescingNoteInv
  <2> QED
    BY <1>0, <2>1, <2>2, <2>3
<1>14. CASE Stop
  <2>1. LifecycleInv' /\ QdiscInv'
    BY <1>14 DEF Stop, QdiscInv
  <2>2. PowerInv' /\ PowerNoteInv'
    BY <1>14 DEF Stop, PowerInv, PowerNoteInv
  <2>3. CoalescingInv' /\ CoalescingNoteInv'
    BY <1>14 DEF Stop, CoalescingInv, CoalescingNoteInv
  <2> QED
    BY <1>0, <2>1, <2>2, <2>3
<1>15. CASE RestoreQdisc
  <2>1. CASE store["tc_iface"] = "iface"
    <3>1. LifecycleInv' /\ QdiscInv'
      BY <1>15, <2>1 DEF RestoreQdisc, QdiscInv
    <3>2. PowerInv' /\ PowerNoteInv'
      BY <1>15, <2>1 DEF RestoreQdisc, PowerInv, PowerNoteInv
    <3>3. CoalescingInv' /\ CoalescingNoteInv'
      BY <1>15, <2>1 DEF RestoreQdisc, CoalescingInv, CoalescingNoteInv
    <3> QED
      BY <1>0, <3>1, <3>2, <3>3
  <2>2. CASE store["tc_iface"] # "iface"
    <3>1. LifecycleInv' /\ QdiscInv'
      BY <1>15, <2>2 DEF RestoreQdisc, QdiscInv
    <3>2. PowerInv' /\ PowerNoteInv'
      BY <1>15, <2>2 DEF RestoreQdisc, PowerInv, PowerNoteInv
    <3>3. CoalescingInv' /\ CoalescingNoteInv'
      BY <1>15, <2>2 DEF RestoreQdisc, CoalescingInv, CoalescingNoteInv
    <3> QED
      BY <1>0, <3>1, <3>2, <3>3
  <2> QED
    BY <2>1, <2>2
<1>16. CASE Remove
  <2>0. /\ pc = "remove"
        /\ UNCHANGED <<seen, qdisc, pm, adaptive, counters, nm, nmLoaded>>
        /\ UNCHANGED <<profile, active, installed, hardware, before>>
    BY <1>16 DEF Remove
  <2>1. CASE Saves(1, "tc_iface", "absent", "restore_pm", 2)
    <3>1. LifecycleInv' /\ QdiscInv'
      BY <2>0, <2>1 DEF QdiscInv, Saves, Kept
    <3>2. PowerInv' /\ PowerNoteInv'
      BY <2>0, <2>1 DEF PowerInv, PowerNoteInv, Saves, Kept
    <3>3. CoalescingInv' /\ CoalescingNoteInv'
      BY <2>0, <2>1 DEF CoalescingInv, CoalescingNoteInv, Saves, Kept
    <3> QED
      BY <1>0, <3>1, <3>2, <3>3
  <2>2. CASE Saves(2, "wifi_pm_original", "absent", "remove", 3)
    <3>1. LifecycleInv' /\ QdiscInv'
      BY <2>0, <2>2 DEF QdiscInv, Saves, Kept
    <3>2. PowerInv' /\ PowerNoteInv'
      BY <2>0, <2>2 DEF PowerInv, PowerNoteInv, Saves, Kept
    <3>3. CoalescingInv' /\ CoalescingNoteInv'
      BY <2>0, <2>2 DEF CoalescingInv, CoalescingNoteInv, Saves, Kept
    <3> QED
      BY <1>0, <3>1, <3>2, <3>3
  <2>3. CASE Saves(3, "wifi_pm_iface", "absent", "nm_forget", 4)
    <3>1. LifecycleInv' /\ QdiscInv'
      BY <2>0, <2>3 DEF QdiscInv, Saves, Kept
    <3>2. PowerInv' /\ PowerNoteInv'
      BY <2>0, <2>3 DEF PowerInv, PowerNoteInv, Saves, Kept
    <3>3. CoalescingInv' /\ CoalescingNoteInv'
      BY <2>0, <2>3 DEF CoalescingInv, CoalescingNoteInv, Saves, Kept
    <3> QED
      BY <1>0, <3>1, <3>2, <3>3
  <2>4. CASE Saves(4, "nic_iface", "absent", "remove", 5)
    <3>1. LifecycleInv' /\ QdiscInv'
      BY <2>0, <2>4 DEF QdiscInv, Saves, Kept
    <3>2. PowerInv' /\ PowerNoteInv'
      BY <2>0, <2>4 DEF PowerInv, PowerNoteInv, Saves, Kept
    <3>3. CoalescingInv' /\ CoalescingNoteInv'
      BY <2>0, <2>4 DEF CoalescingInv, CoalescingNoteInv, Saves, Kept
    <3> QED
      BY <1>0, <3>1, <3>2, <3>3
  <2>5. CASE Saves(5, "nic_adaptive", "absent", "remove", 6)
    <3>1. LifecycleInv' /\ QdiscInv'
      BY <2>0, <2>5 DEF QdiscInv, Saves, Kept
    <3>2. PowerInv' /\ PowerNoteInv'
      BY <2>0, <2>5 DEF PowerInv, PowerNoteInv, Saves, Kept
    <3>3. CoalescingInv' /\ CoalescingNoteInv'
      BY <2>0, <2>5 DEF CoalescingInv, CoalescingNoteInv, Saves, Kept
    <3> QED
      BY <1>0, <3>1, <3>2, <3>3
  <2>6. CASE Saves(6, "nic_counters", "absent", "reverted", 1)
    <3>1. LifecycleInv' /\ QdiscInv'
      BY <2>0, <2>6 DEF QdiscInv, Saves, Kept
    <3>2. PowerInv' /\ PowerNoteInv'
      BY <2>0, <2>6 DEF PowerInv, PowerNoteInv, Saves, Kept
    <3>3. CoalescingInv' /\ CoalescingNoteInv'
      BY <2>0, <2>6 DEF CoalescingInv, CoalescingNoteInv, Saves, Kept
    <3> QED
      BY <1>0, <3>1, <3>2, <3>3
  <2> QED
    BY <2>1, <2>2, <2>3, <2>4, <2>5, <2>6, <1>16, RemoveCases
<1>17. CASE RestorePowerSave
  <2>1. CASE Exists("wifi_pm_iface")
    <3>0. pm' \in Powers
      <4>1. CASE store["wifi_pm_iface"] = "iface"
        <5>1. store["wifi_pm_original"] \in Powers
          BY <1>17, <4>1 DEF RestorePowerSave, PowerInv
        <5>2. SavedPowerSave = store["wifi_pm_original"] /\ SavedPowerSave \in OnOff
          BY <5>1, <1>card DEF SavedPowerSave, Exists
        <5> QED
          BY <1>17, <4>1, <5>1, <5>2 DEF RestorePowerSave
      <4>2. CASE store["wifi_pm_iface"] # "iface"
        BY <1>17, <4>2 DEF RestorePowerSave, PowerInv
      <4> QED
        BY <4>1, <4>2
    <3>1. LifecycleInv' /\ QdiscInv'
      BY <1>17, <2>1 DEF RestorePowerSave, QdiscInv, Exists
    <3>2. PowerInv' /\ PowerNoteInv'
      BY <1>17, <2>1, <3>0 DEF RestorePowerSave, PowerInv, PowerNoteInv, Exists
    <3>3. CoalescingInv' /\ CoalescingNoteInv'
      BY <1>17, <2>1 DEF RestorePowerSave, CoalescingInv, CoalescingNoteInv, Exists
    <3> QED
      BY <1>0, <3>1, <3>2, <3>3
  <2>2. CASE ~Exists("wifi_pm_iface")
    <3>1. LifecycleInv' /\ QdiscInv'
      BY <1>17, <2>2 DEF RestorePowerSave, QdiscInv, Exists
    <3>2. PowerInv' /\ PowerNoteInv'
      BY <1>17, <2>2 DEF RestorePowerSave, PowerInv, PowerNoteInv, Exists
    <3>3. CoalescingInv' /\ CoalescingNoteInv'
      BY <1>17, <2>2 DEF RestorePowerSave, CoalescingInv, CoalescingNoteInv, Exists
    <3> QED
      BY <1>0, <3>1, <3>2, <3>3
  <2> QED
    BY <2>1, <2>2
<1>18. CASE ForgetManager
  <2>1. LifecycleInv' /\ QdiscInv'
    BY <1>18 DEF ForgetManager, QdiscInv
  <2>2. PowerInv' /\ PowerNoteInv'
    BY <1>18 DEF ForgetManager, PowerInv, PowerNoteInv
  <2>3. CoalescingInv' /\ CoalescingNoteInv'
    BY <1>18 DEF ForgetManager, CoalescingInv, CoalescingNoteInv
  <2> QED
    BY <1>0, <2>1, <2>2, <2>3
<1>19. CASE RestoreCoalescing
  <2>1. CASE Exists("nic_iface") /\ hardware.ethtool
    <3>0. /\ AsBefore'
          /\ hardware.driver \in {"flags", "fixed"} => counters' = "own"
      BY <1>19, <2>1, RestoredCoalescing
    <3>4. store["nic_counters"] = Empty => counters' = counters
      BY <1>19, <2>1 DEF RestoreCoalescing, SetOr, Set, Request, SavedCounters, Exists
    <3>5. /\ pc' = "remove" /\ idx' = 4
          /\ UNCHANGED <<store, seen, active, installed, hardware, before>>
      BY <1>19, <2>1 DEF RestoreCoalescing
    <3>6. /\ hardware.ethtool
          /\ store["nic_iface"] = "iface" => Restorable
          /\ Flags' = Flags
      BY <1>19, <2>1, <3>5 DEF RestoreCoalescing, CoalescingInv, Flags
    <3>7. Restorable => Restorable'
      BY <3>0, <3>4, <3>5, <3>6 DEF Restorable
    <3>1. LifecycleInv' /\ QdiscInv'
      BY <1>19, <2>1 DEF RestoreCoalescing, QdiscInv, Exists
    <3>2. PowerInv' /\ PowerNoteInv'
      BY <1>19, <2>1 DEF RestoreCoalescing, PowerInv, PowerNoteInv, Exists
    <3>3. CoalescingInv' /\ CoalescingNoteInv'
      BY <1>19, <2>1, <3>0, <3>5, <3>6, <3>7
      DEF RestoreCoalescing, CoalescingInv, CoalescingNoteInv, Exists
    <3> QED
      BY <1>0, <3>1, <3>2, <3>3
  <2>2. CASE ~(Exists("nic_iface") /\ hardware.ethtool)
    <3>1. LifecycleInv' /\ QdiscInv'
      BY <1>19, <2>2 DEF RestoreCoalescing, QdiscInv, Exists
    <3>2. PowerInv' /\ PowerNoteInv'
      BY <1>19, <2>2 DEF RestoreCoalescing, PowerInv, PowerNoteInv, Exists
    <3>3. CoalescingInv' /\ CoalescingNoteInv'
      BY <1>19, <2>2 DEF RestoreCoalescing, CoalescingInv, CoalescingNoteInv, Exists
    <3> QED
      BY <1>0, <3>1, <3>2, <3>3
  <2> QED
    BY <2>1, <2>2
<1>20. CASE Reverted
  <2>1. LifecycleInv' /\ QdiscInv'
    BY <1>20 DEF Reverted, QdiscInv
  <2>2. PowerInv' /\ PowerNoteInv'
    BY <1>20 DEF Reverted, PowerInv, PowerNoteInv
  <2>3. CoalescingInv' /\ CoalescingNoteInv'
    BY <1>20 DEF Reverted, CoalescingInv, CoalescingNoteInv
  <2> QED
    BY <1>0, <2>1, <2>2, <2>3
<1>21. CASE Clean
  <2>1. LifecycleInv' /\ QdiscInv'
    BY <1>21 DEF Clean, QdiscInv
  <2>2. PowerInv' /\ PowerNoteInv'
    BY <1>21 DEF Clean, PowerInv, PowerNoteInv
  <2>3. CoalescingInv' /\ CoalescingNoteInv'
    BY <1>21 DEF Clean, CoalescingInv, CoalescingNoteInv
  <2> QED
    BY <1>0, <2>1, <2>2, <2>3
<1>22. CASE Purge
  <2>1. LifecycleInv' /\ QdiscInv'
    BY <1>22, <1>files DEF Purge, QdiscInv
  <2>2. PowerInv' /\ PowerNoteInv'
    BY <1>22, <1>files DEF Purge, PowerInv, PowerNoteInv
  <2>3. CoalescingInv' /\ CoalescingNoteInv'
    BY <1>22, <1>files DEF Purge, CoalescingInv, CoalescingNoteInv
  <2> QED
    BY <1>0, <2>1, <2>2, <2>3
<1>23. CASE Kill
  <2>1. LifecycleInv' /\ QdiscInv'
    BY <1>23 DEF Kill, QdiscInv, Stopped, Unread, Gaps
  <2>2. PowerInv' /\ PowerNoteInv'
    BY <1>23 DEF Kill, PowerInv, PowerNoteInv, Stopped, Unread, Gaps
  <2>3. CoalescingInv' /\ CoalescingNoteInv'
    BY <1>23 DEF Kill, CoalescingInv, CoalescingNoteInv, Stopped, Unread, Gaps
  <2> QED
    BY <1>0, <2>1, <2>2, <2>3
<1>24. CASE Reboot
  <2>1. LifecycleInv' /\ QdiscInv'
    BY <1>24, <1>before DEF Reboot, QdiscInv, Stopped, Unread, Gaps
  <2>2. PowerInv' /\ PowerNoteInv'
    BY <1>24, <1>before DEF Reboot, PowerInv, PowerNoteInv, Stopped, Unread, Gaps
  <2>3. CoalescingInv' /\ CoalescingNoteInv'
    BY <1>24, <1>before DEF Reboot, CoalescingInv, CoalescingNoteInv, Stopped, Unread, Gaps
  <2> QED
    BY <1>0, <2>1, <2>2, <2>3
<1>25. CASE Reconnect
  <2>1. LifecycleInv' /\ QdiscInv'
    BY <1>25 DEF Reconnect, QdiscInv
  <2>2. PowerInv' /\ PowerNoteInv'
    BY <1>25 DEF Reconnect, PowerInv, PowerNoteInv
  <2>3. CoalescingInv' /\ CoalescingNoteInv'
    BY <1>25 DEF Reconnect, CoalescingInv, CoalescingNoteInv
  <2> QED
    BY <1>0, <2>1, <2>2, <2>3
<1>26. CASE UNCHANGED vars
  <2>1. LifecycleInv' /\ QdiscInv'
    BY <1>26 DEF vars, QdiscInv
  <2>2. PowerInv' /\ PowerNoteInv'
    BY <1>26 DEF vars, PowerInv, PowerNoteInv
  <2>3. CoalescingInv' /\ CoalescingNoteInv'
    BY <1>26 DEF vars, CoalescingInv, CoalescingNoteInv
  <2> QED
    BY <1>0, <2>1, <2>2, <2>3
<1> QED
  BY <1>1, <1>2, <1>3, <1>4, <1>5, <1>6, <1>7, <1>8, <1>9, <1>10, <1>11, <1>12,
     <1>13, <1>14, <1>15, <1>16, <1>17, <1>18, <1>19, <1>20, <1>21, <1>22, <1>23,
     <1>24, <1>25, <1>26
  DEF Next, Apply, Script, Revert

(* It holds before the first command.                                       *)
LEMMA InitInvariant == Init => IInv
<1> SUFFICES ASSUME Init
             PROVE  IInv
  OBVIOUS
<1>1. TypeOK /\ CountersTyped
  BY InitTyped
<1>2. /\ pc = "idle" /\ active = FALSE /\ installed = FALSE
      /\ nm = FALSE /\ nmLoaded = FALSE /\ counters = "own"
      /\ qdisc \in {"default", "custom"}
      /\ before.pm = pm /\ before.adaptive = adaptive
  BY DEF Init
<1>3. store["tc_iface"] = "absent" /\ store["wifi_pm_iface"] = "absent"
      /\ store["nic_iface"] = "absent"
  BY FileNames DEF Init
<1>4. LifecycleInv /\ QdiscInv
  BY <1>2, <1>3
  DEF LifecycleInv, QdiscInv, Applying, Reverting, Saving, QdiscSetBefore, QdiscRestoredBy
<1>5. PowerInv /\ PowerNoteInv
  BY <1>2, <1>3
  DEF PowerInv, PowerNoteInv, Powers, Saving, Removing, PowerUnsaved, PowerSetBefore,
      PowerRestored
<1>6. CoalescingInv /\ CoalescingNoteInv
  BY <1>2, <1>3
  DEF CoalescingInv, CoalescingNoteInv, Flags, AsBefore, Saving, Removing, CoalescingUnsaved
<1> QED
  BY <1>1, <1>4, <1>5, <1>6 DEF IInv

-----------------------------------------------------------------------------
(* What follows from it, for any card and driver, as long as no command is  *)
(* interrupted in one of the Gaps.                                          *)

(* Optimizer::apply() and revert() go from step to step of the invariant.   *)
THEOREM LinkInvariant ==
    ASSUME ~Cut
    PROVE  Spec => []IInv
<1>1. IInv /\ [Next]_vars => IInv'
  BY NextInvariant
<1> QED
  BY <1>1, InitInvariant, PTL DEF Spec

(* Whenever betterconn is not active its qdisc is gone.                     *)
THEOREM QdiscComesBack ==
    ASSUME ~Cut
    PROVE  Spec => []QdiscRestored
<1>1. IInv => QdiscRestored
  BY DEF IInv, QdiscInv, QdiscRestored
<1> QED
  BY <1>1, LinkInvariant, PTL

(* Whenever betterconn is not active the card saves power as before start   *)
(* or as after a boot, and NetworkManager leaves it at that.                *)
THEOREM PowerSaveComesBack ==
    ASSUME ~Cut
    PROVE  Spec => []PowerSaveRestored
<1>1. IInv => PowerSaveRestored
  <2> SUFFICES ASSUME IInv, ~active
               PROVE  pm \in Powers /\ ~nm /\ ~nmLoaded
    BY DEF PowerSaveRestored, Powers
  <2>1. store["wifi_pm_iface"] = "absent"
    BY DEF IInv, PowerNoteInv
  <2>2. pc # "nm_forget"
    BY DEF IInv, LifecycleInv, Reverting
  <2> QED
    BY <2>1, <2>2 DEF IInv, PowerInv
<1> QED
  BY <1>1, LinkInvariant, PTL

(* Whenever betterconn is not active the adaptive flag is as before start   *)
(* or as after a boot, and no counters of betterconn's are used, whichever  *)
(* requests the driver takes.                                               *)
THEOREM CoalescingComesBack ==
    ASSUME ~Cut
    PROVE  Spec => []CoalescingRestored
<1>1. IInv => CoalescingRestored
  BY DEF IInv, CoalescingInv, AsBefore, Flags, CoalescingRestored
<1> QED
  BY <1>1, LinkInvariant, PTL
=============================================================================
