----------------------------- MODULE IrqAffinity -----------------------------
(***************************************************************************)
(* IrqAffinity (core/src/irq_affinity.cpp): start spreads the queues of    *)
(* the interface over all CPUs, stops irqbalance and pins each interrupt   *)
(* of the interface to a CPU; stop gives back what start has saved.        *)
(*                                                                         *)
(* A command may be killed between two steps and the machine rebooted; the *)
(* masks and affinities are then the driver's again, and irqbalance runs   *)
(* if it is enabled.  A save is one step here (module WifiAirtime has the  *)
(* two halves of it).                                                      *)
(***************************************************************************)
EXTENDS Naturals, FiniteSets, FiniteSetsExt

CONSTANTS
    NumQueues,  \* rx and tx queues of the interface
    NumIrqs,    \* interrupt numbers of the machine
    NumCpus,
    ApplyCut    \* TRUE: start may be killed inside apply()

Queues == 1..NumQueues
Irqs == 1..NumIrqs
Cpus == 0..(NumCpus - 1)

ASSUME NumbersAssumption == {NumQueues, NumIrqs, NumCpus} \subseteq Nat \ {0}
ASSUME SwitchAssumption == ApplyCut \in BOOLEAN

(* smp_affinity_list: the CPUs that serve an interrupt.                    *)
Affinities == (SUBSET Cpus) \ {{}}

(* The mask of a queue: the driver's, somebody's, or all CPUs.             *)
Masks == {"driver", "custom", "all"}

(* A mask that was not read yet, or is not in the file. *)
Empty == ""

Unsaved == [q \in Queues |-> Empty]
NoCpu == [i \in Irqs |-> NumCpus]

VARIABLES
    pc,        \* the step that is taken next
    todo,      \* the queues or interrupts the loop has still to visit
    list,      \* apply()'s irqs, revert()'s tokens
    read,      \* the masks apply() has read
    files,     \* the files in the store, other than irq_prev_*
    maskFile,  \* the content of rps_xps_saved
    listFile,  \* the content of irq_affinity_list
    prev,      \* prev[i]: the CPU in irq_prev_i, NumCpus: no such file
    mask,      \* mask[q]: the mask in force
    affinity,  \* affinity[i]: the affinity in force
    boot,      \* boot[i]: the affinity the kernel gives i at boot
    balancer,  \* irqbalance runs
    enabled,   \* irqbalance is started at boot
    active,    \* start is refused, stop is not
    before     \* history: the affinities start has found, or irqbalance has chosen
               \* before start stopped it, and whether irqbalance ran when start
               \* was typed and would still do so

disk == <<files, maskFile, listFile, prev>>
machine == <<mask, affinity, boot, balancer, enabled>>
vars == <<pc, todo, list, read, disk, machine, active, before>>

ApplySteps == {
    "spread", "save_masks", "save_masks_iface", "balanced", "stop_balancer", "save_cpu",
    "pin", "save_list", "save_list_iface" }
RevertSteps == {
    "masks", "restore_masks", "remove_masks", "remove_masks_iface", "irqs",
    "restore_irq", "remove_prev", "start_balancer", "remove_balancer", "remove_list",
    "remove_list_iface", "reverted", "purge" }

Files == { "rps_xps_saved", "rps_xps_iface", "irqbalance_was_active",
           "irq_affinity_list", "irq_affinity_iface" }

TypeOK ==
    /\ pc \in {"idle"} \cup ApplySteps \cup RevertSteps
    /\ todo \subseteq Queues \cup Irqs
    /\ list \subseteq Irqs
    /\ read \in [Queues -> Masks \cup {Empty}]
    /\ files \subseteq Files
    /\ maskFile \in [Queues -> Masks \cup {Empty}]
    /\ listFile \subseteq Irqs
    /\ prev \in [Irqs -> Cpus \cup {NumCpus}]
    /\ mask \in [Queues -> Masks]
    /\ affinity \in [Irqs -> Affinities] /\ boot \in [Irqs -> Affinities]
    /\ {balancer, enabled, active} \subseteq BOOLEAN
    /\ before \in [affinity : [Irqs -> Affinities], balancer : BOOLEAN]

-----------------------------------------------------------------------------
Goto(s) == pc' = s

(* The next to be visited, in the order of the directory or of the list.   *)
Current == Min(todo)

(* A loop over S starts, or is skipped when there is nothing to visit.     *)
Over(S, s, t) == todo' = S /\ Goto(IF S = {} THEN t ELSE s)

(* One round is over.                                                      *)
Loop(s, t) ==
    /\ todo' = todo \ {Current}
    /\ Goto(IF todo = {Current} THEN t ELSE s)

Remove(f, next) ==
    /\ files' = files \ {f}
    /\ Goto(next)
    /\ UNCHANGED <<todo, list, read, prev, machine, active, before>>
    /\ maskFile' = IF f = "rps_xps_saved" THEN Unsaved ELSE maskFile
    /\ listFile' = IF f = "irq_affinity_list" THEN {} ELSE listFile

Save(f, next) ==
    /\ files' = files \cup {f}
    /\ Goto(next)
    /\ UNCHANGED <<todo, list, read, prev, machine, active, before>>
    /\ maskFile' = IF f = "rps_xps_saved" THEN read ELSE maskFile
    /\ listFile' = IF f = "irq_affinity_list" THEN list ELSE listFile

-----------------------------------------------------------------------------
(* apply()                                                                 *)

(* The interrupts are those whose line in /proc/interrupts contains the     *)
(* name of the interface: another one's may be among them (eth1, eth10),    *)
(* its own may not, and a boot may number them anew.  Without an interface  *)
(* apply() returns.                                                         *)
Start ==
    /\ pc = "idle" /\ ~active
    /\ active' = TRUE
    /\ before' = [affinity |-> affinity, balancer |-> balancer]
    /\ \/ list' \in SUBSET Irqs /\ Over(Queues, "spread", "save_masks")
       \/ UNCHANGED <<pc, todo, list>>
    /\ UNCHANGED <<read, disk, machine>>

(* Mutant: the mask is read after it was changed. *)
SpreadQueue_Mutant ==
    /\ pc = "spread"
    /\ mask' \in {mask, [mask EXCEPT ![Current] = "all"]}
    /\ read' = [read EXCEPT ![Current] = mask'[Current]]
    /\ Loop("spread", "save_masks")
    /\ UNCHANGED <<list, disk, affinity, boot, balancer, enabled, active, before>>

(* The mask is read for the file and changed at once; a driver may refuse. *)
SpreadQueue ==
    /\ pc = "spread"
    /\ read' = [read EXCEPT ![Current] = mask[Current]]
    /\ mask' \in {mask, [mask EXCEPT ![Current] = "all"]}
    /\ Loop("spread", "save_masks")
    /\ UNCHANGED <<list, disk, affinity, boot, balancer, enabled, active, before>>

SaveMasks == pc = "save_masks" /\ Save("rps_xps_saved", "save_masks_iface")

SaveMasksIface ==
    /\ pc = "save_masks_iface"
    /\ Save("rps_xps_iface", IF list = {} THEN "idle" ELSE "balanced")

SaveBalancer ==
    /\ pc = "balanced" /\ balancer
    /\ Save("irqbalance_was_active", "stop_balancer")

NoBalancer ==
    /\ pc = "balanced" /\ ~balancer
    /\ Over(list, "save_cpu", "save_list")
    /\ UNCHANGED <<list, read, disk, machine, active, before>>

StopBalancer ==
    /\ pc = "stop_balancer"
    /\ balancer' = FALSE
    /\ Over(list, "save_cpu", "save_list")
    /\ UNCHANGED <<list, read, disk, mask, affinity, boot, enabled, active, before>>

(* The i-th interrupt is served by CPU i modulo their number.              *)
Target(i) == {Cardinality({j \in list : j < i}) % NumCpus}

(* Mutant: the CPU is saved that the interrupt is going to be pinned to. *)
SaveCpu_Mutant ==
    /\ pc = "save_cpu"
    /\ prev' = [prev EXCEPT ![Current] = Min(Target(Current))]
    /\ Goto("pin")
    /\ UNCHANGED <<todo, list, read, files, maskFile, listFile, machine, active, before>>

(* read_irq_affinity_cpu() keeps the first CPU of the list.                *)
SaveCpu ==
    /\ pc = "save_cpu"
    /\ prev' = [prev EXCEPT ![Current] = Min(affinity[Current])]
    /\ Goto("pin")
    /\ UNCHANGED <<todo, list, read, files, maskFile, listFile, machine, active, before>>

(* A file in /proc that cannot be read: nothing is saved, and the write     *)
(* that is tried next fails too.                                            *)
SkipIrq ==
    /\ pc = "save_cpu"
    /\ Loop("save_cpu", "save_list")
    /\ UNCHANGED <<list, read, disk, machine, active, before>>

Pin ==
    /\ pc = "pin"
    /\ affinity' \in {affinity, [affinity EXCEPT ![Current] = Target(Current)]}
    /\ Loop("save_cpu", "save_list")
    /\ UNCHANGED <<list, read, disk, mask, boot, balancer, enabled, active, before>>

SaveList == pc = "save_list" /\ Save("irq_affinity_list", "save_list_iface")

SaveListIface == pc = "save_list_iface" /\ Save("irq_affinity_iface", "idle")

-----------------------------------------------------------------------------
(* revert()                                                                *)

Stop ==
    /\ pc = "idle" /\ active
    /\ Goto(IF "rps_xps_iface" \in files THEN "masks" ELSE "irqs")
    /\ UNCHANGED <<todo, list, read, disk, machine, active, before>>

LoadMasks ==
    /\ pc = "masks"
    /\ IF "rps_xps_saved" \in files
       THEN Over(Queues, "restore_masks", "remove_masks") /\ read' = maskFile
       ELSE Goto("remove_masks_iface") /\ UNCHANGED <<todo, read>>
    /\ UNCHANGED <<list, disk, machine, active, before>>

RestoreMask ==
    /\ pc = "restore_masks"
    /\ mask' = [mask EXCEPT ![Current] = IF read[Current] = Empty THEN @ ELSE read[Current]]
    /\ Loop("restore_masks", "remove_masks")
    /\ UNCHANGED <<list, read, disk, affinity, boot, balancer, enabled, active, before>>

RemoveMasks == pc = "remove_masks" /\ Remove("rps_xps_saved", "remove_masks_iface")

RemoveMasksIface == pc = "remove_masks_iface" /\ Remove("rps_xps_iface", "irqs")

(* Without a list revert() returns, and irqbalance is left alone. *)
LoadList ==
    /\ pc = "irqs"
    /\ IF "irq_affinity_list" \in files
       THEN Over(listFile, "restore_irq", "start_balancer") /\ list' = listFile
       ELSE Goto("reverted") /\ UNCHANGED <<todo, list>>
    /\ UNCHANGED <<read, disk, machine, active, before>>

(* Mutant: nobody asks whether there is a CPU on record. *)
RestoreIrq_Mutant ==
    /\ pc = "restore_irq"
    /\ affinity' = [affinity EXCEPT ![Current] = {prev[Current]}]
    /\ Goto("remove_prev")
    /\ UNCHANGED <<todo, list, read, disk, mask, boot, balancer, enabled, active, before>>

RestoreIrq ==
    /\ pc = "restore_irq"
    /\ IF prev[Current] # NumCpus
       THEN /\ affinity' = [affinity EXCEPT ![Current] = {prev[Current]}]
            /\ Goto("remove_prev") /\ UNCHANGED todo
       ELSE UNCHANGED affinity /\ Loop("restore_irq", "start_balancer")
    /\ UNCHANGED <<list, read, disk, mask, boot, balancer, enabled, active, before>>

RemovePrev ==
    /\ pc = "remove_prev"
    /\ prev' = [prev EXCEPT ![Current] = NumCpus]
    /\ Loop("restore_irq", "start_balancer")
    /\ UNCHANGED <<list, read, files, maskFile, listFile, machine, active, before>>

(* Mutant: irqbalance is started when the flag is gone. *)
StartBalancer_Mutant ==
    /\ pc = "start_balancer"
    /\ balancer' = (balancer \/ "irqbalance_was_active" \notin files)
    /\ Goto("remove_balancer")
    /\ UNCHANGED <<todo, list, read, disk, mask, affinity, boot, enabled, active, before>>

StartBalancer ==
    /\ pc = "start_balancer"
    /\ balancer' = (balancer \/ "irqbalance_was_active" \in files)
    /\ Goto("remove_balancer")
    /\ UNCHANGED <<todo, list, read, disk, mask, affinity, boot, enabled, active, before>>

RemoveBalancer ==
    pc = "remove_balancer" /\ Remove("irqbalance_was_active", "remove_list")

RemoveList == pc = "remove_list" /\ Remove("irq_affinity_list", "remove_list_iface")

RemoveListIface ==
    pc = "remove_list_iface" /\ Remove("irq_affinity_iface", "reverted")

(* stop goes on and removes sysctl_backup; the cleaner empties the store.  *)
Reverted ==
    /\ pc = "reverted"
    /\ active' = FALSE
    /\ Goto("purge")
    /\ UNCHANGED <<todo, list, read, disk, machine, before>>

Clean ==
    /\ pc = "idle" /\ ~active
    /\ Goto("purge")
    /\ UNCHANGED <<todo, list, read, disk, machine, active, before>>

Purge ==
    /\ pc = "purge"
    /\ files' = {} /\ maskFile' = Unsaved /\ listFile' = {} /\ prev' = NoCpu
    /\ Goto("idle")
    /\ UNCHANGED <<todo, list, read, machine, active, before>>

-----------------------------------------------------------------------------
(* The environment.                                                        *)

Die == Goto("idle") /\ todo' = {} /\ list' = {} /\ read' = Unsaved

Kill ==
    /\ pc # "idle" /\ (pc \in ApplySteps => ApplyCut)
    /\ Die
    /\ UNCHANGED <<disk, machine, active, before>>

Reboot ==
    /\ pc \in ApplySteps => ApplyCut
    /\ Die
    /\ mask' = [q \in Queues |-> "driver"]
    /\ affinity' = boot
    /\ balancer' = enabled
    /\ before' = [before EXCEPT !.balancer = @ /\ enabled]
    /\ UNCHANGED <<boot, enabled, disk, active>>

(* irqbalance moves an interrupt.  What it chooses until start has stopped  *)
(* it is what start finds.                                                  *)
Balance ==
    /\ balancer
    /\ \E i \in Irqs, c \in Cpus :
         /\ affinity' = [affinity EXCEPT ![i] = {c}]
         /\ before' = IF pc \in ApplySteps
                      THEN [before EXCEPT !.affinity[i] = {c}]
                      ELSE before
    /\ UNCHANGED <<pc, todo, list, read, disk, mask, boot, balancer, enabled, active>>

-----------------------------------------------------------------------------
Init ==
    /\ pc = "idle" /\ todo = {} /\ list = {} /\ read = Unsaved
    /\ files = {} /\ maskFile = Unsaved /\ listFile = {} /\ prev = NoCpu
    /\ mask \in [Queues -> {"driver", "custom"}]
    /\ boot \in [Irqs -> Affinities] /\ affinity \in [Irqs -> Affinities]
    /\ enabled \in BOOLEAN /\ balancer \in BOOLEAN
    /\ active = FALSE
    /\ before = [affinity |-> affinity, balancer |-> balancer]

Apply ==
    \/ Start \/ SpreadQueue \/ SaveMasks \/ SaveMasksIface \/ SaveBalancer \/ NoBalancer
    \/ StopBalancer \/ SaveCpu \/ SkipIrq \/ Pin \/ SaveList \/ SaveListIface

Revert ==
    \/ Stop \/ LoadMasks \/ RestoreMask \/ RemoveMasks \/ RemoveMasksIface
    \/ LoadList \/ RestoreIrq \/ RemovePrev \/ StartBalancer \/ RemoveBalancer
    \/ RemoveList \/ RemoveListIface \/ Reverted \/ Clean \/ Purge

Next == Apply \/ Revert \/ Kill \/ Reboot \/ Balance

Spec == Init /\ [][Next]_vars

-----------------------------------------------------------------------------
(* Properties, of a machine whose stop has come through revert().          *)

(* "The original has to be kept verbatim" (irq_affinity.cpp:183): no queue  *)
(* keeps the mask of all CPUs.                                              *)
MasksRestored == pc = "reverted" => \A q \in Queues : mask[q] # "all"

(* When the affinities have been given back and irqbalance is not at work,  *)
(* every interrupt is served by CPUs that served it before start pinned it, *)
(* or as after the boot.  irqbalance has a say until start stops it: a CPU  *)
(* that was read too early would not be among these.                        *)
AffinityRestored ==
    pc \in {"start_balancer", "reverted"} /\ ~balancer =>
        \A i \in Irqs : affinity[i] \subseteq before.affinity[i] \/ affinity[i] = boot[i]

(* "After `stop`, the machine behaves exactly as it did before betterconn   *)
(* was ever installed" (README.md:147): without irqbalance every interrupt  *)
(* is served by the very CPUs that served it when start was typed, or that  *)
(* the boot gave it.                                                        *)
AffinityAsBefore ==
    pc = "reverted" /\ ~balancer /\ ~before.balancer =>
        \A i \in Irqs : affinity[i] \in {before.affinity[i], boot[i]}

(* If irqbalance ran when start was typed and no boot has ended it since,   *)
(* it runs again.                                                          *)
BalancerRestored == pc = "reverted" /\ before.balancer => balancer
=============================================================================
