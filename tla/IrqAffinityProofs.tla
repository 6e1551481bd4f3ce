------------------------- MODULE IrqAffinityProofs -------------------------
(***************************************************************************)
(* What is proved about IrqAffinity, for any number of queues, interrupts  *)
(* and CPUs: its types, and what stop gives back when start itself was not *)
(* interrupted.                                                            *)
(***************************************************************************)
EXTENDS IrqAffinity, FiniteSetTheorems, WellFoundedInduction, TLAPS

-----------------------------------------------------------------------------
(* The loops.  One that is entered has something to visit, of its kind.     *)

QueueLoops == {"spread", "restore_masks"}
IrqLoops == {"save_cpu", "pin", "restore_irq", "remove_prev"}

LoopOK ==
    /\ pc \in QueueLoops => todo \subseteq Queues /\ todo # {}
    /\ pc \in IrqLoops => todo \subseteq list /\ todo # {}

TypeInv == TypeOK /\ LoopOK

-----------------------------------------------------------------------------
(* The inductive invariant, of a start that is not interrupted.             *)

Spreading == {"spread", "save_masks", "save_masks_iface"}
Stopping == {"balanced", "stop_balancer"}
Pinning == {"save_cpu", "pin", "save_list", "save_list_iface"}
Unpinning == {"restore_irq", "remove_prev"}
Balancing == {"start_balancer", "remove_balancer"}
Ending == {"remove_list", "remove_list_iface", "reverted", "purge"}

MasksBack ==
    {"remove_masks", "remove_masks_iface", "irqs"} \cup Unpinning \cup Balancing \cup Ending

NoneSpread == \A q \in Queues : mask[q] # "all"

Originals == {"driver", "custom"}

MasksOnRecord == {"rps_xps_saved", "rps_xps_iface"} \subseteq files

(* The masks of before are read before they are changed, on record until    *)
(* they are back, and back when nothing is left to do.                      *)
MasksInv ==
    /\ "rps_xps_saved" \in files => \A q \in Queues : maskFile[q] \in Originals
    /\ pc = "spread" =>
         \A q \in Queues : IF q \in todo THEN mask[q] # "all" ELSE read[q] \in Originals
    /\ pc \in {"save_masks", "save_masks_iface"} => \A q \in Queues : read[q] \in Originals
    /\ pc = "save_masks_iface" => "rps_xps_saved" \in files
    /\ pc = "restore_masks" =>
         \A q \in Queues : read[q] \in Originals /\ (q \in todo \/ mask[q] # "all")
    /\ NoneSpread \/ MasksOnRecord \/ pc \in Spreading
    /\ ~active \/ pc \in MasksBack => NoneSpread

LifecycleInv ==
    /\ pc \notin {"idle", "purge"} => active
    /\ pc = "purge" => ~active

WasActive == "irqbalance_was_active" \in files
Listed == "irq_affinity_list" \in files

(* An irqbalance that start has stopped is on record until it runs again.   *)
BalancerInv ==
    /\ before.balancer => balancer \/ WasActive
    /\ pc \in Spreading \cup Stopping =>
         /\ balancer <=> before.balancer
         /\ WasActive <=> pc = "stop_balancer"
    /\ pc = "stop_balancer" => balancer
    /\ pc \in Pinning => ~balancer /\ (WasActive <=> before.balancer)
    /\ pc = "remove_balancer" => balancer \/ ~WasActive
    /\ ~active \/ pc \in Ending => ~WasActive

(* The list is there as long as there is something to be done with it.      *)
ListInv ==
    /\ pc \in ApplySteps => (Listed <=> pc = "save_list_iface")
    /\ pc \in Stopping \cup Pinning => list # {}
    /\ pc \in Unpinning \cup Balancing \cup {"remove_list"} => Listed
    /\ ~active \/ pc \in {"remove_list_iface", "reverted", "purge"} => ~Listed
    /\ WasActive /\ pc \notin ApplySteps => Listed

Recorded(i) == prev[i] # NumCpus

(* Which interrupts have their CPU on record.                               *)
RecordInv ==
    \A i \in Irqs : Recorded(i) =>
        /\ active
        /\ pc \notin Spreading \cup Stopping \cup Balancing \cup Ending
        /\ pc \in {"save_cpu", "pin", "save_list"} => i \in list
        /\ pc = "save_cpu" => i \notin todo
        /\ pc = "pin" => i \notin todo \ {Current}
        /\ pc = "save_list_iface" => i \in listFile
        /\ pc \notin ApplySteps => Listed /\ i \in listFile
        /\ pc \in Unpinning => i \in todo

Settled(i, a) == a \subseteq before.affinity[i] \/ a = boot[i]

(* start finds every affinity, as irqbalance has left it, until it pins it. *)
(* What is on record is one of the CPUs it has found, and an interrupt that *)
(* is served by others, and not as after the boot, has a record.            *)
AffinityInv ==
    /\ \A i \in Irqs : Recorded(i) => prev[i] \in before.affinity[i]
    /\ pc \in ApplySteps => \A i \in Irqs : affinity[i] = before.affinity[i] \/ Recorded(i)
    /\ ~balancer => \A i \in Irqs : Settled(i, affinity[i]) \/ Recorded(i)
    /\ pc = "pin" => Recorded(Current)
    /\ pc = "remove_prev" /\ ~balancer => Settled(Current, affinity[Current])

IInv == TypeInv /\ LifecycleInv /\ MasksInv /\ BalancerInv /\ ListInv /\ RecordInv

-----------------------------------------------------------------------------
(* The order of the visits.  Any set of numbers has a least one, so that    *)
(* every round of a loop has somebody to visit.                             *)

Less == {ss \in Nat \X Nat : ss[1] < ss[2]}

LEMMA LessIsWellFounded == IsWellFoundedOn(Less, Nat)
<1>1. OpToRel(<, Nat) = Less
  BY DEF OpToRel, Less
<1> QED
  BY <1>1, NatLessThanWellFounded

LEMMA LeastElement ==
    ASSUME NEW S \in SUBSET Nat, S # {}
    PROVE  Min(S) \in S
<1>1. PICK x \in S : \A y \in S : <<y, x>> \notin Less
  BY LessIsWellFounded, WFMin
<1>2. ASSUME NEW y \in S
      PROVE  x =< y
  <2>1. <<y, x>> \notin Less
    BY <1>1
  <2>2. <<y, x>> \in Nat \X Nat
    OBVIOUS
  <2> QED
    BY <2>1, <2>2 DEF Less
<1> QED
  BY <1>2 DEF Min

LEMMA Numbers ==
    /\ NumQueues \in Nat \ {0} /\ NumIrqs \in Nat \ {0} /\ NumCpus \in Nat \ {0}
    /\ Queues \subseteq Nat /\ Irqs \subseteq Nat /\ Cpus \subseteq Nat
    /\ NumCpus \notin Cpus /\ Queues # {}
<1>1. NumQueues \in Nat \ {0} /\ NumIrqs \in Nat \ {0} /\ NumCpus \in Nat \ {0}
  BY NumbersAssumption
<1>2. NumCpus \notin Cpus
  BY <1>1 DEF Cpus
<1>3. 1 \in Queues
  BY <1>1 DEF Queues
<1> QED
  BY <1>1, <1>2, <1>3 DEF Queues, Irqs, Cpus

(* The queue, or the interrupt, that a round of a loop is about.            *)
LEMMA QueueVisited ==
    ASSUME TypeInv, pc \in QueueLoops
    PROVE  Current \in todo /\ Current \in Queues
<1>1. todo \subseteq Queues /\ todo # {}
  BY DEF TypeInv, LoopOK
<1> QED
  BY <1>1, LeastElement, Numbers DEF Current

LEMMA IrqVisited ==
    ASSUME TypeInv, pc \in IrqLoops
    PROVE  Current \in todo /\ Current \in list /\ Current \in Irqs
<1>1. todo \subseteq list /\ todo # {} /\ list \subseteq Irqs
  BY DEF TypeInv, LoopOK, TypeOK
<1> QED
  BY <1>1, LeastElement, Numbers DEF Current

(* An interrupt is pinned to one CPU that there is.                         *)
LEMMA TargetIsCpu ==
    ASSUME TypeOK, NEW i \in Irqs
    PROVE  \E c \in Cpus : Target(i) = {c}
<1> DEFINE earlier == {j \in list : j < i}
<1>1. IsFiniteSet(Irqs)
  BY Numbers, FS_Interval DEF Irqs
<1>2. earlier \in SUBSET Irqs
  BY DEF TypeOK
<1>3. Cardinality(earlier) \in Nat
  <2> HIDE DEF earlier
  <2> QED
    BY <1>1, <1>2, FS_Subset, FS_CardinalityType
<1>4. Cardinality(earlier) % NumCpus \in Cpus
  <2> HIDE DEF earlier
  <2> QED
    BY <1>3, Numbers DEF Cpus
<1> QED
  BY <1>4 DEF Target

(* The CPU that read_irq_affinity_cpu() keeps is one of the list's.         *)
LEMMA FirstIsCpu ==
    ASSUME TypeOK, NEW i \in Irqs
    PROVE  Min(affinity[i]) \in affinity[i] /\ Min(affinity[i]) \in Cpus
<1>1. affinity[i] \in SUBSET Cpus /\ affinity[i] # {}
  BY DEF TypeOK, Affinities
<1>2. affinity[i] \in SUBSET Nat
  BY <1>1, Numbers
<1>3. Min(affinity[i]) \in affinity[i]
  BY <1>1, <1>2, LeastElement
<1> QED
  BY <1>1, <1>3

LEMMA EmptyIsNoWord == Empty # "driver" /\ Empty # "custom"
BY Zenon DEF Empty

-----------------------------------------------------------------------------
(* The variables keep their types.                                          *)

(* They have them at first. *)
LEMMA InitTyped == Init => TypeInv
<1> SUFFICES ASSUME Init
             PROVE  TypeInv
  OBVIOUS
<1>1. Unsaved \in [Queues -> Masks \cup {Empty}] /\ NoCpu \in [Irqs -> Cpus \cup {NumCpus}]
  BY DEF Unsaved, NoCpu
<1>3. mask \in [Queues -> Masks]
  BY DEF Init, Masks
<1>4. TypeOK
  BY <1>1, <1>3 DEF Init, TypeOK
<1> QED
  BY <1>4 DEF Init, TypeInv, LoopOK, QueueLoops, IrqLoops

(* Whatever set of CPUs an interrupt is given, the affinities keep their type. *)
LEMMA AffinityTyped ==
    ASSUME TypeInv
    PROVE  /\ affinity \in [Irqs -> Affinities]
           /\ \A i \in Irqs, a \in Affinities :
                 [affinity EXCEPT ![i] = a] \in [Irqs -> Affinities]
BY DEF TypeInv, TypeOK

LEMMA OneCpu ==
    ASSUME NEW c \in Cpus
    PROVE  {c} \in Affinities
BY DEF Affinities

(* Pinned, given back or moved: one interrupt, to one CPU.                  *)
LEMMA Moves ==
    ASSUME TypeInv, Pin \/ RestoreIrq \/ Balance
    PROVE  \/ affinity' = affinity
           \/ \E i \in Irqs, c \in Cpus : affinity' = [affinity EXCEPT ![i] = {c}]
<1>1. CASE Pin
  <2>1. Current \in Irqs
    BY <1>1, IrqVisited DEF Pin, IrqLoops
  <2>2. PICK c \in Cpus : Target(Current) = {c}
    BY <2>1, TargetIsCpu DEF TypeInv
  <2> QED
    BY <1>1, <2>1, <2>2 DEF Pin
<1>2. CASE RestoreIrq
  <2>1. Current \in Irqs
    BY <1>2, IrqVisited DEF RestoreIrq, IrqLoops
  <2>2. prev[Current] \in Cpus \cup {NumCpus}
    BY <2>1 DEF TypeInv, TypeOK
  <2> QED
    BY <1>2, <2>1, <2>2 DEF RestoreIrq
<1>3. CASE Balance
  BY <1>3 DEF Balance
<1> QED
  BY <1>1, <1>2, <1>3

(* Each step keeps the types. *)
LEMMA NextTyped ==
    ASSUME TypeInv, [Next]_vars
    PROVE  TypeInv'
<1> USE DEF TypeInv, TypeOK, LoopOK, QueueLoops, IrqLoops, Goto, Loop, Over, Save, Remove,
            disk, machine, ApplySteps, RevertSteps, Files
<1>1. CASE Start
  BY <1>1 DEF Start
<1>2. CASE SpreadQueue
  BY <1>2, QueueVisited DEF SpreadQueue, Masks
<1>3. CASE SaveMasks
  BY <1>3 DEF SaveMasks
<1>4. CASE SaveMasksIface
  BY <1>4 DEF SaveMasksIface
<1>5. CASE SaveBalancer
  BY <1>5 DEF SaveBalancer
<1>6. CASE NoBalancer
  BY <1>6 DEF NoBalancer
<1>7. CASE StopBalancer
  BY <1>7 DEF StopBalancer
<1>8. CASE SaveCpu
  BY <1>8, IrqVisited, FirstIsCpu DEF SaveCpu
<1>9. CASE Pin
  <2>1. affinity' \in [Irqs -> Affinities]
    <3> HIDE DEF TypeInv
    <3> QED
      BY <1>9, Moves, OneCpu, AffinityTyped
  <2> QED
    BY <1>9, <2>1, IrqVisited DEF Pin
<1>10. CASE SaveList
  BY <1>10 DEF SaveList
<1>11. CASE SaveListIface
  BY <1>11 DEF SaveListIface
<1>12. CASE Stop
  BY <1>12 DEF Stop
<1>13. CASE LoadMasks
  BY <1>13 DEF LoadMasks
<1>14. CASE RestoreMask
  BY <1>14, QueueVisited DEF RestoreMask, Masks
<1>15. CASE RemoveMasks
  BY <1>15 DEF RemoveMasks, Unsaved
<1>16. CASE RemoveMasksIface
  BY <1>16 DEF RemoveMasksIface, Unsaved
<1>17. CASE LoadList
  BY <1>17 DEF LoadList
<1>18. CASE RestoreIrq
  <2>1. affinity' \in [Irqs -> Affinities]
    <3> HIDE DEF TypeInv
    <3> QED
      BY <1>18, Moves, OneCpu, AffinityTyped
  <2> QED
    BY <1>18, <2>1, IrqVisited DEF RestoreIrq
<1>19. CASE RemovePrev
  BY <1>19, IrqVisited DEF RemovePrev
<1>20. CASE StartBalancer
  BY <1>20 DEF StartBalancer
<1>21. CASE RemoveBalancer
  BY <1>21 DEF RemoveBalancer, Unsaved
<1>22. CASE RemoveList
  BY <1>22 DEF RemoveList, Unsaved
<1>23. CASE RemoveListIface
  BY <1>23 DEF RemoveListIface, Unsaved
<1>24. CASE Reverted
  BY <1>24 DEF Reverted
<1>25. CASE Clean
  BY <1>25 DEF Clean
<1>26. CASE Purge
  BY <1>26 DEF Purge, Unsaved, NoCpu
<1>27. CASE Kill
  BY <1>27 DEF Kill, Die, Unsaved
<1>28. CASE Reboot
  BY <1>28 DEF Reboot, Die, Unsaved, Masks
<1>29. CASE Balance
  <2>1. affinity' \in [Irqs -> Affinities]
    <3> HIDE DEF TypeInv
    <3> QED
      BY <1>29, Moves, OneCpu, AffinityTyped
  <2>2. before' \in [affinity : [Irqs -> Affinities], balancer : BOOLEAN]
    <3>1. PICK i \in Irqs, c \in Cpus :
            before' = IF pc \in ApplySteps
                      THEN [before EXCEPT !.affinity[i] = {c}] ELSE before
      BY <1>29 DEF Balance
    <3>2. {c} \in Affinities
      BY OneCpu
    <3>3. before \in [affinity : [Irqs -> Affinities], balancer : BOOLEAN]
      OBVIOUS
    <3> HIDE DEF TypeInv, TypeOK, ApplySteps
    <3> QED
      BY <3>1, <3>2, <3>3
  <2> QED
    BY <1>29, <2>1, <2>2 DEF Balance
<1>30. CASE SkipIrq
  BY <1>30, IrqVisited DEF SkipIrq
<1>31. CASE UNCHANGED vars
  BY <1>31 DEF vars
<1> QED
  BY <1>1, <1>2, <1>3, <1>4, <1>5, <1>6, <1>7, <1>8, <1>9, <1>10, <1>11, <1>12,
     <1>13, <1>14, <1>15, <1>16, <1>17, <1>18, <1>19, <1>20, <1>21, <1>22, <1>23,
     <1>24, <1>25, <1>26, <1>27, <1>28, <1>29, <1>30, <1>31
  DEF Next, Apply, Revert
-----------------------------------------------------------------------------
(* The parts of the invariant, each kept by every step.                     *)

(* start and stop run only next to sysctl_backup. *)
LEMMA NextLifecycle ==
    ASSUME LifecycleInv, [Next]_vars
    PROVE  LifecycleInv'
<1> USE DEF LifecycleInv, ApplySteps, Goto, Loop, Over, Save, Remove, disk, machine
<1>1. CASE Start
  BY <1>1 DEF Start
<1>2. CASE SpreadQueue
  BY <1>2 DEF SpreadQueue
<1>3. CASE SaveMasks
  BY <1>3 DEF SaveMasks
<1>4. CASE SaveMasksIface
  BY <1>4 DEF SaveMasksIface
<1>5. CASE SaveBalancer
  BY <1>5 DEF SaveBalancer
<1>6. CASE NoBalancer
  BY <1>6 DEF NoBalancer
<1>7. CASE StopBalancer
  BY <1>7 DEF StopBalancer
<1>8. CASE SaveCpu
  BY <1>8 DEF SaveCpu
<1>9. CASE Pin
  BY <1>9 DEF Pin
<1>10. CASE SaveList
  BY <1>10 DEF SaveList
<1>11. CASE SaveListIface
  BY <1>11 DEF SaveListIface
<1>12. CASE Stop
  BY <1>12 DEF Stop
<1>13. CASE LoadMasks
  BY <1>13 DEF LoadMasks
<1>14. CASE RestoreMask
  BY <1>14 DEF RestoreMask
<1>15. CASE RemoveMasks
  BY <1>15 DEF RemoveMasks
<1>16. CASE RemoveMasksIface
  BY <1>16 DEF RemoveMasksIface
<1>17. CASE LoadList
  BY <1>17 DEF LoadList
<1>18. CASE RestoreIrq
  BY <1>18 DEF RestoreIrq
<1>19. CASE RemovePrev
  BY <1>19 DEF RemovePrev
<1>20. CASE StartBalancer
  BY <1>20 DEF StartBalancer
<1>21. CASE RemoveBalancer
  BY <1>21 DEF RemoveBalancer
<1>22. CASE RemoveList
  BY <1>22 DEF RemoveList
<1>23. CASE RemoveListIface
  BY <1>23 DEF RemoveListIface
<1>24. CASE Reverted
  BY <1>24 DEF Reverted
<1>25. CASE Clean
  BY <1>25 DEF Clean
<1>26. CASE Purge
  BY <1>26 DEF Purge
<1>27. CASE Kill
  BY <1>27 DEF Kill, Die
<1>28. CASE Reboot
  BY <1>28 DEF Reboot, Die
<1>29. CASE Balance
  BY <1>29 DEF Balance
<1>30. CASE SkipIrq
  BY <1>30 DEF SkipIrq
<1>31. CASE UNCHANGED vars
  BY <1>31 DEF vars
<1> QED
  BY <1>1, <1>2, <1>3, <1>4, <1>5, <1>6, <1>7, <1>8, <1>9, <1>10, <1>11, <1>12, <1>13,
     <1>14, <1>15, <1>16, <1>17, <1>18, <1>19, <1>20, <1>21, <1>22, <1>23, <1>24, <1>25,
     <1>26, <1>27, <1>28, <1>29, <1>30, <1>31
  DEF Next, Apply, Revert

(* Masks: read before they are changed, back before their record goes. *)
LEMMA NextMasks ==
    ASSUME TypeInv, LifecycleInv, MasksInv, ~ApplyCut, [Next]_vars
    PROVE  MasksInv'
<1> USE DEF LifecycleInv, MasksInv, ApplySteps, NoneSpread, MasksOnRecord, Spreading,
            MasksBack, Unpinning, Balancing, Ending, Goto, Loop, Over, Save, Remove,
            disk, machine
<1>1. CASE Start
  BY <1>1 DEF Start
<1>2. CASE SpreadQueue
  <2>1. Current \in todo /\ Current \in Queues
    BY <1>2, QueueVisited DEF SpreadQueue, QueueLoops
  <2>2. mask \in [Queues -> Masks] /\ read \in [Queues -> Masks \cup {Empty}]
    BY DEF TypeInv, TypeOK
  <2>3. ASSUME NEW q \in Queues
        PROVE  IF q \in todo' THEN mask'[q] # "all" ELSE read'[q] \in Originals
    <3>1. CASE q = Current
      BY <1>2, <2>1, <2>2, <3>1 DEF SpreadQueue, Masks, Originals
    <3>2. CASE q # Current
      BY <1>2, <2>1, <2>2, <3>2 DEF SpreadQueue
    <3> QED
      BY <3>1, <3>2
  <2> QED
    BY <1>2, <2>3 DEF SpreadQueue
<1>3. CASE SaveMasks
  BY <1>3 DEF SaveMasks
<1>4. CASE SaveMasksIface
  BY <1>4 DEF SaveMasksIface
<1>5. CASE SaveBalancer
  BY <1>5 DEF SaveBalancer
<1>6. CASE NoBalancer
  BY <1>6 DEF NoBalancer
<1>7. CASE StopBalancer
  BY <1>7 DEF StopBalancer
<1>8. CASE SaveCpu
  BY <1>8 DEF SaveCpu
<1>9. CASE Pin
  BY <1>9 DEF Pin
<1>10. CASE SaveList
  BY <1>10 DEF SaveList
<1>11. CASE SaveListIface
  BY <1>11 DEF SaveListIface
<1>12. CASE Stop
  BY <1>12 DEF Stop
<1>13. CASE LoadMasks
  BY <1>13 DEF LoadMasks
<1>14. CASE RestoreMask
  <2>1. Current \in todo /\ Current \in Queues
    BY <1>14, QueueVisited DEF RestoreMask, QueueLoops
  <2>2. mask \in [Queues -> Masks]
    BY DEF TypeInv, TypeOK
  <2>3. ASSUME NEW q \in Queues
        PROVE  /\ read'[q] \in Originals /\ (q \in todo' \/ mask'[q] # "all")
               /\ mask[q] # "all" => mask'[q] # "all"
    <3>1. CASE q = Current
      BY <1>14, <2>1, <2>2, <3>1, EmptyIsNoWord DEF RestoreMask, Originals
    <3>2. CASE q # Current
      BY <1>14, <2>1, <2>2, <3>2 DEF RestoreMask
    <3> QED
      BY <3>1, <3>2
  <2> QED
    BY <1>14, <2>3 DEF RestoreMask
<1>15. CASE RemoveMasks
  BY <1>15 DEF RemoveMasks
<1>16. CASE RemoveMasksIface
  BY <1>16 DEF RemoveMasksIface
<1>17. CASE LoadList
  BY <1>17 DEF LoadList
<1>18. CASE RestoreIrq
  BY <1>18 DEF RestoreIrq
<1>19. CASE RemovePrev
  BY <1>19 DEF RemovePrev
<1>20. CASE StartBalancer
  BY <1>20 DEF StartBalancer
<1>21. CASE RemoveBalancer
  BY <1>21 DEF RemoveBalancer
<1>22. CASE RemoveList
  BY <1>22 DEF RemoveList
<1>23. CASE RemoveListIface
  BY <1>23 DEF RemoveListIface
<1>24. CASE Reverted
  BY <1>24 DEF Reverted
<1>25. CASE Clean
  BY <1>25 DEF Clean
<1>26. CASE Purge
  BY <1>26 DEF Purge
<1>27. CASE Kill
  BY <1>27 DEF Kill, Die
<1>28. CASE Reboot
  BY <1>28 DEF Reboot, Die
<1>29. CASE Balance
  BY <1>29 DEF Balance
<1>30. CASE SkipIrq
  BY <1>30 DEF SkipIrq
<1>31. CASE UNCHANGED vars
  BY <1>31 DEF vars
<1> QED
  BY <1>1, <1>2, <1>3, <1>4, <1>5, <1>6, <1>7, <1>8, <1>9, <1>10, <1>11, <1>12, <1>13,
     <1>14, <1>15, <1>16, <1>17, <1>18, <1>19, <1>20, <1>21, <1>22, <1>23, <1>24, <1>25,
     <1>26, <1>27, <1>28, <1>29, <1>30, <1>31
  DEF Next, Apply, Revert

(* The list outlasts irqbalance's flag and every irq_prev_*. *)
LEMMA NextList ==
    ASSUME LifecycleInv, BalancerInv, ListInv, ~ApplyCut, [Next]_vars
    PROVE  ListInv'
<1> USE DEF LifecycleInv, BalancerInv, ListInv, ApplySteps, Listed, WasActive,
            Spreading, Stopping, Pinning, Unpinning, Balancing, Ending, Goto, Loop,
            Over, Save, Remove, disk, machine
<1>1. CASE Start
  BY <1>1 DEF Start
<1>2. CASE SpreadQueue
  BY <1>2 DEF SpreadQueue
<1>3. CASE SaveMasks
  BY <1>3 DEF SaveMasks
<1>4. CASE SaveMasksIface
  BY <1>4 DEF SaveMasksIface
<1>5. CASE SaveBalancer
  BY <1>5 DEF SaveBalancer
<1>6. CASE NoBalancer
  BY <1>6 DEF NoBalancer
<1>7. CASE StopBalancer
  BY <1>7 DEF StopBalancer
<1>8. CASE SaveCpu
  BY <1>8 DEF SaveCpu
<1>9. CASE Pin
  BY <1>9 DEF Pin
<1>10. CASE SaveList
  BY <1>10 DEF SaveList
<1>11. CASE SaveListIface
  BY <1>11 DEF SaveListIface
<1>12. CASE Stop
  BY <1>12 DEF Stop
<1>13. CASE LoadMasks
  BY <1>13 DEF LoadMasks
<1>14. CASE RestoreMask
  BY <1>14 DEF RestoreMask
<1>15. CASE RemoveMasks
  BY <1>15 DEF RemoveMasks
<1>16. CASE RemoveMasksIface
  BY <1>16 DEF RemoveMasksIface
<1>17. CASE LoadList
  BY <1>17 DEF LoadList
<1>18. CASE RestoreIrq
  BY <1>18 DEF RestoreIrq
<1>19. CASE RemovePrev
  BY <1>19 DEF RemovePrev
<1>20. CASE StartBalancer
  BY <1>20 DEF StartBalancer
<1>21. CASE RemoveBalancer
  BY <1>21 DEF RemoveBalancer
<1>22. CASE RemoveList
  BY <1>22 DEF RemoveList
<1>23. CASE RemoveListIface
  BY <1>23 DEF RemoveListIface
<1>24. CASE Reverted
  BY <1>24 DEF Reverted
<1>25. CASE Clean
  BY <1>25 DEF Clean
<1>26. CASE Purge
  BY <1>26 DEF Purge
<1>27. CASE Kill
  BY <1>27 DEF Kill, Die
<1>28. CASE Reboot
  BY <1>28 DEF Reboot, Die
<1>29. CASE Balance
  BY <1>29 DEF Balance
<1>30. CASE SkipIrq
  BY <1>30 DEF SkipIrq
<1>31. CASE UNCHANGED vars
  BY <1>31 DEF vars
<1> QED
  BY <1>1, <1>2, <1>3, <1>4, <1>5, <1>6, <1>7, <1>8, <1>9, <1>10, <1>11, <1>12, <1>13,
     <1>14, <1>15, <1>16, <1>17, <1>18, <1>19, <1>20, <1>21, <1>22, <1>23, <1>24, <1>25,
     <1>26, <1>27, <1>28, <1>29, <1>30, <1>31
  DEF Next, Apply, Revert

(* irqbalance is started again before its flag is removed. *)
LEMMA NextBalancer ==
    ASSUME TypeInv, LifecycleInv, ListInv, BalancerInv, ~ApplyCut, [Next]_vars
    PROVE  BalancerInv'
<1> USE DEF LifecycleInv, BalancerInv, ListInv, ApplySteps, Listed, WasActive,
            Spreading, Stopping, Pinning, Unpinning, Balancing, Ending, Goto, Loop,
            Over, Save, Remove, disk, machine
<1>1. CASE Start
  BY <1>1 DEF Start
<1>2. CASE SpreadQueue
  BY <1>2 DEF SpreadQueue
<1>3. CASE SaveMasks
  BY <1>3 DEF SaveMasks
<1>4. CASE SaveMasksIface
  BY <1>4 DEF SaveMasksIface
<1>5. CASE SaveBalancer
  BY <1>5 DEF SaveBalancer
<1>6. CASE NoBalancer
  BY <1>6 DEF NoBalancer
<1>7. CASE StopBalancer
  BY <1>7 DEF StopBalancer
<1>8. CASE SaveCpu
  BY <1>8 DEF SaveCpu
<1>9. CASE Pin
  BY <1>9 DEF Pin
<1>10. CASE SaveList
  BY <1>10 DEF SaveList
<1>11. CASE SaveListIface
  BY <1>11 DEF SaveListIface
<1>12. CASE Stop
  BY <1>12 DEF Stop
<1>13. CASE LoadMasks
  BY <1>13 DEF LoadMasks
<1>14. CASE RestoreMask
  BY <1>14 DEF RestoreMask
<1>15. CASE RemoveMasks
  BY <1>15 DEF RemoveMasks
<1>16. CASE RemoveMasksIface
  BY <1>16 DEF RemoveMasksIface
<1>17. CASE LoadList
  BY <1>17 DEF LoadList
<1>18. CASE RestoreIrq
  BY <1>18 DEF RestoreIrq
<1>19. CASE RemovePrev
  BY <1>19 DEF RemovePrev
<1>20. CASE StartBalancer
  BY <1>20 DEF StartBalancer
<1>21. CASE RemoveBalancer
  BY <1>21 DEF RemoveBalancer
<1>22. CASE RemoveList
  BY <1>22 DEF RemoveList
<1>23. CASE RemoveListIface
  BY <1>23 DEF RemoveListIface
<1>24. CASE Reverted
  BY <1>24 DEF Reverted
<1>25. CASE Clean
  BY <1>25 DEF Clean
<1>26. CASE Purge
  BY <1>26 DEF Purge
<1>27. CASE Kill
  BY <1>27 DEF Kill, Die
<1>28. CASE Reboot
  BY <1>28 DEF Reboot, Die, TypeInv, TypeOK
<1>29. CASE Balance
  BY <1>29 DEF Balance
<1>30. CASE SkipIrq
  BY <1>30 DEF SkipIrq
<1>31. CASE UNCHANGED vars
  BY <1>31 DEF vars
<1> QED
  BY <1>1, <1>2, <1>3, <1>4, <1>5, <1>6, <1>7, <1>8, <1>9, <1>10, <1>11, <1>12, <1>13,
     <1>14, <1>15, <1>16, <1>17, <1>18, <1>19, <1>20, <1>21, <1>22, <1>23, <1>24, <1>25,
     <1>26, <1>27, <1>28, <1>29, <1>30, <1>31
  DEF Next, Apply, Revert

(* No irq_prev_* without the list that leads to it. *)
LEMMA NextRecord ==
    ASSUME IInv, ~ApplyCut, [Next]_vars
    PROVE  RecordInv'
<1> USE DEF IInv, LifecycleInv, RecordInv, BalancerInv, ListInv, ApplySteps, Recorded,
            Listed, WasActive, Spreading, Stopping, Pinning, Unpinning, Balancing,
            Ending, Goto, Loop, Over, Save, Remove, disk, machine
<1>1. CASE Start
  BY <1>1 DEF Start
<1>2. CASE SpreadQueue
  BY <1>2 DEF SpreadQueue
<1>3. CASE SaveMasks
  BY <1>3 DEF SaveMasks
<1>4. CASE SaveMasksIface
  BY <1>4 DEF SaveMasksIface
<1>5. CASE SaveBalancer
  BY <1>5 DEF SaveBalancer
<1>6. CASE NoBalancer
  BY <1>6 DEF NoBalancer
<1>7. CASE StopBalancer
  BY <1>7 DEF StopBalancer
<1>8. CASE SaveCpu
  <2>1. Current \in todo /\ Current \in list /\ Current \in Irqs
    BY <1>8, IrqVisited DEF SaveCpu, IrqLoops
  <2>2. prev \in [Irqs -> Cpus \cup {NumCpus}]
    BY DEF TypeInv, TypeOK
  <2>3. Current' = Current /\ todo' = todo
    BY <1>8 DEF SaveCpu, Current
  <2> QED
    BY <1>8, <2>1, <2>2, <2>3 DEF SaveCpu
<1>9. CASE Pin
  BY <1>9 DEF Pin
<1>10. CASE SaveList
  BY <1>10 DEF SaveList
<1>11. CASE SaveListIface
  BY <1>11 DEF SaveListIface
<1>12. CASE Stop
  BY <1>12 DEF Stop
<1>13. CASE LoadMasks
  BY <1>13 DEF LoadMasks
<1>14. CASE RestoreMask
  BY <1>14 DEF RestoreMask
<1>15. CASE RemoveMasks
  BY <1>15 DEF RemoveMasks
<1>16. CASE RemoveMasksIface
  BY <1>16 DEF RemoveMasksIface
<1>17. CASE LoadList
  BY <1>17 DEF LoadList
<1>18. CASE RestoreIrq
  BY <1>18 DEF RestoreIrq
<1>19. CASE RemovePrev
  <2>1. Current \in todo /\ Current \in Irqs
    BY <1>19, IrqVisited DEF RemovePrev, IrqLoops
  <2>2. prev \in [Irqs -> Cpus \cup {NumCpus}]
    BY DEF TypeInv, TypeOK
  <2> QED
    BY <1>19, <2>1, <2>2 DEF RemovePrev
<1>20. CASE StartBalancer
  BY <1>20 DEF StartBalancer
<1>21. CASE RemoveBalancer
  BY <1>21 DEF RemoveBalancer
<1>22. CASE RemoveList
  BY <1>22 DEF RemoveList
<1>23. CASE RemoveListIface
  BY <1>23 DEF RemoveListIface
<1>24. CASE Reverted
  BY <1>24 DEF Reverted
<1>25. CASE Clean
  BY <1>25 DEF Clean
<1>26. CASE Purge
  BY <1>26 DEF Purge, NoCpu
<1>27. CASE Kill
  BY <1>27 DEF Kill, Die
<1>28. CASE Reboot
  BY <1>28 DEF Reboot, Die
<1>29. CASE Balance
  BY <1>29 DEF Balance
<1>30. CASE SkipIrq
  BY <1>30 DEF SkipIrq
<1>31. CASE UNCHANGED vars
  BY <1>31 DEF vars, Current
<1> QED
  BY <1>1, <1>2, <1>3, <1>4, <1>5, <1>6, <1>7, <1>8, <1>9, <1>10, <1>11, <1>12, <1>13,
     <1>14, <1>15, <1>16, <1>17, <1>18, <1>19, <1>20, <1>21, <1>22, <1>23, <1>24, <1>25,
     <1>26, <1>27, <1>28, <1>29, <1>30, <1>31
  DEF Next, Apply, Revert

(* What is on record is what was in force, and is given back before it goes. *)
LEMMA NextAffinity ==
    ASSUME IInv, AffinityInv, ~ApplyCut, [Next]_vars
    PROVE  AffinityInv'
<1> USE DEF AffinityInv, IInv, LifecycleInv, RecordInv, BalancerInv, ListInv,
            ApplySteps, Recorded, Listed, WasActive, Settled, Spreading,
            Stopping, Pinning, Unpinning, Balancing, Ending, Goto, Loop, Over, Save,
            Remove, disk, machine
<1>1. CASE Start
  <2>1. /\ before'.affinity = affinity
        /\ pc' \in {"idle", "spread", "save_masks"}
        /\ UNCHANGED <<affinity, boot, prev, balancer>>
    BY <1>1 DEF Start
  <2>2. \A i \in Irqs : ~Recorded(i) /\ ~Recorded(i)'
    BY <1>1, <2>1 DEF Start
  <2> QED
    BY <2>1, <2>2
<1>2. CASE SpreadQueue
  BY <1>2 DEF SpreadQueue
<1>3. CASE SaveMasks
  BY <1>3 DEF SaveMasks
<1>4. CASE SaveMasksIface
  BY <1>4 DEF SaveMasksIface
<1>5. CASE SaveBalancer
  BY <1>5 DEF SaveBalancer
<1>6. CASE NoBalancer
  BY <1>6 DEF NoBalancer
<1>7. CASE StopBalancer
  BY <1>7 DEF StopBalancer
<1>8. CASE SaveCpu
  <2>1. Current \in todo /\ Current \in Irqs
    BY <1>8, IrqVisited DEF SaveCpu, IrqLoops
  <2>2. /\ prev \in [Irqs -> Cpus \cup {NumCpus}]
        /\ Min(affinity[Current]) \in affinity[Current]
        /\ Min(affinity[Current]) \in Cpus
    BY <2>1, FirstIsCpu DEF TypeInv, TypeOK
  <2>3. ~Recorded(Current) /\ ~balancer
    BY <1>8, <2>1 DEF SaveCpu
  <2>4. affinity[Current] = before.affinity[Current]
    BY <1>8, <2>1, <2>3 DEF SaveCpu
  <2>5. prev'[Current] \in Cpus /\ prev'[Current] \in before.affinity[Current]
    BY <1>8, <2>1, <2>2, <2>4 DEF SaveCpu
  <2>6. /\ \A j \in Irqs \ {Current} : prev'[j] = prev[j]
        /\ Current' = Current /\ pc = "save_cpu" /\ pc' = "pin"
        /\ UNCHANGED <<affinity, boot, before, balancer>>
    BY <1>8, <2>1, <2>2 DEF SaveCpu, Current
  <2> QED
    BY <2>1, <2>5, <2>6, Numbers
<1>9. CASE Pin
  <2>1. Current \in todo /\ Current \in Irqs
    BY <1>9, IrqVisited DEF Pin, IrqLoops
  <2>2. PICK c \in Cpus : Target(Current) = {c}
    BY <2>1, TargetIsCpu DEF TypeInv
  <2>3. affinity \in [Irqs -> Affinities]
    BY DEF TypeInv, TypeOK
  <2>4. /\ \A j \in Irqs \ {Current} : affinity'[j] = affinity[j]
        /\ affinity'[Current] \in {affinity[Current], {c}}
        /\ pc = "pin" /\ pc' \in {"save_cpu", "save_list"}
        /\ UNCHANGED <<prev, boot, before, balancer>>
    BY <1>9, <2>1, <2>2, <2>3 DEF Pin
  <2>5. Recorded(Current)
    BY <1>9 DEF Pin
  <2> QED
    BY <2>1, <2>4, <2>5
<1>10. CASE SaveList
  BY <1>10 DEF SaveList
<1>11. CASE SaveListIface
  BY <1>11 DEF SaveListIface
<1>12. CASE Stop
  BY <1>12 DEF Stop
<1>13. CASE LoadMasks
  BY <1>13 DEF LoadMasks
<1>14. CASE RestoreMask
  BY <1>14 DEF RestoreMask
<1>15. CASE RemoveMasks
  BY <1>15 DEF RemoveMasks
<1>16. CASE RemoveMasksIface
  BY <1>16 DEF RemoveMasksIface
<1>17. CASE LoadList
  BY <1>17 DEF LoadList
<1>18. CASE RestoreIrq
  <2>1. Current \in todo /\ Current \in Irqs
    BY <1>18, IrqVisited DEF RestoreIrq, IrqLoops
  <2>2. /\ affinity \in [Irqs -> Affinities]
        /\ prev[Current] \in Cpus \cup {NumCpus}
    BY <2>1 DEF TypeInv, TypeOK
  <2>3. CASE Recorded(Current)
    <3>1. /\ \A j \in Irqs \ {Current} : affinity'[j] = affinity[j]
          /\ affinity'[Current] = {prev[Current]}
          /\ pc' = "remove_prev" /\ Current' = Current
          /\ UNCHANGED <<prev, boot, before, balancer>>
      BY <1>18, <2>1, <2>2, <2>3 DEF RestoreIrq, Current
    <3>2. Settled(Current, affinity[Current])'
      BY <2>1, <2>3, <3>1
    <3> QED
      BY <2>1, <2>3, <3>1, <3>2
  <2>4. CASE ~Recorded(Current)
    <3>1. /\ pc' \in {"restore_irq", "start_balancer"}
          /\ UNCHANGED <<affinity, prev, boot, before, balancer>>
      BY <1>18, <2>4 DEF RestoreIrq
    <3> QED
      BY <3>1
  <2> QED
    BY <2>3, <2>4
<1>19. CASE RemovePrev
  BY <1>19 DEF RemovePrev
<1>20. CASE StartBalancer
  BY <1>20 DEF StartBalancer
<1>21. CASE RemoveBalancer
  BY <1>21 DEF RemoveBalancer
<1>22. CASE RemoveList
  BY <1>22 DEF RemoveList
<1>23. CASE RemoveListIface
  BY <1>23 DEF RemoveListIface
<1>24. CASE Reverted
  BY <1>24 DEF Reverted
<1>25. CASE Clean
  BY <1>25 DEF Clean
<1>26. CASE Purge
  BY <1>26 DEF Purge, NoCpu
<1>27. CASE Kill
  BY <1>27 DEF Kill, Die
<1>28. CASE Reboot
  <2>1. before \in [affinity : [Irqs -> Affinities], balancer : BOOLEAN]
    BY DEF TypeInv, TypeOK
  <2>2. /\ before'.affinity = before.affinity
        /\ affinity' = boot /\ pc' = "idle"
        /\ UNCHANGED <<boot, prev>>
    BY <1>28, <2>1 DEF Reboot, Die
  <2> QED
    BY <2>2
<1>29. CASE Balance
  <2>1. /\ before \in [affinity : [Irqs -> Affinities], balancer : BOOLEAN]
        /\ affinity \in [Irqs -> Affinities]
    BY DEF TypeInv, TypeOK
  <2>2. PICK i \in Irqs, c \in Cpus :
          /\ affinity' = [affinity EXCEPT ![i] = {c}]
          /\ before' = IF pc \in ApplySteps
                       THEN [before EXCEPT !.affinity[i] = {c}] ELSE before
    BY <1>29 DEF Balance
  <2>3. UNCHANGED <<pc, todo, prev, boot, balancer>> /\ balancer
    BY <1>29 DEF Balance
  <2>4. CASE pc \in ApplySteps
    <3>1. \A j \in Irqs : ~Recorded(j)
      BY <2>3, <2>4
    <3>2. before'.affinity = [before.affinity EXCEPT ![i] = {c}]
      BY <2>1, <2>2, <2>4
    <3>3. \A j \in Irqs : affinity[j] = before.affinity[j]
      BY <2>4, <3>1
    <3>4. \A j \in Irqs : affinity'[j] = before'.affinity[j]
      BY <2>1, <2>2, <3>2, <3>3
    <3>5. pc # "pin"
      BY <2>3
    <3> QED
      BY <2>3, <3>1, <3>4, <3>5
  <2>5. CASE pc \notin ApplySteps
    BY <2>2, <2>3, <2>5
  <2> QED
    BY <2>4, <2>5
<1>30. CASE SkipIrq
  BY <1>30 DEF SkipIrq
<1>31. CASE UNCHANGED vars
  BY <1>31 DEF vars, Current
<1> QED
  BY <1>1, <1>2, <1>3, <1>4, <1>5, <1>6, <1>7, <1>8, <1>9, <1>10, <1>11, <1>12, <1>13,
     <1>14, <1>15, <1>16, <1>17, <1>18, <1>19, <1>20, <1>21, <1>22, <1>23, <1>24, <1>25,
     <1>26, <1>27, <1>28, <1>29, <1>30, <1>31
  DEF Next, Apply, Revert

-----------------------------------------------------------------------------
(* What is proved.                                                          *)

(* Every variable keeps its type, wherever start and stop are interrupted:  *)
(* a loop that visits the least number left always finds one.               *)
THEOREM IrqTypeCorrect == Spec => []TypeOK
<1>1. TypeInv => TypeOK
  BY DEF TypeInv
<1> QED
  BY <1>1, InitTyped, NextTyped, PTL DEF Spec

(* A machine on which betterconn has not run. *)
LEMMA InitInvariant == Init => IInv
<1> SUFFICES ASSUME Init
             PROVE  IInv
  OBVIOUS
<1>1. TypeInv
  BY InitTyped
<1>2. pc = "idle" /\ active = FALSE /\ files = {} /\ before.balancer = balancer
  BY DEF Init
<1>3. \A q \in Queues : mask[q] # "all"
  BY DEF Init
<1>4. \A i \in Irqs : ~Recorded(i)
  BY DEF Init, NoCpu, Recorded
<1>5. LifecycleInv
  BY <1>2 DEF LifecycleInv
<1>6. MasksInv
  BY <1>2, <1>3 DEF MasksInv, NoneSpread
<1>7. BalancerInv /\ ListInv
  BY <1>2
  DEF BalancerInv, ListInv, WasActive, Listed, Spreading, Stopping, Pinning, Unpinning,
      Balancing, Ending, ApplySteps
<1>8. RecordInv
  BY <1>4 DEF RecordInv
<1> QED
  BY <1>1, <1>5, <1>6, <1>7, <1>8 DEF IInv

(* The kernel may serve an interrupt by any CPUs at first. *)
LEMMA InitAffinity == Init => AffinityInv
<1> SUFFICES ASSUME Init
             PROVE  AffinityInv
  OBVIOUS
<1>1. pc = "idle" /\ before.affinity = affinity
  BY DEF Init
<1>2. \A i \in Irqs : ~Recorded(i)
  BY DEF Init, NoCpu, Recorded
<1> QED
  BY <1>1, <1>2 DEF AffinityInv, Settled, ApplySteps

(* As long as start is not killed inside apply(), whatever it has changed   *)
(* is on record until stop has given it back.                               *)
THEOREM IrqInvariant ==
    ASSUME ~ApplyCut
    PROVE  Spec => []IInv
<1>1. IInv /\ [Next]_vars => IInv'
  BY NextTyped, NextLifecycle, NextMasks, NextBalancer, NextList, NextRecord DEF IInv
<1> QED
  BY <1>1, InitInvariant, PTL DEF Spec

(* "The original has to be kept verbatim" (irq_affinity.cpp:183): after     *)
(* stop no queue keeps the mask of all CPUs, whatever was killed, and how   *)
(* often stop was repeated.                                                 *)
THEOREM MasksComeBack ==
    ASSUME ~ApplyCut
    PROVE  Spec => []MasksRestored
<1>1. IInv => MasksRestored
  BY DEF IInv, MasksInv, MasksBack, Ending, NoneSpread, MasksRestored
<1> QED
  BY <1>1, IrqInvariant, PTL

(* The masks in force, read and on record, when those of b were in force.   *)
MaskValues(b) ==
    \A q \in Queues :
        {mask[q], read[q], maskFile[q]} \subseteq {b[q], "driver", "all", Empty}

(* A mask is only ever read, saved, given back, spread or reset by a boot.  *)
LEMMA NextMaskValues ==
    ASSUME TypeInv, [Next]_vars, NEW b, MaskValues(b)
    PROVE  MaskValues(b)'
<1> USE DEF MaskValues, Goto, Loop, Over, Save, Remove, disk, machine
<1>1. /\ mask \in [Queues -> Masks] /\ read \in [Queues -> Masks \cup {Empty}]
      /\ \A q \in Queues : Unsaved[q] = Empty
  BY DEF TypeInv, TypeOK, Unsaved
<1>2. CASE SpreadQueue
  BY <1>1, <1>2 DEF SpreadQueue
<1>3. CASE LoadMasks \/ RestoreMask
  BY <1>1, <1>3 DEF LoadMasks, RestoreMask
<1>4. CASE Kill \/ Reboot
  BY <1>1, <1>4 DEF Kill, Reboot, Die
<1>5. CASE SaveMasks \/ RemoveMasks \/ Purge
  BY <1>1, <1>5 DEF SaveMasks, RemoveMasks, Purge
<1>6. CASE \/ Start \/ NoBalancer \/ StopBalancer \/ SaveCpu \/ Pin \/ Balance
           \/ Stop \/ LoadList \/ RestoreIrq \/ RemovePrev \/ StartBalancer \/ Reverted
           \/ Clean \/ SkipIrq
  BY <1>6
  DEF Start, NoBalancer, StopBalancer, SaveCpu, Pin, Balance, Stop, LoadList, RestoreIrq,
      RemovePrev, StartBalancer, Reverted, Clean, SkipIrq
<1>7. CASE \/ SaveMasksIface \/ SaveBalancer \/ SaveList \/ SaveListIface
           \/ RemoveMasksIface \/ RemoveBalancer \/ RemoveList \/ RemoveListIface
  BY <1>7
  DEF SaveMasksIface, SaveBalancer, SaveList, SaveListIface, RemoveMasksIface,
      RemoveBalancer, RemoveList, RemoveListIface
<1>8. CASE UNCHANGED vars
  BY <1>8 DEF vars
<1> QED
  BY <1>2, <1>3, <1>4, <1>5, <1>6, <1>7, <1>8 DEF Next, Apply, Revert

(* The masks are kept verbatim (irq_affinity.cpp:183): stop gives back the    *)
(* one each queue had before the first start, or the driver's after a boot.  *)
THEOREM MasksAreTheirOwnAgain ==
    ASSUME ~ApplyCut, NEW CONSTANT Before \in [Queues -> {"driver", "custom"}]
    PROVE  mask = Before /\ Spec =>
               [](pc = "reverted" => \A q \in Queues : mask[q] \in {Before[q], "driver"})
<1> DEFINE Theirs == \A q \in Queues : mask[q] \in {Before[q], "driver"}
<1>1. mask = Before /\ Init => MaskValues(Before)
  BY DEF Init, MaskValues, Unsaved
<1>2. TypeInv /\ MaskValues(Before) /\ [Next]_vars => MaskValues(Before)'
  BY NextMaskValues
<1>3. TypeInv /\ MaskValues(Before) /\ MasksRestored => (pc = "reverted" => Theirs)
  BY EmptyIsNoWord DEF MaskValues, MasksRestored, TypeInv, TypeOK, Masks
<1> QED
  BY <1>1, <1>2, <1>3, InitTyped, NextTyped, MasksComeBack, PTL DEF Spec

(* An irqbalance that ran when start was typed, and that no boot has ended, *)
(* runs again after stop.                                                   *)
THEOREM BalancerComesBack ==
    ASSUME ~ApplyCut
    PROVE  Spec => []BalancerRestored
<1>1. IInv => BalancerRestored
  BY DEF IInv, BalancerInv, Ending, BalancerRestored
<1> QED
  BY <1>1, IrqInvariant, PTL

(* Every interrupt is served after stop by CPUs that served it before start *)
(* pinned it, or as after the boot: for any affinities, whichever           *)
(* interrupts start has taken for the interface's, wherever stop was        *)
(* killed, and with no read of an affinity that irqbalance still moved.     *)
THEOREM AffinitiesComeBack ==
    ASSUME ~ApplyCut
    PROVE  Spec => []AffinityRestored
<1>1. Init => AffinityInv
  BY InitAffinity
<1>2. IInv /\ AffinityInv /\ [Next]_vars => AffinityInv'
  BY NextAffinity
<1>3. IInv /\ AffinityInv => AffinityRestored
  <2> SUFFICES ASSUME IInv, AffinityInv, pc \in {"start_balancer", "reverted"}, ~balancer,
                      NEW i \in Irqs
               PROVE  Settled(i, affinity[i])
    BY DEF AffinityRestored, Settled
  <2>1. ~Recorded(i)
    BY DEF IInv, RecordInv, Balancing, Ending
  <2> QED
    BY <2>1 DEF AffinityInv
<1> QED
  BY <1>1, <1>2, <1>3, IrqInvariant, PTL DEF Spec
=============================================================================
