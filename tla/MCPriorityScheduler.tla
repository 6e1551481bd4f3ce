------------------------- MODULE MCPriorityScheduler -------------------------
(* Instances of PriorityScheduler: one age for each side of every threshold *)
(* the code compares a decay factor with (0.75, 0.7, 0.65, 0.35, 0.3, 0.25, *)
(* and the 300 s after which an entry is stale).                            *)
EXTENDS PriorityScheduler, TLC

MCCurve == <<90, 72, 67, 50, 32, 27, 10, 0>>

(* An age for each tier a neglected process passes through.                 *)
ShortCurve == <<90, 50, 0>>

(* Process numbers are interchangeable. *)
Symmetry == Permutations(Pids)
=============================================================================
