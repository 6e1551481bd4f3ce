-------------------------- MODULE WifiAirtimeProofs --------------------------
(* What is proved about WifiAirtime for any number of access categories,    *)
(* kernels with and without a threshold, adapters that come and go between  *)
(* two boots, and kills at every step but those that save.                  *)
EXTENDS WifiAirtime, TLAPS

(* The file that keeps the limit of a category, or the threshold. *)
FileOf(k) == IF k = 0 THEN "aql_saved_threshold" ELSE "aql_saved_limits"

(* All that apply() saves is there, or nothing is. *)
Complete ==
    \/ files = {}
    \/ /\ {"aql_saved_limits", "aql_phy"} \subseteq files
       /\ threshold => "aql_saved_threshold" \in files

Untuned(K) == \A k \in K : live[k] # "tuned"

(* A limit is on record with its file, and tuned only while it is. *)
RecordInv ==
    /\ \A k \in Keys : FileOf(k) \notin files => saved[k] = "" /\ live[k] # "tuned"
    /\ \A k \in Keys : saved[k] # "tuned" /\ (live[k] = "tuned" => present)
    /\ pc # "write" /\ "aql_saved_limits" \in files =>
         \A k \in Categories : saved[k] \in Pristine
    /\ pc # "write_threshold" /\ "aql_saved_threshold" \in files => saved[0] \in Pristine
    /\ pc # "write_phy" /\ "aql_phy" \in files => phyKnown

(* While apply() saves, nothing it is about to save is tuned. *)
SavingInv ==
    /\ pc = "create" => files = {}
    /\ pc \in {"write", "create_phy"} => files = {"aql_saved_limits"}
    /\ pc \in {"write_phy", "threshold", "create_threshold"} =>
         files = {"aql_saved_limits", "aql_phy"}
    /\ pc = "write_threshold" => files = Files
    /\ pc \in {"create", "write"} => \A k \in Categories : seen[k] = live[k]
    /\ pc \in {"create_threshold", "write_threshold"} => threshold /\ seen[0] = live[0]
    /\ Saving => present /\ Untuned(Keys)

TighteningInv ==
    pc \in {"tighten", "tighten_threshold"} => present /\ Complete /\ files # {}

(* revert() undoes one after the other what apply() has saved. *)
RevertInv ==
    /\ pc \in {"restore", "remove"} => {"aql_saved_limits", "aql_phy"} \subseteq files
    /\ pc = "restore" => \A k \in Categories : k < idx => live[k] # "tuned"
    /\ pc = "remove" => Untuned(Categories)
    /\ pc \in {"restore_threshold", "remove_threshold"} =>
         "aql_saved_limits" \notin files /\ "aql_phy" \in files
    /\ pc = "remove_threshold" => "aql_saved_threshold" \in files /\ Untuned({0})
    /\ pc = "remove_phy" => files = {"aql_phy"}
    /\ pc \in {"reverted", "purge"} => files = {}

(* An interrupted stop leaves its part of the files to the next stop: the   *)
(* service is gone by then and start is refused.                            *)
LifecycleInv ==
    /\ pc \notin {"tighten", "restore"} => idx = 1
    /\ installed => active
    /\ pc = "idle" /\ ~active => files = {}
    /\ pc \in {"look", "applied"} => active /\ Complete
    /\ pc = "idle" /\ installed => Complete
    /\ Saving \/ pc \in {"tighten", "tighten_threshold"} => active
    /\ pc \in {"phy", "restore", "remove", "restore_threshold", "remove_threshold",
               "remove_phy", "reverted"} => active
    /\ pc \in {"phy", "restore", "remove", "restore_threshold", "remove_threshold",
               "remove_phy", "reverted", "purge"} => ~installed
    /\ pc \in {"idle", "phy"} /\ files # {} => "aql_phy" \in files

IInv == TypeOK /\ RecordInv /\ SavingInv /\ TighteningInv /\ RevertInv /\ LifecycleInv

-----------------------------------------------------------------------------
(* The keys are the categories and the threshold. *)
LEMMA KeysAreCategories ==
    /\ Keys = Categories \cup {0} /\ 0 \notin Categories /\ 1 \in Categories
    /\ Nothing \in [Keys -> Values \cup {""}]
BY NumCategoriesAssumption DEF Keys, Categories, Nothing

(* The values of a record after a save, and of a limit after a restore.     *)
LEMMA CategoriesOfTyped ==
    ASSUME NEW S, NEW f \in [Keys -> S], NEW g \in [Keys -> S]
    PROVE  /\ CategoriesOf(f, g) \in [Keys -> S]
           /\ \A k \in Categories : CategoriesOf(f, g)[k] = f[k]
           /\ CategoriesOf(f, g)[0] = g[0]
<1>1. \A k \in Keys : (IF k \in Categories THEN f[k] ELSE g[k]) \in S
  OBVIOUS
<1>2. CategoriesOf(f, g) \in [Keys -> S]
  BY <1>1 DEF CategoriesOf
<1> QED
  BY <1>2, KeysAreCategories DEF CategoriesOf

LEMMA GivenBackTyped ==
    ASSUME TypeOK, NEW k \in Keys
    PROVE  /\ GivenBack(k) \in [Keys -> Values]
           /\ \A j \in Keys \ {k} : GivenBack(k)[j] = live[j]
           /\ \/ phyKnown /\ present /\ saved[k] # "" /\ GivenBack(k)[k] = saved[k]
              \/ ~(phyKnown /\ present /\ saved[k] # "") /\ GivenBack(k) = live
<1>1. CASE phyKnown /\ present /\ saved[k] # ""
  BY <1>1 DEF GivenBack, TypeOK
<1>2. CASE ~(phyKnown /\ present /\ saved[k] # "")
  BY <1>2 DEF GivenBack, TypeOK
<1> QED
  BY <1>1, <1>2

LEMMA TightenedTyped ==
    ASSUME TypeOK, NEW k \in Keys
    PROVE  [live EXCEPT ![k] = "tuned"] \in [Keys -> Values]
BY DEF TypeOK, Values

(* A loop stays among the categories. *)
LEMMA LoopTyped ==
    ASSUME TypeOK, NEW s \in Steps, Loop(s)
    PROVE  pc' \in Steps /\ idx' \in Categories
<1>1. idx \in 1..NumCategories /\ pc \in Steps
  BY DEF TypeOK, Categories
<1>2. idx' \in 1..NumCategories
  BY <1>1, NumCategoriesAssumption DEF Loop
<1> QED
  BY <1>1, <1>2 DEF Loop, Goto, Categories

(* The variables keep their types. *)
LEMMA NextTyped ==
    ASSUME TypeOK, [Next]_vars
    PROVE  TypeOK'
<1> USE KeysAreCategories
        DEF Goto, control, disk, machine, lifecycle, Files, Steps
<1>1. ASSUME Look \/ ReadThreshold
      PROVE  TypeOK'
  <2>1. CategoriesOf(live, Nothing) \in [Keys -> Values \cup {""}]
    <3>1. live \in [Keys -> Values \cup {""}]
      BY DEF TypeOK
    <3> QED
      BY <3>1, CategoriesOfTyped
  <2>2. [seen EXCEPT ![0] = live[0]] \in [Keys -> Values \cup {""}]
    BY DEF TypeOK
  <2> QED
    BY <1>1, <2>1, <2>2 DEF Look, ReadThreshold, TypeOK
<1>2. ASSUME CreateLimits \/ WriteLimits \/ RemoveLimits
      PROVE  TypeOK'
  <2>1. /\ CategoriesOf(Nothing, saved) \in [Keys -> Values \cup {""}]
        /\ CategoriesOf(seen, saved) \in [Keys -> Values \cup {""}]
    BY CategoriesOfTyped DEF TypeOK
  <2> QED
    BY <1>2, <2>1 DEF CreateLimits, WriteLimits, RemoveLimits, TypeOK
<1>3. ASSUME Tighten \/ TightenThreshold
      PROVE  TypeOK'
  <2>1. /\ [live EXCEPT ![idx] = "tuned"] \in [Keys -> Values]
        /\ [live EXCEPT ![0] = "tuned"] \in [Keys -> Values]
    BY TightenedTyped DEF TypeOK
  <2>2. live' \in [Keys -> Values]
    BY <1>3, <2>1 DEF Tighten, TightenThreshold, TypeOK
  <2>3. CASE Tighten
    BY <2>2, <2>3, LoopTyped DEF Tighten, TypeOK
  <2>4. CASE TightenThreshold
    BY <2>2, <2>4 DEF TightenThreshold, TypeOK
  <2> QED
    BY <1>3, <2>3, <2>4
<1>4. ASSUME RestoreLimit \/ RestoreThreshold
      PROVE  TypeOK'
  <2>1. /\ GivenBack(idx) \in [Keys -> Values]
        /\ GivenBack(0) \in [Keys -> Values]
    BY GivenBackTyped DEF TypeOK
  <2>2. live' \in [Keys -> Values]
    BY <1>4, <2>1 DEF RestoreLimit, RestoreThreshold, TypeOK
  <2>3. CASE RestoreLimit
    BY <2>2, <2>3, LoopTyped DEF RestoreLimit, TypeOK
  <2>4. CASE RestoreThreshold
    BY <2>2, <2>4 DEF RestoreThreshold, TypeOK
  <2> QED
    BY <1>4, <2>3, <2>4
<1>5. CASE Start \/ DaemonStart \/ Applied \/ Stop \/ LookPhy \/ Reverted \/ Clean
  BY <1>5 DEF Start, DaemonStart, Applied, Stop, LookPhy, Reverted, Clean, TypeOK
<1>6. CASE CreatePhy \/ WritePhy \/ RemovePhy \/ Purge
  BY <1>6 DEF CreatePhy, WritePhy, RemovePhy, Purge, TypeOK
<1>7. CASE CreateThreshold \/ WriteThreshold \/ RemoveThreshold
  BY <1>7 DEF CreateThreshold, WriteThreshold, RemoveThreshold, TypeOK
<1>8. CASE Kill
  BY <1>8 DEF Kill, TypeOK
<1>9. CASE Reboot
  BY <1>9 DEF Reboot, TypeOK, Values, Pristine
<1>10. CASE UNCHANGED vars
  BY <1>10 DEF vars, TypeOK
<1> QED
  BY <1>1, <1>2, <1>3, <1>4, <1>5, <1>6, <1>7, <1>8, <1>9, <1>10
  DEF Next, Apply, Revert

(* TypeOK holds in every behaviour, also if apply() may be cut short.       *)
THEOREM TypeCorrect == Spec => []TypeOK
<1>1. Init => TypeOK
  BY KeysAreCategories DEF Init, TypeOK, Steps, Pristine, Values
<1>2. TypeOK /\ [Next]_vars => TypeOK'
  BY NextTyped
<1> QED
  BY <1>1, <1>2, PTL DEF Spec

-----------------------------------------------------------------------------
(* The steps that copy values, and what they do to the invariant.           *)
LEMMA CategoriesOfValues ==
    ASSUME NEW f, NEW g
    PROVE  /\ \A k \in Categories : CategoriesOf(f, g)[k] = f[k]
           /\ CategoriesOf(f, g)[0] = g[0]
BY KeysAreCategories DEF CategoriesOf

LEMMA CategoriesOfCases ==
    ASSUME NEW f, NEW g, NEW k \in Keys
    PROVE  \/ k \in Categories /\ CategoriesOf(f, g)[k] = f[k]
           \/ k \notin Categories /\ CategoriesOf(f, g)[k] = g[k]
BY DEF CategoriesOf

LEMMA ExceptCases ==
    ASSUME NEW S, NEW f \in [Keys -> S], NEW j \in Keys, NEW v, NEW k \in Keys
    PROVE  [f EXCEPT ![j] = v][k] = IF k = j THEN v ELSE f[k]
OBVIOUS

LEMMA NothingValues == \A k \in Keys : Nothing[k] = ""
BY DEF Nothing

(* What is not tuned is worth saving. *)
LEMMA UntunedIsPristine ==
    ASSUME TypeOK, NEW k \in Keys, live[k] # "tuned"
    PROVE  live[k] \in Pristine
BY DEF TypeOK, Values

(* What apply() is about to save is not tuned. *)
LEMMA LookSaving ==
    ASSUME IInv, Look
    PROVE  SavingInv'
<1>1. CASE pc' = "create"
  <2>1. /\ files' = files /\ live' = live /\ present' = present
        /\ seen' = CategoriesOf(live, Nothing)
    BY <1>1 DEF Look, Goto, disk, machine
  <2>2. pc = "look" /\ present /\ "aql_saved_limits" \notin files
    BY <1>1 DEF Look, Goto
  <2>3. files = {}
    BY <2>2 DEF IInv, LifecycleInv, Complete
  <2>4. Untuned(Keys)
    BY <2>3 DEF IInv, RecordInv, Untuned
  <2>5. \A k \in Categories : seen'[k] = live'[k]
    BY <2>1, CategoriesOfValues
  <2>6. Untuned(Keys)' /\ files' = {}
    BY <2>1, <2>3, <2>4 DEF Untuned
  <2> QED
    BY <1>1, <2>1, <2>2, <2>5, <2>6 DEF SavingInv, Saving
<1>2. CASE pc' # "create"
  BY <1>2 DEF Look, Goto, SavingInv, Saving
<1> QED
  BY <1>1, <1>2

LEMMA ReadThresholdSaving ==
    ASSUME IInv, ReadThreshold
    PROVE  SavingInv'
<1>1. /\ files' = files /\ live' = live /\ present' = present /\ threshold' = threshold
      /\ pc = "threshold"
  BY DEF ReadThreshold, disk, machine
<1>2. files = {"aql_saved_limits", "aql_phy"} /\ present /\ Untuned(Keys)
  BY <1>1 DEF IInv, SavingInv, Saving
<1>3. Untuned(Keys)'
  BY <1>1, <1>2 DEF Untuned
<1>4. CASE threshold
  <2>1. seen'[0] = live[0] /\ pc' = "create_threshold"
    BY <1>4, KeysAreCategories DEF ReadThreshold, Goto, IInv, TypeOK
  <2> QED
    BY <1>1, <1>2, <1>3, <1>4, <2>1 DEF SavingInv, Saving
<1>5. CASE ~threshold
  BY <1>5 DEF ReadThreshold, Goto, SavingInv, Saving
<1> QED
  BY <1>4, <1>5

(* What a file gets when it is written is the value that was read. *)
LEMMA WriteLimitsRecord ==
    ASSUME IInv, WriteLimits
    PROVE  RecordInv'
<1>1. /\ pc = "write" /\ pc' = "create_phy"
      /\ files' = files /\ live' = live /\ present' = present /\ phyKnown' = phyKnown
      /\ saved' = CategoriesOf(seen, saved)
  BY DEF WriteLimits, Goto, machine
<1>2. /\ files = {"aql_saved_limits"} /\ Untuned(Keys)
      /\ \A k \in Categories : seen[k] = live[k]
  BY <1>1 DEF IInv, SavingInv, Saving
<1>3. \A k \in Categories : saved'[k] \in Pristine
  <2> SUFFICES ASSUME NEW k \in Categories
               PROVE  saved'[k] \in Pristine
    OBVIOUS
  <2>1. k \in Keys /\ live[k] # "tuned"
    BY <1>2, KeysAreCategories DEF Untuned
  <2>2. saved'[k] = live[k]
    BY <1>1, <1>2, CategoriesOfValues
  <2> QED
    BY <2>1, <2>2, UntunedIsPristine DEF IInv
<1>4. saved'[0] = ""
  BY <1>1, <1>2, CategoriesOfValues, KeysAreCategories DEF IInv, RecordInv, FileOf
<1> QED
  BY <1>1, <1>2, <1>3, <1>4, KeysAreCategories DEF RecordInv, FileOf, Untuned, Pristine

LEMMA WriteThresholdRecord ==
    ASSUME IInv, WriteThreshold
    PROVE  RecordInv'
<1>1. /\ pc = "write_threshold" /\ pc' = "tighten"
      /\ files' = files /\ live' = live /\ present' = present /\ phyKnown' = phyKnown
      /\ saved' = [saved EXCEPT ![0] = seen[0]]
  BY DEF WriteThreshold, Goto, machine
<1>2. files = Files /\ Untuned(Keys) /\ seen[0] = live[0]
  BY <1>1 DEF IInv, SavingInv, Saving
<1>3. saved'[0] \in Pristine
  BY <1>1, <1>2, UntunedIsPristine, KeysAreCategories DEF IInv, TypeOK, Untuned
<1>4. \A k \in Categories : saved'[k] = saved[k]
  BY <1>1, KeysAreCategories DEF IInv, TypeOK
<1>5. \A k \in Keys : FileOf(k) \in files
  BY <1>2 DEF FileOf, Files
<1> QED
  BY <1>1, <1>2, <1>3, <1>4, <1>5, KeysAreCategories
  DEF IInv, RecordInv, Untuned, Pristine

(* A record goes only after all its limits are back. *)
LEMMA RemoveLimitsRecord ==
    ASSUME IInv, RemoveLimits
    PROVE  RecordInv'
<1>1. /\ pc = "remove" /\ pc' = "restore_threshold"
      /\ files' = files \ {"aql_saved_limits"} /\ live' = live /\ present' = present
      /\ phyKnown' = phyKnown /\ saved' = CategoriesOf(Nothing, saved)
  BY DEF RemoveLimits, Goto, machine
<1>2. \A k \in Categories : live[k] # "tuned" /\ saved'[k] = ""
  <2> SUFFICES ASSUME NEW k \in Categories
               PROVE  live[k] # "tuned" /\ saved'[k] = ""
    OBVIOUS
  <2>1. live[k] # "tuned"
    BY <1>1 DEF IInv, RevertInv, Untuned
  <2>2. saved'[k] = Nothing[k]
    BY <1>1, CategoriesOfValues
  <2> QED
    BY <2>1, <2>2, NothingValues, KeysAreCategories
<1>3. saved'[0] = saved[0]
  BY <1>1, CategoriesOfValues
<1> QED
  BY <1>1, <1>2, <1>3, KeysAreCategories DEF IInv, RecordInv, FileOf

(* A value that is given back is not a tuned one. *)
LEMMA GivenBackIsUntuned ==
    ASSUME TypeOK, RecordInv, NEW k \in Keys,
           pc \notin {"write", "write_threshold", "write_phy", "create_phy"},
           files # {} => "aql_phy" \in files
    PROVE  GivenBack(k)[k] # "tuned"
<1>1. CASE live[k] = "tuned"
  <2>1. FileOf(k) \in files /\ present
    BY <1>1 DEF RecordInv
  <2>2. phyKnown
    BY <2>1 DEF RecordInv
  <2>3. saved[k] \in Pristine
    BY <2>1, KeysAreCategories DEF RecordInv, FileOf
  <2> QED
    BY <2>1, <2>2, <2>3, GivenBackTyped DEF Pristine
<1>2. CASE live[k] # "tuned"
  <2>1. saved[k] # "tuned"
    <3>1. CASE FileOf(k) \in files
      BY <3>1, KeysAreCategories DEF RecordInv, FileOf, Pristine
    <3>2. CASE FileOf(k) \notin files
      BY <3>2 DEF RecordInv
    <3> QED
      BY <3>1, <3>2
  <2> QED
    BY <1>2, <2>1, GivenBackTyped
<1> QED
  BY <1>1, <1>2

(* The loop of revert() leaves no tuned limit behind it. *)
LEMMA RestoreLimitKeeps ==
    ASSUME IInv, RestoreLimit
    PROVE  RecordInv' /\ RevertInv'
<1>1. /\ pc = "restore" /\ live' = GivenBack(idx) /\ Loop("remove") /\ idx \in Keys
      /\ files' = files /\ saved' = saved /\ phyKnown' = phyKnown /\ present' = present
  BY KeysAreCategories DEF RestoreLimit, disk, IInv, TypeOK
<1>2. live'[idx] # "tuned"
  BY <1>1, GivenBackIsUntuned DEF IInv, RevertInv
<1>3. \A k \in Keys \ {idx} : live'[k] = live[k]
  BY <1>1, GivenBackTyped DEF IInv
<1>4. RecordInv'
  <2>1. /\ pc' \notin {"write", "write_threshold", "write_phy"}
        /\ pc \notin {"write", "write_threshold", "write_phy"}
    BY <1>1 DEF Loop, Goto
  <2> QED
    BY <1>1, <1>2, <1>3, <2>1 DEF IInv, RecordInv
<1>5. RevertInv'
  <2>1. \A k \in Categories : k < idx => live[k] # "tuned"
    BY <1>1 DEF IInv, RevertInv
  <2>2. idx \in 1..NumCategories
    BY DEF IInv, TypeOK, Categories
  <2>3. \A k \in Categories : k <= idx => live'[k] # "tuned"
    <3> SUFFICES ASSUME NEW k \in Categories, k <= idx
                 PROVE  live'[k] # "tuned"
      OBVIOUS
    <3>1. CASE k = idx
      BY <1>2, <3>1
    <3>2. CASE k # idx
      <4>1. k < idx
        BY <2>2, <3>2, NumCategoriesAssumption DEF Categories
      <4> QED
        BY <1>3, <2>1, <3>2, <4>1, KeysAreCategories
    <3> QED
      BY <3>1, <3>2
  <2>4. {"aql_saved_limits", "aql_phy"} \subseteq files'
    BY <1>1 DEF IInv, RevertInv
  <2>5. CASE idx < NumCategories
    <3>1. pc' = "restore" /\ idx' = idx + 1
      BY <1>1, <2>5 DEF Loop, Goto
    <3>2. \A k \in Categories : k < idx' => live'[k] # "tuned"
      BY <2>2, <2>3, <3>1, NumCategoriesAssumption DEF Categories
    <3> QED
      BY <2>4, <3>1, <3>2 DEF RevertInv
  <2>6. CASE ~(idx < NumCategories)
    <3>1. pc' = "remove"
      BY <1>1, <2>6 DEF Loop, Goto
    <3>2. Untuned(Categories)'
      BY <2>2, <2>3, <2>6, NumCategoriesAssumption DEF Categories, Untuned
    <3> QED
      BY <2>4, <3>1, <3>2 DEF RevertInv
  <2> QED
    BY <2>5, <2>6
<1> QED
  BY <1>4, <1>5

(* The threshold goes back if it was saved, and was not tuned if it was not. *)
LEMMA RestoreThresholdKeeps ==
    ASSUME IInv, RestoreThreshold
    PROVE  RecordInv' /\ RevertInv'
<1>1. /\ pc = "restore_threshold" /\ files' = files /\ saved' = saved
      /\ phyKnown' = phyKnown /\ present' = present
      /\ "aql_saved_limits" \notin files /\ "aql_phy" \in files
  BY DEF RestoreThreshold, disk, IInv, RevertInv
<1>2. CASE "aql_saved_threshold" \in files
  <2>1. live' = GivenBack(0) /\ pc' = "remove_threshold" /\ 0 \in Keys
    BY <1>2, KeysAreCategories DEF RestoreThreshold, Goto
  <2>2. live'[0] # "tuned"
    BY <1>1, <2>1, GivenBackIsUntuned DEF IInv
  <2>3. \A k \in Keys \ {0} : live'[k] = live[k]
    BY <2>1, GivenBackTyped DEF IInv
  <2> QED
    BY <1>1, <1>2, <2>1, <2>2, <2>3 DEF IInv, RecordInv, RevertInv, Untuned
<1>3. CASE "aql_saved_threshold" \notin files
  <2>1. live' = live /\ pc' = "remove_phy"
    BY <1>3 DEF RestoreThreshold, Goto
  <2>2. files = {"aql_phy"}
    BY <1>1, <1>3 DEF IInv, TypeOK, Files
  <2> QED
    BY <1>1, <2>1, <2>2 DEF IInv, RecordInv, RevertInv
<1> QED
  BY <1>2, <1>3

(* aql_phy is the last file to go, and revert() starts by looking for it. *)
LEMMA RemoveThresholdReverts ==
    ASSUME IInv, RemoveThreshold
    PROVE  RevertInv'
<1>1. pc' = "remove_phy" /\ files' = files \ {"aql_saved_threshold"}
  BY DEF RemoveThreshold, Goto
<1>2. files' = {"aql_phy"}
  BY <1>1 DEF RemoveThreshold, IInv, TypeOK, RevertInv, Files
<1> QED
  BY <1>1, <1>2 DEF RevertInv

LEMMA LookPhyReverts ==
    ASSUME IInv, LookPhy
    PROVE  RevertInv'
<1>1. /\ pc = "phy" /\ idx' = 1 /\ files' = files
      /\ files # {} => "aql_phy" \in files
      /\ pc' = IF "aql_phy" \notin files THEN "reverted"
               ELSE IF "aql_saved_limits" \in files THEN "restore" ELSE "restore_threshold"
  BY DEF LookPhy, Goto, disk, IInv, LifecycleInv
<1>2. \A k \in Categories : ~(k < 1)
  BY NumCategoriesAssumption DEF Categories
<1>3. pc' = "reverted" => files' = {}
  BY <1>1
<1>4. pc' = "restore" => {"aql_saved_limits", "aql_phy"} \subseteq files'
  BY <1>1
<1>5. pc' = "restore_threshold" => "aql_saved_limits" \notin files' /\ "aql_phy" \in files'
  BY <1>1
<1>6. pc' \in {"reverted", "restore", "restore_threshold"}
  BY <1>1
<1> QED
  BY <1>1, <1>2, <1>3, <1>4, <1>5, <1>6 DEF RevertInv

-----------------------------------------------------------------------------
(* The inductive invariant. *)
LEMMA InitInvariant ==
    ASSUME Init
    PROVE  IInv
<1>1. TypeOK
  BY KeysAreCategories DEF Init, TypeOK, Steps, Pristine, Values
<1> QED
  BY <1>1
  DEF Init, IInv, RecordInv, SavingInv, TighteningInv, RevertInv, LifecycleInv, Saving,
      Nothing, Pristine, Complete

(* Every step preserves it, unless saving is cut short. *)
LEMMA NextInvariant ==
    ASSUME IInv, ~SaveCut, [Next]_vars
    PROVE  IInv'
<1> USE NumCategoriesAssumption
        DEF Goto, control, disk, machine, lifecycle, IInv, RecordInv, SavingInv,
            TighteningInv, RevertInv, LifecycleInv, TypeOK, Pristine, Saving, Complete,
            Untuned, FileOf, Files, Keys, Categories, Steps
<1>0. TypeOK'
  BY NextTyped
<1>1. CASE Start
  BY <1>0, <1>1 DEF Start
<1>2. CASE DaemonStart
  BY <1>0, <1>2 DEF DaemonStart
<1>3. CASE Look
  <2>1. RecordInv'
    BY <1>3 DEF Look, CategoriesOf, Nothing
  <2>2. SavingInv'
    BY ONLY IInv, <1>3, LookSaving
  <2>3. TighteningInv'
    BY <1>3 DEF Look, CategoriesOf, Nothing
  <2>4. RevertInv'
    BY <1>3 DEF Look, CategoriesOf, Nothing
  <2>5. LifecycleInv'
    BY <1>3 DEF Look, CategoriesOf, Nothing
  <2> QED
    BY <1>0, <2>1, <2>2, <2>3, <2>4, <2>5 DEF IInv
<1>4. CASE CreateLimits
  BY <1>0, <1>4 DEF CreateLimits, CategoriesOf, Nothing
<1>5. CASE WriteLimits
  <2>1. RecordInv'
    BY ONLY IInv, <1>5, WriteLimitsRecord
  <2>2. SavingInv'
    BY <1>5 DEF WriteLimits, CategoriesOf, Nothing
  <2>3. TighteningInv'
    BY <1>5 DEF WriteLimits, CategoriesOf, Nothing
  <2>4. RevertInv'
    BY <1>5 DEF WriteLimits, CategoriesOf, Nothing
  <2>5. LifecycleInv'
    BY <1>5 DEF WriteLimits, CategoriesOf, Nothing
  <2> QED
    BY <1>0, <2>1, <2>2, <2>3, <2>4, <2>5 DEF IInv
<1>6. CASE CreatePhy
  BY <1>0, <1>6 DEF CreatePhy
<1>7. CASE WritePhy
  BY <1>0, <1>7 DEF WritePhy
<1>8. CASE ReadThreshold
  <2>1. RecordInv'
    BY <1>8 DEF ReadThreshold
  <2>2. SavingInv'
    BY ONLY IInv, <1>8, ReadThresholdSaving
  <2>3. TighteningInv'
    BY <1>8 DEF ReadThreshold
  <2>4. RevertInv'
    BY <1>8 DEF ReadThreshold
  <2>5. LifecycleInv'
    BY <1>8 DEF ReadThreshold
  <2> QED
    BY <1>0, <2>1, <2>2, <2>3, <2>4, <2>5 DEF IInv
<1>9. CASE CreateThreshold
  <2>1. RecordInv'
    BY <1>9 DEF CreateThreshold
  <2>2. SavingInv'
    BY <1>9 DEF CreateThreshold
  <2>3. TighteningInv'
    BY <1>9 DEF CreateThreshold
  <2>4. RevertInv'
    BY <1>9 DEF CreateThreshold
  <2>5. LifecycleInv'
    BY <1>9 DEF CreateThreshold
  <2> QED
    BY <1>0, <2>1, <2>2, <2>3, <2>4, <2>5 DEF IInv
<1>10. CASE WriteThreshold
  <2>1. RecordInv'
    BY ONLY IInv, <1>10, WriteThresholdRecord
  <2>2. SavingInv'
    BY <1>10 DEF WriteThreshold
  <2>3. TighteningInv'
    BY <1>10 DEF WriteThreshold
  <2>4. RevertInv'
    BY <1>10 DEF WriteThreshold
  <2>5. LifecycleInv'
    BY <1>10 DEF WriteThreshold
  <2> QED
    BY <1>0, <2>1, <2>2, <2>3, <2>4, <2>5 DEF IInv
<1>11. CASE Tighten
  <2>1. RecordInv'
    BY <1>11 DEF Tighten, Loop, Values
  <2>2. SavingInv'
    BY <1>11 DEF Tighten, Loop, Values
  <2>3. TighteningInv'
    BY <1>11 DEF Tighten, Loop, Values
  <2>4. RevertInv'
    BY <1>11 DEF Tighten, Loop, Values
  <2>5. LifecycleInv'
    BY <1>11 DEF Tighten, Loop, Values
  <2> QED
    BY <1>0, <2>1, <2>2, <2>3, <2>4, <2>5 DEF IInv
<1>12. CASE TightenThreshold
  BY <1>0, <1>12 DEF TightenThreshold
<1>13. CASE Applied
  BY <1>0, <1>13 DEF Applied
<1>14. CASE Stop
  BY <1>0, <1>14 DEF Stop
<1>15. CASE LookPhy
  <2>1. RecordInv'
    BY <1>15 DEF LookPhy
  <2>2. SavingInv'
    BY <1>15 DEF LookPhy
  <2>3. TighteningInv'
    BY <1>15 DEF LookPhy
  <2>4. RevertInv'
    BY ONLY IInv, <1>15, LookPhyReverts
  <2>5. LifecycleInv'
    BY <1>15 DEF LookPhy
  <2> QED
    BY <1>0, <2>1, <2>2, <2>3, <2>4, <2>5 DEF IInv
<1>16. CASE RestoreLimit
  <2>1. RecordInv'
    BY ONLY IInv, <1>16, RestoreLimitKeeps
  <2>2. SavingInv'
    BY <1>16, GivenBackTyped DEF RestoreLimit, Loop, Values
  <2>3. TighteningInv'
    BY <1>16, GivenBackTyped DEF RestoreLimit, Loop, Values
  <2>4. RevertInv'
    BY ONLY IInv, <1>16, RestoreLimitKeeps
  <2>5. LifecycleInv'
    BY <1>16, GivenBackTyped DEF RestoreLimit, Loop, Values
  <2> QED
    BY <1>0, <2>1, <2>2, <2>3, <2>4, <2>5 DEF IInv
<1>17. CASE RemoveLimits
  <2>1. RecordInv'
    BY ONLY IInv, <1>17, RemoveLimitsRecord
  <2>2. SavingInv'
    BY <1>17 DEF RemoveLimits, CategoriesOf, Nothing
  <2>3. TighteningInv'
    BY <1>17 DEF RemoveLimits, CategoriesOf, Nothing
  <2>4. RevertInv'
    BY <1>17 DEF RemoveLimits, CategoriesOf, Nothing
  <2>5. LifecycleInv'
    BY <1>17 DEF RemoveLimits, CategoriesOf, Nothing
  <2> QED
    BY <1>0, <2>1, <2>2, <2>3, <2>4, <2>5 DEF IInv
<1>18. CASE RestoreThreshold
  <2>1. RecordInv'
    BY ONLY IInv, <1>18, RestoreThresholdKeeps
  <2>2. SavingInv'
    BY <1>18, GivenBackTyped DEF RestoreThreshold
  <2>3. TighteningInv'
    BY <1>18, GivenBackTyped DEF RestoreThreshold
  <2>4. RevertInv'
    BY ONLY IInv, <1>18, RestoreThresholdKeeps
  <2>5. LifecycleInv'
    BY <1>18, GivenBackTyped DEF RestoreThreshold
  <2> QED
    BY <1>0, <2>1, <2>2, <2>3, <2>4, <2>5 DEF IInv
<1>19. CASE RemoveThreshold
  <2>1. RecordInv'
    BY <1>19 DEF RemoveThreshold
  <2>2. SavingInv'
    BY <1>19 DEF RemoveThreshold
  <2>3. TighteningInv'
    BY <1>19 DEF RemoveThreshold
  <2>4. RevertInv'
    BY ONLY IInv, <1>19, RemoveThresholdReverts
  <2>5. LifecycleInv'
    BY <1>19 DEF RemoveThreshold
  <2> QED
    BY <1>0, <2>1, <2>2, <2>3, <2>4, <2>5 DEF IInv
<1>20. CASE RemovePhy
  BY <1>0, <1>20 DEF RemovePhy
<1>21. CASE Reverted
  BY <1>0, <1>21 DEF Reverted
<1>22. CASE Clean
  BY <1>0, <1>22 DEF Clean
<1>23. CASE Purge
  BY <1>0, <1>23 DEF Purge, Nothing
<1>24. CASE Kill
  <2>1. RecordInv'
    BY <1>24 DEF Kill, Nothing
  <2>2. SavingInv'
    BY <1>24 DEF Kill, Nothing
  <2>3. TighteningInv'
    BY <1>24 DEF Kill, Nothing
  <2>4. RevertInv'
    BY <1>24 DEF Kill, Nothing
  <2>5. LifecycleInv'
    BY <1>24 DEF Kill, Nothing
  <2> QED
    BY <1>0, <2>1, <2>2, <2>3, <2>4, <2>5 DEF IInv
<1>25. CASE Reboot
  <2>1. RecordInv'
    BY <1>25 DEF Reboot
  <2>2. SavingInv'
    BY <1>25 DEF Reboot
  <2>3. TighteningInv'
    BY <1>25 DEF Reboot
  <2>4. RevertInv'
    BY <1>25 DEF Reboot
  <2>5. LifecycleInv'
    BY <1>25 DEF Reboot
  <2> QED
    BY <1>0, <2>1, <2>2, <2>3, <2>4, <2>5 DEF IInv
<1>26. CASE UNCHANGED vars
  <2>1. RecordInv'
    BY <1>26 DEF vars
  <2>2. SavingInv'
    BY <1>26 DEF vars
  <2>3. TighteningInv'
    BY <1>26 DEF vars
  <2>4. RevertInv'
    BY <1>26 DEF vars
  <2>5. LifecycleInv'
    BY <1>26 DEF vars
  <2> QED
    BY <1>0, <2>1, <2>2, <2>3, <2>4, <2>5 DEF IInv
<1> QED
  BY <1>1, <1>2, <1>3, <1>4, <1>5, <1>6, <1>7, <1>8, <1>9, <1>10, <1>11, <1>12, <1>13,
     <1>14, <1>15, <1>16, <1>17, <1>18, <1>19, <1>20, <1>21, <1>22, <1>23, <1>24, <1>25,
     <1>26
  DEF Next, Apply, Revert

(* IInv holds in every reachable state as long as no save is cut short.    *)
THEOREM WifiInvariant ==
    ASSUME ~SaveCut
    PROVE  Spec => []IInv
<1>1. Init => IInv
  BY InitInvariant
<1>2. IInv /\ [Next]_vars => IInv'
  BY NextInvariant
<1> QED
  BY <1>1, <1>2, PTL DEF Spec

(* When revert() is through, no limit and no threshold is betterconn's:     *)
(* whatever was killed before, and however often the daemon applied again.  *)
THEOREM RevertRestoresLimits ==
    ASSUME ~SaveCut
    PROVE  Spec => []LimitsRestored
<1>1. IInv => LimitsRestored
  BY DEF IInv, RecordInv, RevertInv, LimitsRestored
<1> QED
  BY <1>1, WifiInvariant, PTL

-----------------------------------------------------------------------------
(* The limits and their record are the settings of Baseline.                *)
BaselineStep == [B!Record \/ B!Change]_<<live, saved>>

(* What a step must do to be one of Baseline's. *)
LEMMA RecordStep ==
    ASSUME IInv, TypeOK', UNCHANGED live,
           \A k \in Keys : \/ saved'[k] = saved[k]
                           \/ live[k] # "tuned" /\ saved'[k] \in {live[k], ""},
           \A k \in Keys : saved'[k] # "tuned"
    PROVE  BaselineStep
<1>1. saved' \in [Keys -> Pristine \cup {""}]
  BY DEF TypeOK, Values
<1> QED
  BY <1>1 DEF BaselineStep, B!Record

LEMMA ChangeStep ==
    ASSUME TypeOK', UNCHANGED saved,
           \A k \in Keys : \/ live'[k] = live[k]
                           \/ live'[k] = "tuned" /\ saved[k] \in Pristine
                           \/ live'[k] = saved[k]
                           \/ live'[k] = "driver"
    PROVE  BaselineStep
<1>1. live' \in [Keys -> Values]
  BY DEF TypeOK
<1> QED
  BY <1>1 DEF BaselineStep, B!Change, B!Values, Values


(* Every step of apply(), of revert() and of the machine is one of them, or *)
(* leaves the limits and their record alone.                                *)
LEMMA NextKeepsContract ==
    ASSUME IInv, ~SaveCut, [Next]_vars
    PROVE  BaselineStep
<1>1. TypeOK' /\ IInv'
  BY NextInvariant DEF IInv
<1>2. \A k \in Keys : saved'[k] # "tuned"
  BY <1>1 DEF IInv, RecordInv
<1>3. CASE CreateLimits
  <2>1. UNCHANGED live /\ saved' = CategoriesOf(Nothing, saved) /\ Untuned(Keys)
    BY <1>3 DEF CreateLimits, machine, IInv, SavingInv, Saving
  <2>2. \A k \in Keys : saved'[k] \in {saved[k], ""}
    BY <2>1, CategoriesOfCases, NothingValues
  <2> QED
    BY <1>1, <1>2, <2>1, <2>2, RecordStep DEF Untuned
<1>4. CASE WriteLimits
  <2>1. UNCHANGED live /\ saved' = CategoriesOf(seen, saved) /\ Untuned(Keys)
    BY <1>4 DEF WriteLimits, machine, IInv, SavingInv, Saving
  <2>2. \A k \in Categories : seen[k] = live[k]
    BY <1>4 DEF WriteLimits, IInv, SavingInv
  <2>3. \A k \in Keys : saved'[k] \in {saved[k], live[k]}
    BY <2>1, <2>2, CategoriesOfCases
  <2> QED
    BY <1>1, <1>2, <2>1, <2>3, RecordStep DEF Untuned
<1>5. CASE CreateThreshold \/ WriteThreshold
  <2>1. UNCHANGED live /\ Untuned(Keys)
    BY <1>5 DEF CreateThreshold, WriteThreshold, machine, IInv, SavingInv, Saving
  <2>2. \A k \in Keys : saved'[k] \in {saved[k], live[k], ""}
    BY <1>5, KeysAreCategories
    DEF CreateThreshold, WriteThreshold, IInv, TypeOK, SavingInv
  <2> QED
    BY <1>1, <1>2, <2>1, <2>2, RecordStep DEF Untuned
<1>6. CASE Tighten
  <2>1. UNCHANGED saved /\ idx \in Categories
    BY <1>6 DEF Tighten, disk, IInv, TypeOK
  <2>2. saved[idx] \in Pristine
    BY <1>6, <2>1 DEF Tighten, IInv, TighteningInv, RecordInv, Complete
  <2>3. live \in [Keys -> Values] /\ live' \in {live, [live EXCEPT ![idx] = "tuned"]}
    BY <1>6 DEF Tighten, IInv, TypeOK
  <2>4. \A k \in Keys : live'[k] = live[k] \/ (k = idx /\ live'[k] = "tuned")
    BY <2>1, <2>3, ExceptCases, KeysAreCategories
  <2> QED
    BY <1>1, <2>1, <2>2, <2>4, ChangeStep
<1>7. CASE TightenThreshold
  <2>1. UNCHANGED saved
    BY <1>7 DEF TightenThreshold, disk
  <2>2. threshold => saved[0] \in Pristine
    BY <1>7 DEF TightenThreshold, IInv, TighteningInv, RecordInv, Complete
  <2>3. \A k \in Keys : live'[k] = live[k] \/ (threshold /\ k = 0 /\ live'[k] = "tuned")
    <3>1. live \in [Keys -> Values] /\ 0 \in Keys
      BY KeysAreCategories DEF IInv, TypeOK
    <3>2. CASE live' = live
      BY <3>2
    <3>3. CASE live' # live
      <4>1. threshold /\ live' = [live EXCEPT ![0] = "tuned"]
        BY <1>7, <3>3 DEF TightenThreshold
      <4> QED
        BY <3>1, <4>1, ExceptCases
    <3> QED
      BY <3>2, <3>3
  <2> QED
    BY <1>1, <2>1, <2>2, <2>3, ChangeStep
<1>8. CASE RestoreLimit \/ RestoreThreshold
  <2>1. UNCHANGED saved /\ idx \in Keys /\ 0 \in Keys
    BY <1>8, KeysAreCategories DEF RestoreLimit, RestoreThreshold, disk, IInv, TypeOK
  <2>2. live' \in {live, GivenBack(idx), GivenBack(0)}
    BY <1>8 DEF RestoreLimit, RestoreThreshold
  <2>3. \A k \in Keys : live'[k] \in {live[k], saved[k]}
    BY <2>1, <2>2, GivenBackTyped DEF IInv
  <2> QED
    BY <1>1, <2>1, <2>3, ChangeStep
<1>9. CASE RemoveLimits
  <2>1. UNCHANGED live /\ saved' = CategoriesOf(Nothing, saved) /\ Untuned(Categories)
    BY <1>9 DEF RemoveLimits, machine, IInv, RevertInv
  <2>2. \A k \in Keys : saved'[k] = saved[k] \/ (k \in Categories /\ saved'[k] = "")
    <3> SUFFICES ASSUME NEW k \in Keys
                 PROVE  saved'[k] = saved[k] \/ (k \in Categories /\ saved'[k] = "")
      OBVIOUS
    <3> QED
      BY <2>1, CategoriesOfCases, NothingValues
  <2> QED
    BY <1>1, <1>2, <2>1, <2>2, RecordStep DEF Untuned
<1>10. CASE RemoveThreshold
  <2>1. UNCHANGED live /\ live[0] # "tuned"
    BY <1>10 DEF RemoveThreshold, machine, IInv, RevertInv, Untuned
  <2>2. \A k \in Keys : saved'[k] = saved[k] \/ (k = 0 /\ saved'[k] = "")
    <3>1. /\ saved \in [Keys -> Values \cup {""}] /\ 0 \in Keys
          /\ saved' = [saved EXCEPT ![0] = ""]
      BY <1>10, KeysAreCategories DEF RemoveThreshold, IInv, TypeOK
    <3> QED
      BY <3>1, ExceptCases
  <2> QED
    BY <1>1, <1>2, <2>1, <2>2, RecordStep
<1>11. CASE Purge
  <2>1. UNCHANGED live /\ files = {} /\ saved' = Nothing
    BY <1>11 DEF Purge, machine, IInv, RevertInv
  <2>2. \A k \in Keys : live[k] # "tuned" /\ saved'[k] = ""
    BY <2>1, NothingValues DEF IInv, RecordInv
  <2> QED
    BY <1>1, <1>2, <2>1, <2>2, RecordStep
<1>12. CASE Reboot
  BY <1>1, <1>12, ChangeStep DEF Reboot, disk
<1>13. CASE UNCHANGED <<live, saved>>
  BY <1>13 DEF BaselineStep
<1>14. CASE \/ Start \/ DaemonStart \/ Look \/ CreatePhy \/ WritePhy \/ ReadThreshold
            \/ Applied
  BY <1>13, <1>14
  DEF Start, DaemonStart, Look, CreatePhy, WritePhy, ReadThreshold, Applied, disk, machine
<1>15. CASE Stop \/ LookPhy \/ RemovePhy \/ Reverted \/ Clean \/ Kill \/ UNCHANGED vars
  BY <1>13, <1>15
  DEF Stop, LookPhy, RemovePhy, Reverted, Clean, Kill, vars, disk, machine
<1> QED
  BY <1>3, <1>4, <1>5, <1>6, <1>7, <1>8, <1>9, <1>10, <1>11, <1>12, <1>14, <1>15
  DEF Next, Apply, Revert

(* WifiAirtime implements Baseline: a limit is tightened only while its own *)
(* value is on record, and no restart of the daemon or start after an       *)
(* interrupted stop takes a tightened one for the driver's.                 *)
THEOREM LimitsKeepContract ==
    ASSUME ~SaveCut
    PROVE  Spec => BaselineContract
<1>1. Init => B!Init
  BY DEF Init, B!Init, Nothing
<1>2. IInv /\ [Next]_vars => BaselineStep
  BY NextKeepsContract
<1> QED
  BY <1>1, <1>2, WifiInvariant, PTL DEF Spec, BaselineContract, B!Spec, BaselineStep

BP == INSTANCE BaselineProofs WITH record <- saved, Stock <- "driver"

(* What revert() leaves is what the limits were before, b, or the driver's.  *)
OwnAgain(b) == pc = "reverted" => \A k \in Keys : live[k] \in {b[k], "driver"}

(* However often the daemon has applied and stop was cut short: a limit or    *)
(* threshold that was someone's own before the first start is that again, or *)
(* the driver's after a boot, and never one that was read in between.        *)
THEOREM RevertReturnsOwnLimits ==
    ASSUME ~SaveCut, NEW CONSTANT Before \in [Keys -> Pristine]
    PROVE  live = Before /\ Spec => []OwnAgain(Before)
<1>1. BP!ProperValues
  BY DEF BP!ProperValues, Pristine
<1>2. live = Before /\ BP!Spec => []BP!OwnValues(Before)
  BY <1>1, BP!ContractInventsNothing
<1>3. BaselineContract => BP!Spec
  BY PTL
  DEF BaselineContract, B!Spec, BP!Spec, B!Init, BP!Init, B!Record, BP!Record,
      B!Change, BP!Change, B!Values, BP!Values
<1>4. BP!OwnValues(Before) /\ LimitsRestored => OwnAgain(Before)
  BY DEF BP!OwnValues, LimitsRestored, OwnAgain
<1> QED
  BY <1>2, <1>3, <1>4, LimitsKeepContract, RevertRestoresLimits, PTL
=============================================================================
