---------------------------- MODULE BaselineProofs ----------------------------
(* What the contract of Baseline is good for. *)
EXTENDS Baseline, TLAPS

TypeOK ==
    /\ live \in [Keys -> Values]
    /\ record \in [Keys -> Pristine \cup {""}]

(* Whoever keeps the contract never has a tuned setting without a value to  *)
(* restore it to, which is what stop needs to give the machine back         *)
(* (optimizer.cpp:575): Lifecycle for its sysctls, WifiAirtime for its      *)
(* limits.                                                                  *)
THEOREM ContractKeepsRecords ==
    ASSUME ProperValues
    PROVE  Spec => []TunedIsRecorded
<1> DEFINE Inv == TypeOK /\ TunedIsRecorded
<1>1. Init => Inv
  BY DEF Init, TypeOK, TunedIsRecorded, Values, ProperValues
<1>2. Inv /\ [Record \/ Change]_<<live, record>> => Inv'
  <2> SUFFICES ASSUME Inv, [Record \/ Change]_<<live, record>>
               PROVE  Inv'
    OBVIOUS
  <2>1. CASE Record
    BY <2>1 DEF Record, TypeOK, TunedIsRecorded
  <2>2. CASE Change
    <3>1. TypeOK'
      BY <2>2 DEF Change, TypeOK
    <3>2. ASSUME NEW k \in Keys, live'[k] = "tuned"
          PROVE  record'[k] \in Pristine
      BY <2>2, <3>2 DEF Change, TypeOK, TunedIsRecorded, ProperValues
    <3> QED
      BY <3>1, <3>2 DEF TunedIsRecorded
  <2>3. CASE UNCHANGED <<live, record>>
    BY <2>3 DEF TypeOK, TunedIsRecorded
  <2> QED
    BY <2>1, <2>2, <2>3
<1>3. Inv => TunedIsRecorded
  OBVIOUS
<1> QED
  BY <1>1, <1>2, <1>3, PTL DEF Spec

(* A setting holds what it held before betterconn, what the machine boots   *)
(* with or betterconn's own value, and what is on record is one of the      *)
(* first two: b is the machine before.                                      *)
OwnValues(b) ==
    \A k \in Keys : /\ live[k] \in {b[k], Stock, "tuned"}
                    /\ record[k] \in {b[k], Stock, ""}

(* However often settings are recorded, tuned and given back, no value drifts *)
(* in that the machine has not had on its own.                              *)
THEOREM ContractInventsNothing ==
    ASSUME ProperValues, NEW CONSTANT Before \in [Keys -> Pristine]
    PROVE  live = Before /\ Spec => []OwnValues(Before)
<1> DEFINE Inv == TypeOK /\ OwnValues(Before)
<1>1. live = Before /\ Init => Inv
  BY DEF Init, TypeOK, OwnValues, Values
<1>2. Inv /\ [Record \/ Change]_<<live, record>> => Inv'
  <2> SUFFICES ASSUME Inv, [Record \/ Change]_<<live, record>>
               PROVE  Inv'
    OBVIOUS
  <2>1. CASE Record
    BY <2>1 DEF Record, TypeOK, OwnValues, Values
  <2>2. CASE Change
    <3>1. TypeOK'
      BY <2>2 DEF Change, TypeOK
    <3>2. ASSUME NEW k \in Keys
          PROVE  live'[k] \in {Before[k], Stock, "tuned"} /\ record'[k] = record[k]
      BY <2>2, <3>1 DEF Change, TypeOK, OwnValues, Values, ProperValues
    <3> QED
      BY <3>1, <3>2 DEF OwnValues
  <2>3. CASE UNCHANGED <<live, record>>
    BY <2>3 DEF TypeOK, OwnValues
  <2> QED
    BY <2>1, <2>2, <2>3
<1>3. Inv => OwnValues(Before)
  OBVIOUS
<1> QED
  BY <1>1, <1>2, <1>3, PTL DEF Spec
=============================================================================
