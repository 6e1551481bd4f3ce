------------------------------- MODULE Baseline -------------------------------
(***************************************************************************)
(* What betterconn promises about every setting it takes over: a setting   *)
(* is tuned only while its previous value is on record, a record is made   *)
(* of an untouched setting, and it is forgotten only when the setting is   *)
(* untouched again.  How records are kept and who tunes is left open.      *)
(***************************************************************************)
CONSTANTS
    Keys,      \* the settings
    Pristine,  \* the values a setting has without betterconn
    Stock      \* the one of them the machine boots with

Values == Pristine \cup {"tuned"}

(* What the values have to be for the contract to mean anything. *)
ProperValues ==
    Stock \in Pristine /\ "tuned" \notin Pristine /\ "" \notin Pristine

VARIABLES
    live,   \* live[k]: the value in force
    record  \* record[k]: the value on record, "" for none

Init ==
    /\ live \in [Keys -> Pristine]
    /\ record = [k \in Keys |-> ""]

(* Mutant: the record of a tuned setting is rewritten too. *)
Record_Mutant ==
    /\ record' \in [Keys -> Pristine \cup {""}]
    /\ \A k \in Keys : record'[k] \in {record[k], live[k], ""}
    /\ UNCHANGED live

(* Records of untouched settings are taken or dropped. *)
Record ==
    /\ record' \in [Keys -> Pristine \cup {""}]
    /\ \A k \in Keys :
         \/ record'[k] = record[k]
         \/ live[k] # "tuned" /\ record'[k] \in {live[k], ""}
    /\ UNCHANGED live

(* Any settings may go back to their recorded value or to the machine's    *)
(* own, but only a recorded one may be tuned.                              *)
Change ==
    /\ live' \in [Keys -> Values]
    /\ \A k \in Keys :
         \/ live'[k] = live[k]
         \/ live'[k] = "tuned" /\ record[k] \in Pristine
         \/ live'[k] = record[k]
         \/ live'[k] = Stock
    /\ UNCHANGED record

Spec == Init /\ [][Record \/ Change]_<<live, record>>

-----------------------------------------------------------------------------
(* No tuned setting is ever without a record to restore it from, which is   *)
(* what stop needs to give the machine back (optimizer.cpp:575).            *)
TunedIsRecorded == \A k \in Keys : live[k] = "tuned" => record[k] \in Pristine
=============================================================================
