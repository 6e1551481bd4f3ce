-------------------------------- MODULE Daemon --------------------------------
(* What the commands that tune and restore the machine take the daemon for   *)
(* (Lifecycle's DaemonTune, DaemonExit and DaemonCrash): a process that       *)
(* rewrites sysctls and the link's qdisc for as long as it is up, and that,   *)
(* once asked to end, ends with no write of its own left half done.           *)
CONSTANT Writers     \* the threads that write

VARIABLES
    service,   \* "up", "ended" of its own accord, or "killed"
    asked,     \* it has been sent SIGTERM
    writing,   \* the threads that are in the middle of their writes
    settings   \* what the kernel holds

vars == <<service, asked, writing, settings>>

Init == service = "ended" /\ ~asked /\ writing = {}

Begins ==
    /\ service # "up" /\ service' = "up"
    /\ UNCHANGED <<asked, writing, settings>>

IsAsked ==
    /\ service = "up" /\ asked'
    /\ UNCHANGED <<service, writing, settings>>

Writes ==
    /\ service = "up" /\ writing' \subseteq Writers
    /\ UNCHANGED <<service, asked>>

Ends ==
    /\ service = "up" /\ asked /\ writing = {}
    /\ service' = "ended" /\ ~asked'
    /\ UNCHANGED <<writing, settings>>

Dies ==
    /\ service = "up"
    /\ service' = "killed" /\ ~asked' /\ writing' = {}
    /\ UNCHANGED settings

Next == Begins \/ IsAsked \/ Writes \/ Ends \/ Dies

Spec == Init /\ [][Next]_vars
=============================================================================
