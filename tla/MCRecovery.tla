------------------------------ MODULE MCRecovery ------------------------------
(***************************************************************************)
(* Lifecycle on a machine whose interruptions eventually cease, for the    *)
(* question whether stop gets the machine back in the end.                 *)
(***************************************************************************)
EXTENDS Lifecycle

VARIABLE calm  \* no command is killed and no reboot happens from now on

CalmInit == Init /\ calm = FALSE

BecomeCalm ==
    /\ ~calm
    /\ calm' = TRUE
    /\ UNCHANGED vars

CalmNext ==
    \/ Working /\ UNCHANGED calm
    \/ ~calm /\ Interruption /\ UNCHANGED calm
    \/ BecomeCalm

Answer(p) == Abort(p) \/ ConfirmStart(p) \/ ConfirmStop(p)

(* Interruptions cease; a command that runs takes its steps, a daemon told  *)
(* to end does so, a prompt is answered; a user who can run stop again and  *)
(* again does so in the end and does not answer no for ever.                *)
RecoverySpec ==
    /\ CalmInit
    /\ [][CalmNext]_<<vars, calm>>
    /\ WF_<<vars, calm>>(BecomeCalm)
    /\ WF_vars(DaemonExit)
    /\ \A p \in Procs :
         /\ WF_vars(ProgramStep(p) \/ Answer(p))
         /\ SF_vars(InvokeStop(p))
         /\ SF_vars(ConfirmStop(p))

(* However often start and stop are interrupted, nobody is left with an     *)
(* active betterconn that stop cannot undo: in the end it is not active,    *)
(* nothing is tuned, no rule is in force and nothing comes back at boot.    *)
EventuallyGivenBack ==
    IsActive ~> /\ ~IsActive /\ NothingTuned /\ rules = {}
                /\ ~PersistencePresent /\ ~enabled
=============================================================================
