---------------------------- MODULE MCMaintenance ----------------------------
(***************************************************************************)
(* What goes on around an installed stack, for model checking: upgrades    *)
(* and scheduled backups.  They share neither a variable nor a file; the   *)
(* run follows one of the two at a time.                                   *)
(***************************************************************************)
EXTENDS UpgradeExecutor, BackupSchedules

VARIABLE part

maintenanceVars == <<part, vars, scheduleVars>>

MaintenanceInit ==
  /\ part \in {"upgrades", "schedules"}
  /\ Init /\ SchedulesInit

MaintenanceNext ==
  \/ part = "upgrades" /\ Next /\ UNCHANGED <<part, scheduleVars>>
  \/ part = "schedules" /\ SchedulesNext /\ UNCHANGED <<part, vars>>

(* The fairness of each, while it is the one that is followed.             *)
MaintenanceFairness ==
  /\ \A u \in Upgrades : WF_vars(part = "upgrades" /\ Timeouts(u))
  /\ WF_scheduleVars(part = "schedules" /\ Loop)
  /\ \A i \in Installs : WF_scheduleVars(part = "schedules" /\ Fires(i))

MaintenanceSpec ==
  MaintenanceInit /\ [][MaintenanceNext]_maintenanceVars /\ MaintenanceFairness
=============================================================================
