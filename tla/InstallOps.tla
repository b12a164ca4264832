------------------------------ MODULE InstallOps ------------------------------
(***************************************************************************)
(* The requests that act on an installed stack beside its install task:    *)
(* control (stop, clean, smoke), rollback, uninstall and backup restore    *)
(* (backend/main.py, uninstall.py, backup.py), composed with the lifecycle *)
(* of the same install.                                                    *)
(*                                                                         *)
(* Each is a coroutine of its request: it checks the record and            *)
(* _INSTALL_TASKS, awaits a docker command, and only then changes the      *)
(* record.  It is not entered in _INSTALL_TASKS, so whatever is decided    *)
(* while it awaits cannot see it.                                          *)
(***************************************************************************)
EXTENDS InstallLifecycle

CONSTANT MaxOps    \* bound: requests that await at the same time

ASSUME OpsAssumption == MaxOps \in Nat

Ops == 1..MaxOps

(* control clean and rollback are one: ./udp clean, then CLEANED. *)
Guarded == {"stop", "clean", "uninstall", "restore"}
Commands == Guarded \cup {"smoke"}

VARIABLE op        \* [Ops -> the request's command while it awaits, or "idle"]

opsVars == <<lifeVars, op>>

OpsInit == Init /\ op = [o \in Ops |-> "idle"]

-----------------------------------------------------------------------------
(* What a request checks before it awaits; smoke is let through always.    *)
MayOperate(command) ==
  /\ server = "up" /\ LoopFree /\ rec # NoRecord
  /\ command \in Guarded =>
       /\ rec.state \notin RUNNING_STATES
       /\ registered # 0 => ~Live(registered)

(* run_command brackets its command with _step_start and _step_end for the *)
(* step of the same name; of these commands only smoke is also a step of   *)
(* the record.                                                             *)
Begin(o, command) ==
  /\ op[o] = "idle" /\ MayOperate(command)
  /\ op' = [op EXCEPT ![o] = command]
  /\ Save(IF command = "smoke" THEN WithStep(Smoke, "running") ELSE rec)
  /\ UNCHANGED <<taskVars, hostVars>>

Finished(o, command) ==
  /\ server = "up" /\ LoopFree /\ op[o] = command
  /\ op' = [op EXCEPT ![o] = "idle"]
  /\ UNCHANGED <<taskVars, hostVars>>

(* A forced change of the record; the request fails when the write raises. *)
Forced(r) == SaveNow(r) \/ SaveRaises(r)

(* The command exits with 0 or not; only 0 changes the state. *)
FinishStop(o) ==
  /\ Finished(o, "stop")
  /\ Forced(WithState("STOPPED")) \/ UNCHANGED storeVars

(* Mutant: CLEANED is persisted like an ordinary state. *)
FinishClean_Debounced(o) ==
  /\ Finished(o, "clean")
  /\ Save(WithState("CLEANED")) \/ UNCHANGED storeVars

FinishClean(o) ==
  /\ Finished(o, "clean")
  /\ Forced(WithState("CLEANED")) \/ UNCHANGED storeVars

FinishSmoke(o) ==
  /\ Finished(o, "smoke")
  /\ \E verdict \in {"success", "failed"} : Save(WithStep(Smoke, verdict))

(* Whatever became of docker and of the directory, the record is deleted;  *)
(* when the write raises, the file keeps it.                               *)
FinishUninstall(o) ==
  /\ Finished(o, "uninstall")
  /\ Forced(NoRecord)

(* The state is looked at again after the awaits: an idle install becomes  *)
(* READY, any other keeps its state; a failing restore changes nothing.    *)
FinishRestore(o) ==
  /\ Finished(o, "restore")
  /\ \/ rec.state \in {"CLEANED", "STOPPED"} /\ Forced(WithState("READY"))
     \/ UNCHANGED storeVars

Operate ==
  \E o \in Ops :
    \/ \E command \in Commands : Begin(o, command)
    \/ FinishStop(o) \/ FinishClean(o) \/ FinishSmoke(o)
    \/ FinishUninstall(o) \/ FinishRestore(o)

(* The shutdown hook starts when the open requests are answered; requests  *)
(* that await are gone with the server.                                    *)
Lifecycle ==
  /\ Next
  /\ server' = "stopping" /\ server = "up" => \A o \in Ops : op[o] = "idle"
  /\ op' = IF server' = "down" THEN [o \in Ops |-> "idle"] ELSE op

OpsNext == Lifecycle \/ Operate

OpsSpec == OpsInit /\ [][OpsNext]_opsVars

-----------------------------------------------------------------------------
(* Properties *)

(* Every variable stays in its domain. *)
OpsTypeOK == TypeOK /\ op \in [Ops -> Commands \cup {"idle"}]

(* An install that was uninstalled is gone for good: neither a run that    *)
(* was resumed while the uninstall awaited docker, nor another request,    *)
(* nor the timer thread, nor a restart brings a record of it back.         *)
UninstalledStaysGone ==
  [][ rec = NoRecord /\ disk = NoRecord /\ (\E t \in Tasks : pc[t] # "unused")
        => rec' = NoRecord /\ disk' = NoRecord ]_opsVars

(* A run that is still to begin, or that only awaits its last notification, *)
(* finds the record idle, also when a request changed it meanwhile.         *)
IdleAtTheEnds ==
  \A t \in Tasks :
    pc[t] \in {"created", "notifyReady", "notifyCrash"} => rec.state \notin RUNNING_STATES

(* What survives of LifeInv beside such requests: they may delete or stop   *)
(* the record under a run that was resumed while they awaited docker, so    *)
(* what LifeInv says of the steps of a run is lost.                         *)
SharedInv ==
  /\ TypeOK
  /\ OneDriver
  /\ InFlightHasDriver
  /\ OutcomeSurvivesRestart
  /\ DeadServerHasNoTask
  /\ IdleAtTheEnds

(* The inductive invariant behind the safety properties of this module. *)
OpsInv == OpsTypeOK /\ SharedInv

(* main.py on rollback: "Block rollback while an install/retry/skip task   *)
(* is in-flight - running `docker compose down` mid-install races the      *)
(* orchestrator".                                                          *)
RollbackExcludesRun ==
  \A o \in Ops : op[o] = "clean" =>
    \A t \in Tasks : pc[t] # "child" \/ child[t] # "running"
=============================================================================
