--------------------------- MODULE UpgradeExecutor ---------------------------
(***************************************************************************)
(* backend/upgrade_executor.py and its route: upgrades of one install.     *)
(*                                                                         *)
(* An upgrade is the coroutine of its request.  It awaits the registry     *)
(* probes of the simulation, docker compose down, one docker pull per      *)
(* component, docker compose up with an overlay of image tags, a pause     *)
(* and the smoke script; a failure from compose down on is rolled back     *)
(* with compose down, restore_backup and compose up of the base file.      *)
(* What lies between two awaits is one action.  An upgrade is not entered  *)
(* in _INSTALL_TASKS: install tasks, control requests, other upgrades and  *)
(* the deletion of its backup are accepted while it awaits.                *)
(*                                                                         *)
(* containers is what docker runs for the install: nothing, the images of  *)
(* the base compose file, or those of the overlay an upgrade wrote.        *)
(***************************************************************************)
EXTENDS Naturals

CONSTANTS
  MaxUpgrades, \* bound: upgrades requested; an execution's id is its number
  Images,      \* number of proposed components
  MaxFaults    \* bound: losses of the process and file operations that fail

ASSUME UpgradeAssumption ==
  /\ MaxUpgrades \in Nat
  /\ Images \in Nat \ {0}
  /\ MaxFaults \in Nat

Upgrades == 1..MaxUpgrades

(* Nothing reads which of the six states on its way an execution is in, so *)
(* they are one here.                                                      *)
Finished == {"success", "failed", "rolled_back"}
UpgradeStates == {"unfinished"} \cup Finished

(* docker runs nothing, the base images, or those of an upgrade's overlay. *)
Down == 0
Base == MaxUpgrades + 1
NoOverlay == 0
Running == 0..(MaxUpgrades + 1)

(* Where the coroutine is suspended. *)
Awaiting == {"preflight", "simulate", "down", "pull", "up", "settle", "smoke",
             "rollback_down", "rollback_up"}
Docker == Awaiting \ {"preflight", "simulate", "settle"}

(* What becomes of a write of the file: the replacement is refused five    *)
(* times and given up without an error, or something else raises.          *)
Outcomes == {"written", "given up", "raised"}

(* rollback: every step of the rollback passed so far. *)
Record == [state: UpgradeStates, rollback: BOOLEAN]
NoRecord == [state |-> "none", rollback |-> TRUE]

VARIABLES
  pc,          \* [Upgrades -> Awaiting \cup {"idle", "done", "lost"}]
  pulled,      \* [Upgrades -> images pulled]
  exec,        \* _EXECUTIONS
  file,        \* upgrade_executions.json
  timer,       \* _EXEC_FLUSH_TIMER is armed; _EXEC_DIRTY then holds, and is
               \* only read when it expires
  containers,
  overlay,     \* whose docker-compose.upgrade.yml is in install_dir
  backup,      \* the backup the upgrades name still exists
  task,        \* an install task is registered and live
  server, faults,
  before,      \* history: containers when the upgrade was accepted
  alone,       \* history: nothing else acted since
  missed,      \* history: upgrades whose last forced write, and every later
               \* write, changed no file
  stuck        \* history: the overlay could not be removed when it should

executorVars == <<pc, pulled, exec, file, timer, missed>>
stackVars == <<containers, overlay, stuck>>
historyVars == <<before, alone>>
vars == <<executorVars, stackVars, backup, task, server, faults, historyVars>>

Active(u) == pc[u] \in Awaiting

UpgradeTypeOK ==
  /\ pc \in [Upgrades -> Awaiting \cup {"idle", "done", "lost"}]
  /\ pulled \in [Upgrades -> 0..Images]
  /\ exec \in [Upgrades -> Record \cup {NoRecord}]
  /\ file \in [Upgrades -> Record \cup {NoRecord}]
  /\ timer \in BOOLEAN
  /\ containers \in Running
  /\ overlay \in Upgrades \cup {NoOverlay}
  /\ backup \in BOOLEAN
  /\ task \in BOOLEAN
  /\ server \in {"up", "down"}
  /\ faults \in 0..MaxFaults
  /\ before \in [Upgrades -> Running]
  /\ alone \in [Upgrades -> BOOLEAN]
  /\ missed \subseteq Upgrades /\ stuck \in BOOLEAN
  /\ \A u \in Upgrades : Active(u) => server = "up" /\ exec[u].state \in UpgradeStates

Init ==
  /\ pc = [u \in Upgrades |-> "idle"]
  /\ pulled = [u \in Upgrades |-> 0]
  /\ exec = [u \in Upgrades |-> NoRecord]
  /\ file = [u \in Upgrades |-> NoRecord]
  /\ timer = FALSE /\ missed = {} /\ stuck = FALSE
  /\ containers = Base /\ overlay = NoOverlay
  /\ backup = TRUE /\ task = FALSE
  /\ server = "up" /\ faults = 0
  /\ before = [u \in Upgrades |-> Base]
  /\ alone = [u \in Upgrades |-> TRUE]

-----------------------------------------------------------------------------
(* One more file operation failed, or none. *)
Refuse(failed) ==
  IF failed THEN faults < MaxFaults /\ faults' = faults + 1 ELSE faults' = faults

(* _save: debounced, or at once with every other record. *)
Debounce(u, record) ==
  /\ exec' = [exec EXCEPT ![u] = record]
  /\ timer' = TRUE
  /\ UNCHANGED <<file, missed>>

Save(u, record) == Debounce(u, record) /\ Refuse(FALSE)

(* _write_exec_now_locked.  A write that was given up clears _EXEC_DIRTY,   *)
(* one that raised does not; neither is tried again before the next save.  *)
WriteFile(outcome) ==
  /\ file' = IF outcome = "written" THEN exec' ELSE file
  /\ Refuse(outcome # "written")

(* The timer is cancelled before the write is tried. *)
SaveNow(u, record, outcome) ==
  /\ exec' = [exec EXCEPT ![u] = record]
  /\ timer' = FALSE /\ WriteFile(outcome)
  /\ missed' = IF outcome = "written" THEN {} ELSE missed \cup {u}

At(u, state) == [exec[u] EXCEPT !.state = state]

Goto(u, where) == pc' = [pc EXCEPT ![u] = where]

(* A write that raises is logged, and no timer is left behind. *)
FlushTimer ==
  /\ server = "up" /\ timer /\ timer' = FALSE
  /\ exec' = exec
  /\ \E outcome \in Outcomes :
       /\ WriteFile(outcome)
       /\ missed' = IF outcome = "written" THEN {} ELSE missed
  /\ UNCHANGED <<pc, pulled, stackVars, backup, task, server, historyVars>>

(* What an upgrade's own step leaves alone; its history ends with it. *)
KeepRest ==
  /\ before' = [u \in Upgrades |-> IF pc'[u] \in Awaiting THEN before[u] ELSE Base]
  /\ alone' = [u \in Upgrades |-> IF pc'[u] \in Awaiting THEN alone[u] ELSE TRUE]
  /\ UNCHANGED <<backup, task, server>>

-----------------------------------------------------------------------------
(* The route, up to the look-up of the backup.  A save that raises ends     *)
(* the request, and leaves an execution nobody drives.                     *)
Gate == ~task
Begun == [state |-> "unfinished", rollback |-> TRUE]

Request(u) ==
  /\ server = "up" /\ pc[u] = "idle" /\ Gate
  /\ \A v \in 1..(u - 1) : pc[v] # "idle"
  /\ \E outcome \in Outcomes :
       /\ SaveNow(u, Begun, outcome)
       /\ Goto(u, IF outcome = "raised" THEN "done" ELSE "preflight")
  /\ before' = [before EXCEPT ![u] = IF pc'[u] = "done" THEN Base ELSE containers]
  /\ alone' = [v \in Upgrades |->
       IF pc'[u] = "done" THEN alone[v]
       ELSE IF v = u THEN \A w \in Upgrades : ~Active(w)
       ELSE ~Active(v)]
  /\ UNCHANGED <<pulled, stackVars, backup, task, server>>

(* execute_upgrade asks for the backup and looks at the install again. *)
PreflightRefuses(u) ==
  /\ pc[u] = "preflight" /\ (~backup \/ task)
  /\ \E outcome \in Outcomes : SaveNow(u, At(u, "failed"), outcome)
  /\ Goto(u, "done")
  /\ UNCHANGED <<pulled, stackVars>> /\ KeepRest

PreflightPasses(u) ==
  /\ pc[u] = "preflight" /\ backup /\ ~task
  /\ Save(u, exec[u])
  /\ Goto(u, "simulate")
  /\ UNCHANGED <<pulled, stackVars>> /\ KeepRest

SimulateRefuses(u) ==
  /\ pc[u] = "simulate"
  /\ \E outcome \in Outcomes : SaveNow(u, At(u, "failed"), outcome)
  /\ Goto(u, "done")
  /\ UNCHANGED <<pulled, stackVars>> /\ KeepRest

(* backup_verified and compose_down are set in the same slice. *)
SimulatePasses(u) ==
  /\ pc[u] = "simulate"
  /\ Save(u, exec[u])
  /\ Goto(u, "down")
  /\ UNCHANGED <<pulled, stackVars>> /\ KeepRest

-----------------------------------------------------------------------------
(* The awaited command succeeded; what it did to the containers. *)
DownReturns(u) ==
  /\ pc[u] = "down"
  /\ containers' = Down
  /\ Save(u, exec[u]) /\ Goto(u, "pull")
  /\ UNCHANGED <<pulled, overlay, stuck>> /\ KeepRest

PullReturns(u) ==
  /\ pc[u] = "pull"
  /\ IF pulled[u] + 1 < Images
     THEN /\ pulled' = [pulled EXCEPT ![u] = @ + 1]
          /\ Save(u, exec[u])
          /\ UNCHANGED <<pc, overlay, stuck>>
     ELSE /\ pulled' = [pulled EXCEPT ![u] = 0]
          /\ Save(u, exec[u]) /\ Goto(u, "up")
          /\ overlay' = u /\ stuck' = FALSE
  /\ UNCHANGED containers /\ KeepRest

(* compose up reads the overlay that is there, an other upgrade's included; *)
(* without one (an other upgrade's rollback removed it) it fails.           *)
UpReturns(u) ==
  /\ pc[u] = "up" /\ overlay # NoOverlay
  /\ containers' = overlay
  /\ Save(u, exec[u]) /\ Goto(u, "settle")
  /\ UNCHANGED <<pulled, overlay, stuck>> /\ KeepRest

Settled(u) ==
  /\ pc[u] = "settle"
  /\ Save(u, exec[u]) /\ Goto(u, "smoke")
  /\ UNCHANGED <<pulled, stackVars>> /\ KeepRest

(* Mutant: success is saved like an ordinary step. *)
SmokeReturns_Debounced(u) ==
  /\ pc[u] = "smoke"
  /\ Save(u, At(u, "success")) /\ Goto(u, "done")
  /\ UNCHANGED <<pulled, stackVars>> /\ KeepRest

SmokeReturns(u) ==
  /\ pc[u] = "smoke"
  /\ \E outcome \in Outcomes \ {"raised"} : SaveNow(u, At(u, "success"), outcome)
  /\ Goto(u, "done")
  /\ UNCHANGED <<pulled, stackVars>> /\ KeepRest

(* The save of the success raised: the pipeline's own except clause rolls   *)
(* back an upgrade that reads "success" until the rollback is over.        *)
SuccessRaises(u) ==
  /\ pc[u] = "smoke"
  /\ Debounce(u, At(u, "success")) /\ Refuse(TRUE)
  /\ Goto(u, "rollback_down")
  /\ UNCHANGED <<pulled, stackVars>> /\ KeepRest

(* What a compose command that failed or was killed half way may leave. *)
Partially(u) ==
  CASE pc[u] \in {"down", "rollback_down"} -> {containers, Down}
    [] pc[u] = "up" -> {containers, Down} \cup ({overlay} \ {NoOverlay})
    [] pc[u] = "rollback_up" -> {containers, Base, Down}
    [] OTHER -> {containers}

(* A command of the pipeline failed: the exception starts the rollback, up *)
(* to its compose down.                                                    *)
StartRollback(u) ==
  /\ pc[u] \in {"down", "pull", "up", "smoke"}
  /\ containers' \in Partially(u)
  /\ pulled' = [pulled EXCEPT ![u] = 0]
  /\ Save(u, exec[u]) /\ Goto(u, "rollback_down")
  /\ UNCHANGED <<overlay, stuck>> /\ KeepRest

(* The smoke script is missing. *)
NoSmokeScript(u) ==
  /\ pc[u] = "settle"
  /\ Save(u, exec[u]) /\ Goto(u, "rollback_down")
  /\ UNCHANGED <<pulled, stackVars>> /\ KeepRest

RolledBack(u, clean) ==
  /\ \E outcome \in Outcomes :
       SaveNow(u, [state |-> "rolled_back", rollback |-> clean], outcome)
  /\ Goto(u, "done")

(* Mutant: nothing removes the overlay. *)
RestoreAndUp_KeepsOverlay(u, down, restored, removed) ==
  IF ~backup
  THEN RolledBack(u, FALSE) /\ UNCHANGED <<overlay, stuck>>
  ELSE /\ removed
       /\ Save(u, [exec[u] EXCEPT !.rollback = down /\ restored])
       /\ Goto(u, "rollback_up")
       /\ UNCHANGED <<overlay, stuck>>

(* After compose down, whatever it returned: restore_backup does not       *)
(* suspend without data to restore.  It raises when the backup is gone,    *)
(* and the rollback then ends without compose up; a failure it reports     *)
(* itself is only recorded.  An overlay that cannot be removed stays, and  *)
(* nothing says so.                                                        *)
RestoreAndUp(u, down, restored, removed) ==
  IF ~backup
  THEN RolledBack(u, FALSE) /\ UNCHANGED <<overlay, stuck>>
  ELSE /\ removed \/ overlay # NoOverlay
       /\ Debounce(u, [exec[u] EXCEPT !.rollback = down /\ restored])
       /\ Goto(u, "rollback_up")
       /\ Refuse(~removed)
       /\ overlay' = IF removed THEN NoOverlay ELSE overlay
       /\ stuck' = ~removed

RollbackDownEnds(u, down) ==
  /\ pc[u] = "rollback_down"
  /\ IF down THEN containers' = Down ELSE containers' \in Partially(u)
  /\ \E restored, removed \in BOOLEAN : RestoreAndUp(u, down, restored, removed)
  /\ UNCHANGED pulled /\ KeepRest

RollbackUpEnds(u, up) ==
  /\ pc[u] = "rollback_up"
  /\ IF up THEN containers' = Base ELSE containers' \in Partially(u)
  /\ RolledBack(u, exec[u].rollback /\ up)
  /\ UNCHANGED <<pulled, overlay, stuck>> /\ KeepRest

(* Mutant: docker pull is awaited without a timeout. *)
Fails_PullHangs(u) ==
  \/ pc[u] # "pull" /\ StartRollback(u)
  \/ RollbackDownEnds(u, FALSE)
  \/ RollbackUpEnds(u, FALSE)

(* The command failed, or wait_for expired and it was killed: 124 is a     *)
(* return code like any other.                                             *)
Fails(u) ==
  \/ StartRollback(u)
  \/ RollbackDownEnds(u, FALSE)
  \/ RollbackUpEnds(u, FALSE)

Step(u) ==
  /\ server = "up"
  /\ \/ PreflightRefuses(u) \/ PreflightPasses(u)
     \/ SimulateRefuses(u) \/ SimulatePasses(u)
     \/ DownReturns(u) \/ PullReturns(u) \/ UpReturns(u)
     \/ Settled(u) \/ NoSmokeScript(u) \/ SmokeReturns(u) \/ SuccessRaises(u)
     \/ RollbackDownEnds(u, TRUE) \/ RollbackUpEnds(u, TRUE)

-----------------------------------------------------------------------------
(* Everything else that acts on the install.  An install task closes the   *)
(* gate while it is registered; control requests do not, and are one step. *)
Disturb == alone' = [u \in Upgrades |-> ~Active(u)]

BeginTask ==
  /\ server = "up" /\ ~task
  /\ task' = TRUE /\ Disturb
  /\ UNCHANGED <<executorVars, stackVars, backup, server, faults, before>>

EndTask ==
  /\ server = "up" /\ task
  /\ task' = FALSE /\ Disturb
  /\ containers' \in {containers, Base}
  /\ UNCHANGED <<executorVars, overlay, stuck, backup, server, faults, before>>

Control ==
  /\ server = "up" /\ ~task
  /\ containers' = Down /\ Disturb
  /\ UNCHANGED <<executorVars, overlay, stuck, backup, task, server, faults, before>>

(* delete_backup: the tarball and the sidecar, in one slice, unguarded. *)
DeleteBackup ==
  /\ server = "up" /\ backup
  /\ backup' = FALSE /\ Disturb
  /\ UNCHANGED <<executorVars, stackVars, task, server, faults, before>>

(* The process is lost, or the shutdown cancels its requests: CancelledError *)
(* is not an Exception, so nothing is rolled back and nothing is flushed.    *)
(* A docker command that was started may still finish.                       *)
Crash ==
  /\ server = "up" /\ faults < MaxFaults
  /\ server' = "down" /\ faults' = faults + 1
  /\ containers' \in {containers} \cup UNION {Partially(u) : u \in {v \in Upgrades : pc[v] \in Docker}}
  /\ pc' = [u \in Upgrades |-> IF Active(u) THEN "lost" ELSE pc[u]]
  /\ exec' = [u \in Upgrades |-> NoRecord]
  /\ task' = FALSE /\ timer' = FALSE /\ missed' = {}
  /\ pulled' = [u \in Upgrades |-> 0]
  /\ before' = [u \in Upgrades |-> Base] /\ alone' = [u \in Upgrades |-> TRUE]
  /\ UNCHANGED <<file, overlay, stuck, backup>>

(* _load_executions: records are taken as they are, finished or not. *)
Restart ==
  /\ server = "down"
  /\ server' = "up" /\ exec' = file
  /\ UNCHANGED <<pc, pulled, file, timer, missed, stackVars, backup, task, faults,
                 historyVars>>

Next ==
  \/ \E u \in Upgrades : Request(u) \/ Step(u) \/ (server = "up" /\ Fails(u))
  \/ FlushTimer
  \/ BeginTask \/ EndTask \/ Control \/ DeleteBackup \/ Crash \/ Restart

Spec == Init /\ [][Next]_vars

(* The event loop runs, so a wait_for expires; a simulation's probes and   *)
(* the pause end.  A docker command owes nothing.                          *)
Timeouts(u) ==
  /\ server = "up"
  /\ \/ Fails(u) \/ PreflightRefuses(u) \/ PreflightPasses(u)
     \/ SimulateRefuses(u) \/ Settled(u)

FairSpec == Spec /\ \A u \in Upgrades : WF_vars(Timeouts(u))

-----------------------------------------------------------------------------
(* An upgrade that is over and shown as finished is in the file as it is   *)
(* shown, so that whoever was told how it ended is told the same after a   *)
(* crash (the forced saves at every end of execute_upgrade), unless that   *)
(* save was given up or raised and no write has succeeded since.           *)
FinishedIsDurable ==
  \A u \in Upgrades \ missed :
    ~Active(u) /\ exec[u].state \in Finished => file[u] = exec[u]

(* An upgrade that nothing disturbs is all or nothing: refused, it left    *)
(* the containers alone; successful, its images run; rolled back without a *)
(* failed step, the base images run, and its overlay is gone unless its    *)
(* removal itself failed, which no step of the rollback records.           *)
LoneUpgradeIsAtomic ==
  [][\A u \in Upgrades :
       (Active(u) /\ pc'[u] = "done" /\ alone[u]) =>
         \/ exec'[u].state = "failed" /\ containers' = before[u]
         \/ exec'[u].state = "success" /\ containers' = u /\ overlay' = u
         \/ /\ exec'[u].state = "rolled_back"
            /\ exec'[u].rollback =>
                 /\ containers' = Base
                 /\ stuck' \/ overlay' = NoOverlay]_vars

(* The stack as an undisturbed upgrade finds it at each of its awaits: no  *)
(* other upgrade is under way, and containers and overlay are its own.     *)
LoneUpgradeFinds ==
  \A u \in Upgrades : Active(u) /\ alone[u] =>
    /\ \A v \in Upgrades : v # u => ~Active(v)
    /\ pc[u] \in {"preflight", "simulate"} => containers = before[u]
    /\ pc[u] \in {"up", "settle", "smoke"} => overlay = u
    /\ pc[u] \in {"settle", "smoke"} => containers = u
    /\ pc[u] = "rollback_up" => stuck \/ overlay = NoOverlay

(* The inductive invariant of this module.                                 *)
UpgradeInv ==
  /\ UpgradeTypeOK
  /\ FinishedIsDurable
  /\ LoneUpgradeFinds

(* The executions implement the map with whole-file snapshots: a save      *)
(* replaces one execution, in memory or in the file as well, and a start   *)
(* takes every execution from the file as it is, finished or not.          *)
ExecutionAsLoaded(d, v) == v = d

ExecutionMap == INSTANCE WriteBackStore WITH
  Keys <- Upgrades,
  Blank <- NoRecord,
  Repair <- ExecutionAsLoaded,
  volatile <- IF server = "up" THEN exec ELSE file,
  durable <- file

ExecutionsWriteBack == ExecutionMap!Spec

(* Every accepted upgrade ends, however long its commands hang, unless the *)
(* process is lost (the timeouts of _docker and _bash).                    *)
EveryUpgradeEnds ==
  \A u \in Upgrades : Active(u) ~> pc[u] \in {"done", "lost"}

(* _rollback's docstring: "Bring the stack back to the pre-upgrade state". *)
RollbackRestoresPreUpgrade ==
  [][\A u \in Upgrades :
       (/\ pc[u] = "rollback_up" /\ pc'[u] = "done"
        /\ alone[u] /\ exec'[u].rollback /\ before[u] # Down)
         => containers' = before[u]]_vars
=============================================================================
