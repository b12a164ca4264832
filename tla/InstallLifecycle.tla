--------------------------- MODULE InstallLifecycle ---------------------------
(***************************************************************************)
(* One install of a manifest stack, from its creation to its last retry:   *)
(* the asyncio task that drives UDPRunner.run (backend/runner.py), the     *)
(* routes that create, cancel, retry and skip it and the shutdown hook     *)
(* (backend/main.py), and the record they share, mirrored into             *)
(* installs.json by the store (backend/state.py; see StateStore).          *)
(*                                                                         *)
(* asyncio runs one coroutine at a time, up to its next await, so a task   *)
(* between two awaits excludes every other task and every handler          *)
(* (LoopFree).  What it does not exclude is the timer thread of the store, *)
(* the child process it spawned, and the loss of the server: those may     *)
(* come between any two of its steps, which is why its synchronous slices  *)
(* are cut at every change of the record.                                  *)
(***************************************************************************)
EXTENDS Naturals, Sequences, FiniteSets

CONSTANTS
  EntryState,      \* _PIPELINE: the state entered before each step, in order
  CommandSteps,    \* the steps that run a command and wait for it
  InProcessSteps,  \* the steps that can succeed without a command
  MaxTasks,        \* bound: tasks created for the install
  MaxRestarts,     \* bound: starts of the server after the first
  MaxFailures      \* bound: forced writes of installs.json that raise

RUNNING_STATES ==
  {"INSPECTING", "READY_TO_INSTALL", "CLONING_REPO", "WRITING_ENV",
   "RUNNING_DOCTOR", "STARTING_STACK", "BOOTSTRAPPING", "SMOKE_TESTING"}

TERMINAL_STATES == {"READY", "FAILED", "STOPPED", "CLEANED"}

States == RUNNING_STATES \cup TERMINAL_STATES \cup {"DRAFT"}

(* The pipeline ends with smoke and finalize, and only finalize is READY.  *)
Steps == 1..Len(EntryState)
Finalize == Len(EntryState)
Smoke == Finalize - 1

SKIPPABLE == {Smoke, Finalize}

ASSUME LifecycleAssumption ==
  /\ MaxTasks \in Nat /\ MaxRestarts \in Nat /\ MaxFailures \in Nat
  /\ EntryState \in Seq(States) /\ Len(EntryState) > 2
  /\ \A k \in Steps :
       IF k = Finalize THEN EntryState[k] = "READY" ELSE EntryState[k] \in RUNNING_STATES
  /\ CommandSteps \in SUBSET Steps /\ InProcessSteps \in SUBSET Steps

StepStatuses == {"pending", "running", "success", "failed", "skipped"}

Records == [state : States, steps : [Steps -> StepStatuses]]

NoRecord == [state |-> "none", steps |-> [k \in Steps |-> "pending"]]

Tasks == 1..MaxTasks

VARIABLES
  rec,         \* the install's record in memory, or NoRecord
  disk,        \* its entry in installs.json, or NoRecord
  pc,          \* [Tasks -> where the task's coroutine stands]
  idx,         \* [Tasks -> the pipeline step it is at]
  start,       \* [Tasks -> index of start_at; 0 when it names no step]
  cancelled,   \* [Tasks -> task.cancel() was called and is not delivered yet]
  child,       \* [Tasks -> its child process: "none", "running", "ok", "bad"]
  registered,  \* _INSTALL_TASKS[install_id]; 0 when there is no entry
  server,      \* "up", "stopping" (shutdown hook), "stopped" (after it), "down"
  restarts,    \* starts of the server after the first
  failures,    \* forced writes that raised so far
  missed       \* history: the latest forced write raised, and no write of
               \* the file has succeeded since

lifeVars == <<rec, disk, pc, idx, start, cancelled, child, registered,
              server, restarts, failures, missed>>
storeVars == <<rec, disk, failures, missed>>
taskVars == <<pc, idx, start, cancelled, child, registered>>
hostVars == <<server, restarts>>

(* Where a coroutine stands: not started ("created"), inside a slice that  *)
(* runs to its next await, or suspended in an await.  In "raised" a forced *)
(* write of the run has raised inside its try; in "notifyCrash" the one of *)
(* _fail has, and the wrapper of the task notifies before it ends.         *)
SyncPcs  == {"inspected", "enter", "step", "ok", "bad", "raised"}
AwaitPcs == {"child", "drain", "notifySmoke", "notifyReady", "notifyCrash"}
LivePcs  == {"created"} \cup SyncPcs \cup AwaitPcs
Pcs      == LivePcs \cup {"unused", "done"}

Live(t) == pc[t] \in LivePcs
AnyLive == \E t \in Tasks : Live(t)
LoopFree == \A t \in Tasks : pc[t] \notin SyncPcs
Alive == server \in {"up", "stopping"}

Init ==
  /\ rec = NoRecord
  /\ disk = NoRecord
  /\ pc = [t \in Tasks |-> "unused"]
  /\ idx = [t \in Tasks |-> 1]
  /\ start = [t \in Tasks |-> 1]
  /\ cancelled = [t \in Tasks |-> FALSE]
  /\ child = [t \in Tasks |-> "none"]
  /\ registered = 0
  /\ server = "up"
  /\ restarts = 0
  /\ failures = 0 /\ missed = FALSE

-----------------------------------------------------------------------------
(* The store, as StateStore specifies it: a mutation of a record that does *)
(* not exist is ignored, one to a terminal state and a deletion are in the *)
(* file when they return, any other is written by the timer thread (Flush).*)

Save(r) == rec' = r /\ UNCHANGED <<disk, failures, missed>>

SaveNow(r) ==
  IF rec = NoRecord /\ r = NoRecord
  THEN UNCHANGED storeVars
  ELSE rec' = r /\ disk' = r /\ missed' = FALSE /\ UNCHANGED failures

(* A forced write that raises: the memory keeps the change, the file lacks *)
(* it, and the timer that was cancelled for it is not started again.       *)
SaveRaises(r) ==
  /\ rec # NoRecord
  /\ failures < MaxFailures /\ failures' = failures + 1
  /\ rec' = r /\ missed' = TRUE /\ UNCHANGED disk

(* Mutant: update_state creates a record that does not exist. *)
WithState_Upsert(s) == [rec EXCEPT !.state = s]

WithState(s) == IF rec = NoRecord THEN rec ELSE [rec EXCEPT !.state = s]
WithStep(k, status) ==
  IF rec = NoRecord THEN rec ELSE [rec EXCEPT !.steps[k] = status]

Goto(t, place) == pc' = [pc EXCEPT ![t] = place]

(* The coroutine is over: its locals are forgotten. *)
Over(t) ==
  /\ Goto(t, "done")
  /\ cancelled' = [cancelled EXCEPT ![t] = FALSE]
  /\ idx' = [idx EXCEPT ![t] = 1]
  /\ start' = [start EXCEPT ![t] = 1]

(* The same after the wrapper's finally, which drops the task's entry. *)
End(t) == Over(t) /\ registered' = 0

(* _fail, always the last thing a run does.  Called from an except clause  *)
(* of the run, its exception escapes to the wrapper of the task, which     *)
(* finds the record FAILED and only notifies.                              *)
Fail(t) ==
  \/ SaveNow(WithState("FAILED")) /\ End(t)
  \/ /\ SaveRaises(WithState("FAILED"))
     /\ Goto(t, "notifyCrash")
     /\ cancelled' = [cancelled EXCEPT ![t] = FALSE]
     /\ UNCHANGED <<idx, start, registered>>

(* A forced write inside the try of the run raises. *)
Raises(t, state) ==
  /\ SaveRaises(WithState(state))
  /\ Goto(t, "raised")
  /\ UNCHANGED <<idx, start, cancelled, registered>>

-----------------------------------------------------------------------------
(* UDPRunner.run *)

(* Mutant: a retry resets only the step it starts at. *)
RunBegin_OneStep(t) ==
  /\ Alive /\ LoopFree /\ pc[t] = "created" /\ ~cancelled[t]
  /\ IF start[t] = 0 \/ rec = NoRecord
     THEN End(t) /\ UNCHANGED storeVars
     ELSE /\ Save([state |-> "INSPECTING",
                   steps |-> [rec.steps EXCEPT ![start[t]] = "pending"]])
          /\ Goto(t, "inspected")
          /\ idx' = [idx EXCEPT ![t] = start[t]]
          /\ UNCHANGED <<start, registered, cancelled>>
  /\ UNCHANGED <<child, hostVars>>

(* First step of the task: retry_install returns when start_at is no step, *)
(* and otherwise resets that step and all later ones (none of which has    *)
(* run yet when the install is new); run then enters INSPECTING.           *)
RunBegin(t) ==
  /\ Alive /\ LoopFree /\ pc[t] = "created" /\ ~cancelled[t]
  /\ IF start[t] = 0 \/ rec = NoRecord
     THEN End(t) /\ UNCHANGED storeVars
     ELSE /\ Save([state |-> "INSPECTING",
                   steps |-> [k \in Steps |->
                     IF k >= start[t] THEN "pending" ELSE rec.steps[k]]])
          /\ Goto(t, "inspected")
          /\ idx' = [idx EXCEPT ![t] = start[t]]
          /\ UNCHANGED <<start, registered, cancelled>>
  /\ UNCHANGED <<child, hostVars>>

ReadyToInstall(t) ==
  /\ Alive /\ pc[t] = "inspected"
  /\ Save(WithState("READY_TO_INSTALL"))
  /\ Goto(t, "enter")
  /\ UNCHANGED <<idx, start, cancelled, child, registered, hostVars>>

(* Head of the loop: enter the step's state, then _step_start. *)
EnterStep(t) ==
  /\ Alive /\ pc[t] = "enter"
  /\ LET state == EntryState[idx[t]] IN
     Save(IF rec = NoRecord THEN rec
          ELSE [rec EXCEPT !.state = IF state = "READY" THEN @ ELSE state,
                           !.steps[idx[t]] = "running"])
  /\ Goto(t, "step")
  /\ UNCHANGED <<idx, start, cancelled, child, registered, hostVars>>

(* _step_end. *)
EndStep(t, ok) ==
  /\ Save(WithStep(idx[t], IF ok THEN "success" ELSE "failed"))
  /\ Goto(t, IF ok THEN "ok" ELSE "bad")

(* A step that ends without waiting: prepare, env and finalize, clone of a *)
(* bundled stack, or any step that cannot start its command.               *)
EndInProcess(t) ==
  /\ Alive /\ pc[t] = "step"
  /\ \E ok \in BOOLEAN :
       (ok => idx[t] \in InProcessSteps) /\ EndStep(t, ok)
  /\ UNCHANGED <<idx, start, cancelled, child, registered, hostVars>>

(* An exception escapes the step (prepare catches its own), or a forced    *)
(* write raised: the run fails and the step is left as it is.              *)
Raise(t) ==
  /\ Alive
  /\ \/ pc[t] = "step" /\ idx[t] # 1
     \/ pc[t] = "raised"
  /\ Fail(t)
  /\ UNCHANGED <<child, hostVars>>

(* _run_bash: the git commands of one clone count as one. *)
Spawn(t) ==
  /\ Alive /\ pc[t] = "step" /\ idx[t] \in CommandSteps
  /\ child' = [child EXCEPT ![t] = "running"]
  /\ Goto(t, "child")
  /\ UNCHANGED <<storeVars, idx, start, cancelled, registered, hostVars>>

(* The wait for the child returns.  A cancel that meets a finished wait is *)
(* swallowed by the wait_for of Python 3.11 and delivered by later ones.   *)
ChildReturned(t) ==
  /\ Alive /\ LoopFree /\ pc[t] = "child" /\ child[t] \in {"ok", "bad"}
  /\ EndStep(t, child[t] = "ok")
  /\ child' = [child EXCEPT ![t] = "none"]
  /\ cancelled' = [cancelled EXCEPT ![t] = FALSE]
  /\ UNCHANGED <<idx, start, registered, hostVars>>

(* Mutant: a command is waited for without a timeout. *)
ChildTimeout_Never(t) == FALSE /\ EndStep(t, FALSE) /\ UNCHANGED lifeVars

(* The timeout of the step: kill the child, return 124. *)
ChildTimeout(t) ==
  /\ Alive /\ LoopFree /\ pc[t] = "child" /\ child[t] = "running" /\ ~cancelled[t]
  /\ EndStep(t, FALSE)
  /\ child' = [child EXCEPT ![t] = "none"]
  /\ UNCHANGED <<idx, start, cancelled, registered, hostVars>>

Advance(t) ==
  /\ Alive /\ pc[t] = "ok" /\ idx[t] < Finalize
  /\ idx' = [idx EXCEPT ![t] = @ + 1]
  /\ Goto(t, "enter")
  /\ UNCHANGED <<storeVars, start, cancelled, child, registered, hostVars>>

(* After finalize, evidence or not, the install is READY; the notification *)
(* is awaited.                                                             *)
Complete(t) ==
  /\ Alive /\ pc[t] \in {"ok", "bad"} /\ idx[t] = Finalize
  /\ \/ /\ SaveNow(WithState("READY"))
        /\ Goto(t, "notifyReady")
        /\ UNCHANGED <<idx, start, cancelled, registered>>
     \/ Raises(t, "READY")
  /\ UNCHANGED <<child, hostVars>>

SmokeFailed(t) ==
  /\ Alive /\ pc[t] = "bad" /\ idx[t] = Smoke
  /\ Goto(t, "notifySmoke")
  /\ UNCHANGED <<storeVars, idx, start, cancelled, child, registered, hostVars>>

(* This _fail is called inside the try: it is called again when it raises. *)
StepFailed(t) ==
  /\ Alive
  /\ \/ pc[t] = "bad" /\ idx[t] \notin SKIPPABLE
     \/ pc[t] = "notifySmoke" /\ LoopFree /\ ~cancelled[t]
  /\ \/ SaveNow(WithState("FAILED")) /\ End(t)
     \/ Raises(t, "FAILED")
  /\ UNCHANGED <<child, hostVars>>

Notified(t) ==
  /\ Alive /\ LoopFree /\ pc[t] \in {"notifyReady", "notifyCrash"} /\ ~cancelled[t]
  /\ End(t)
  /\ UNCHANGED <<storeVars, child, hostVars>>

(* CancelledError is raised in the await.  A coroutine that never started  *)
(* has no try to catch it and no finally to run; in _run_bash the finally  *)
(* first drains the output of the child, which is not killed; in any other *)
(* await of the run it fails at once; the wrapper only drops its entry.    *)
DeliverCancel(t) ==
  /\ Alive /\ LoopFree /\ cancelled[t]
  /\ \/ /\ pc[t] = "created"
        /\ Over(t)
        /\ UNCHANGED <<storeVars, registered>>
     \/ /\ pc[t] = "child"
        /\ Goto(t, "drain")
        /\ cancelled' = [cancelled EXCEPT ![t] = FALSE]
        /\ UNCHANGED <<storeVars, idx, start, registered>>
     \/ /\ pc[t] \in {"drain", "notifySmoke", "notifyReady"}
        /\ Fail(t)
     \/ /\ pc[t] = "notifyCrash"
        /\ End(t)
        /\ UNCHANGED storeVars
  /\ UNCHANGED <<child, hostVars>>

(* The drain reached the end of the output, or its five seconds. *)
Drained(t) ==
  /\ Alive /\ LoopFree /\ pc[t] = "drain" /\ ~cancelled[t]
  /\ Fail(t)
  /\ UNCHANGED <<child, hostVars>>

TaskStep(t) ==
  \/ RunBegin(t) \/ ReadyToInstall(t) \/ EnterStep(t)
  \/ EndInProcess(t) \/ Raise(t) \/ Spawn(t)
  \/ ChildReturned(t) \/ ChildTimeout(t) \/ Advance(t)
  \/ Complete(t) \/ SmokeFailed(t) \/ StepFailed(t) \/ Notified(t)
  \/ DeliverCancel(t) \/ Drained(t)

(* A child process exits; the result matters only to a task that waits.    *)
ChildExits(t) ==
  /\ child[t] = "running"
  /\ \E result \in {"ok", "bad"} :
       child' = [child EXCEPT ![t] = IF pc[t] = "child" THEN result ELSE "none"]
  /\ UNCHANGED <<storeVars, pc, idx, start, cancelled, registered, hostVars>>

-----------------------------------------------------------------------------
(* The routes *)

(* asyncio.create_task, and the entry in _INSTALL_TASKS. *)
CreateTask(k) ==
  \E t \in Tasks :
    /\ pc[t] = "unused" /\ \A u \in Tasks : u < t => pc[u] # "unused"
    /\ Goto(t, "created")
    /\ start' = [start EXCEPT ![t] = k]
    /\ registered' = t
    /\ UNCHANGED <<idx, cancelled, child>>

CreateInstall ==
  /\ server = "up" /\ LoopFree
  /\ \A t \in Tasks : pc[t] = "unused"
  /\ Save([state |-> "DRAFT", steps |-> [k \in Steps |-> "pending"]])
  /\ CreateTask(1)
  /\ UNCHANGED hostVars

(* The caller knows the id: the task of a new install has run up to its    *)
(* first await before the response that carries the id is read.            *)
CancelInstall ==
  /\ server = "up" /\ LoopFree
  /\ registered # 0 /\ Live(registered)
  /\ rec.state # "DRAFT"
  /\ cancelled' = [cancelled EXCEPT ![registered] = TRUE]
  /\ UNCHANGED <<storeVars, pc, idx, start, child, registered, hostVars>>

(* Mutant: the check of _INSTALL_TASKS is dropped. *)
MayResume_StateOnly == server = "up" /\ LoopFree /\ rec.state = "FAILED"

(* What the retry and skip routes check before they act. *)
MayResume ==
  /\ server = "up" /\ LoopFree
  /\ rec.state = "FAILED"
  /\ registered # 0 => ~Live(registered)

Retry(k) ==
  /\ MayResume
  /\ CreateTask(k)
  /\ UNCHANGED <<storeVars, hostVars>>

(* mark_step_skipped comes before the checks that may still refuse: there  *)
(* is no step after finalize, and the stack may be gone from the catalog.  *)
Skip(k) ==
  /\ MayResume /\ k \in SKIPPABLE
  /\ Save(WithStep(k, "skipped"))
  /\ \/ k + 1 \in Steps /\ CreateTask(k + 1)
     \/ UNCHANGED taskVars
  /\ UNCHANGED hostVars

-----------------------------------------------------------------------------
(* The store's timer thread, and the server process *)

(* After a forced write that raised, this is a timer thread that was past  *)
(* its cancel, or the timer of a later change.  A write that fails here is *)
(* one that is not made.                                                   *)
Flush ==
  /\ Alive /\ disk # rec
  /\ disk' = rec /\ missed' = FALSE
  /\ UNCHANGED <<rec, failures, taskVars, hostVars>>

(* The hook cancels what _INSTALL_TASKS holds and waits for it; it starts  *)
(* when the open requests are answered, so when no task is still to begin. *)
Shutdown ==
  /\ server = "up" /\ LoopFree
  /\ \A t \in Tasks : pc[t] # "created"
  /\ server' = "stopping"
  /\ cancelled' = [t \in Tasks |-> t = registered /\ Live(t)]
  /\ UNCHANGED <<storeVars, pc, idx, start, child, registered, restarts>>

(* It waits five seconds for each; asyncio.wait_for then cancels again. *)
ShutdownCancelsAgain ==
  /\ server = "stopping" /\ LoopFree
  /\ \E t \in Tasks : Live(t) /\ ~cancelled[t]
                       /\ cancelled' = [cancelled EXCEPT ![t] = TRUE]
  /\ UNCHANGED <<storeVars, pc, idx, start, child, registered, hostVars>>

(* A flush that fails is logged. *)
ShutdownFlush ==
  /\ server = "stopping" /\ ~AnyLive
  /\ server' = "stopped"
  /\ \/ disk' = rec /\ missed' = FALSE /\ UNCHANGED failures
     \/ /\ failures < MaxFailures /\ failures' = failures + 1
        /\ UNCHANGED <<disk, missed>>
  /\ UNCHANGED <<rec, taskVars, restarts>>

(* The memory, the tasks and _INSTALL_TASKS are gone; child processes may  *)
(* outlive the server.                                                     *)
ServerGone ==
  /\ server' = "down"
  /\ rec' = NoRecord
  /\ pc' = [t \in Tasks |-> IF Live(t) THEN "done" ELSE pc[t]]
  /\ cancelled' = [t \in Tasks |-> FALSE]
  /\ registered' = 0
  /\ child' \in [Tasks -> {"none", "running"}]
  /\ \A t \in Tasks : child'[t] = "running" => child[t] = "running"
  /\ idx' = [t \in Tasks |-> 1]
  /\ start' = [t \in Tasks |-> 1]
  /\ missed' = FALSE
  /\ UNCHANGED <<disk, restarts, failures>>

Exit  == server = "stopped" /\ ServerGone
Crash == Alive /\ ServerGone

(* Mutant: a state that _load does not know to be in flight. *)
Reconcile_Incomplete(r) ==
  IF r.state \in RUNNING_STATES \ {"SMOKE_TESTING"}
  THEN [r EXCEPT !.state = "FAILED"] ELSE r

(* _load *)
Reconcile(r) ==
  IF r.state \in RUNNING_STATES
  THEN [state |-> "FAILED",
        steps |-> [k \in Steps |->
          IF r.steps[k] = "running" THEN "failed" ELSE r.steps[k]]]
  ELSE r

Restart ==
  /\ server = "down" /\ restarts < MaxRestarts
  /\ server' = "up"
  /\ restarts' = restarts + 1
  /\ Save(Reconcile(disk))
  /\ UNCHANGED taskVars

-----------------------------------------------------------------------------
Route ==
  \/ CreateInstall \/ CancelInstall
  \/ \E k \in {0} \cup Steps : Retry(k) \/ Skip(k)

Next ==
  \/ \E t \in Tasks : TaskStep(t) \/ ChildExits(t)
  \/ Route
  \/ Flush \/ Shutdown \/ ShutdownCancelsAgain \/ ShutdownFlush
  \/ Exit \/ Crash \/ Restart

Spec == Init /\ [][Next]_lifeVars

(* The event loop gives every runnable coroutine its turn, and the timeout *)
(* of a command fires.  A child process owes nothing.                      *)
FairSpec == Spec /\ \A t \in Tasks : WF_lifeVars(TaskStep(t))

-----------------------------------------------------------------------------
(* Properties *)

(* Every variable stays in its domain. *)
TypeOK ==
  /\ rec \in Records \cup {NoRecord}
  /\ disk \in Records \cup {NoRecord}
  /\ pc \in [Tasks -> Pcs]
  /\ idx \in [Tasks -> Steps]
  /\ start \in [Tasks -> {0} \cup Steps]
  /\ cancelled \in [Tasks -> BOOLEAN]
  /\ child \in [Tasks -> {"none", "running", "ok", "bad"}]
  /\ registered \in {0} \cup Tasks
  /\ server \in {"up", "stopping", "stopped", "down"}
  /\ restarts \in 0..MaxRestarts
  /\ failures \in 0..MaxFailures /\ missed \in BOOLEAN

(* No two coroutines drive the same install, and the one that does is the  *)
(* one _INSTALL_TASKS knows: a task that ended late never hides or drops   *)
(* the entry of its successor, and cancel reaches the task that runs.      *)
OneDriver ==
  \A t \in Tasks : Live(t) => registered = t

(* A record in a running state always has a task that will move it on.     *)
(* Rollback, stop, upgrade and uninstall refuse an install in such a state *)
(* and retry accepts only FAILED ones, so a record left behind there could *)
(* not be operated on until the server restarts.                           *)
InFlightHasDriver ==
  rec.state \in RUNNING_STATES => \E t \in Tasks : Live(t) /\ pc[t] # "created"

(* What the properties around rest on: a lost server has no task; a task   *)
(* that is to begin finds the record idle; a notification at the end       *)
(* follows the READY, or the FAILED; a run is past its start and, after a  *)
(* step that succeeded, that step says so.                                 *)
DeadServerHasNoTask == ~Alive => ~AnyLive
CreatedFindsIdle == \A t \in Tasks : pc[t] = "created" => rec.state \in {"DRAFT", "FAILED"}
NotifiedIsEnded ==
  \A t \in Tasks :
    /\ pc[t] = "notifyReady" => rec.state = "READY"
    /\ pc[t] = "notifyCrash" => rec.state = "FAILED"
InPipeline == SyncPcs \cup AwaitPcs
RunInRange ==
  \A t \in Tasks : pc[t] \in InPipeline =>
    /\ rec # NoRecord
    /\ start[t] \in 1..idx[t]
    /\ pc[t] = "ok" => rec.steps[idx[t]] = "success"

(* The steps of a run form the prefix shape the UI shows: what lies        *)
(* between start_at and the current step succeeded, what lies after is     *)
(* pending, whatever earlier runs, cancels, skips and restarts left there. *)
PipelineShape ==
  \A t \in Tasks : pc[t] \in InPipeline =>
    /\ \A k \in Steps : k >= start[t] /\ k < idx[t] => rec.steps[k] = "success"
    /\ \A k \in Steps : k > idx[t] => rec.steps[k] = "pending"

(* Losing the server does not change the outcome an install shows: a READY *)
(* or FAILED that was reached comes back as it was, however far the file   *)
(* lagged behind the memory in between, unless the forced write of it      *)
(* raised and no other has succeeded since: whoever asked for it was told, *)
(* or the run went on to fail.                                             *)
OutcomeSurvivesRestart ==
  rec.state \in TERMINAL_STATES /\ ~missed => Reconcile(disk).state = rec.state

(* The inductive invariant behind the safety properties of this module. *)
LifeInv ==
  /\ TypeOK
  /\ OneDriver
  /\ InFlightHasDriver
  /\ PipelineShape
  /\ OutcomeSurvivesRestart
  /\ DeadServerHasNoTask
  /\ CreatedFindsIdle
  /\ NotifiedIsEnded
  /\ RunInRange

(* Every task ends, cancelled or not, whatever its commands do: a hung     *)
(* child only costs the timeout of its step.                               *)
EveryTaskEnds ==
  \A t \in Tasks : Live(t) ~> ~Live(t)

(* main.py on the shutdown hook: "Cancel any in-flight install tasks so we *)
(* don't leave child processes around".                                    *)
ShutdownLeavesNoChild ==
  server = "stopped" => \A t \in Tasks : child[t] # "running"

(* main.py on the task wrapper: a cancel "is NOT treated as failure" and a *)
(* failure does not "overwrite a clean READY".                             *)
ReadyIsNotOverwritten ==
  [][rec.state = "READY" => rec'.state # "FAILED"]_lifeVars

(* docs/ENDPOINTS.md on retry: "Resume from a failed step"; main.py on     *)
(* skip: "Skip a non-critical step and continue from the next one".  So an *)
(* install that is READY has run every step that may not be skipped.       *)
ReadyRanEveryCriticalStep ==
  rec.state = "READY" =>
    \A k \in Steps \ SKIPPABLE : rec.steps[k] = "success"
=============================================================================
