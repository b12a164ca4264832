---------------------------- MODULE InstallProofs ----------------------------
(***************************************************************************)
(* The install of a stack, for every pipeline and every number of tasks,   *)
(* restarts and requests that await at the same time: first its lifecycle  *)
(* alone, then with the requests that act beside it.                       *)
(***************************************************************************)
EXTENDS InstallOps, TLAPS

-----------------------------------------------------------------------------
(* The lifecycle *)

USE DEF Tasks

(* What the assumptions on the pipeline give. *)
LEMMA PipelineFacts ==
  /\ Finalize \in Nat /\ Finalize > 2 /\ Smoke = Finalize - 1
  /\ Steps = 1..Finalize
  /\ MaxTasks \in Nat /\ MaxRestarts \in Nat /\ MaxFailures \in Nat
  /\ \A k \in Steps : k # Finalize => EntryState[k] \in RUNNING_STATES
  /\ EntryState[Finalize] = "READY"
  BY LifecycleAssumption DEF LifecycleAssumption, Steps, Finalize, Smoke

(* No entry, or one whose task is over, means no task at all is alive. *)
LEMMA NoOtherDriver ==
  ASSUME OneDriver, registered # 0 => ~Live(registered)
  PROVE  ~AnyLive
  BY DEF OneDriver, AnyLive

(* Where a task is alive, every other one is not. *)
LEMMA SoleDriver ==
  ASSUME OneDriver, NEW t \in Tasks, Live(t), NEW u \in Tasks, u # t
  PROVE  ~Live(u)
  BY DEF OneDriver

(* A reconciled record is well formed and not in a running state, and one  *)
(* that is not running is its own reconciliation.                          *)
LEMMA ReconcileFacts ==
  ASSUME NEW r \in Records \cup {NoRecord}
  PROVE  /\ Reconcile(r) \in Records \cup {NoRecord}
         /\ Reconcile(r).state \notin RUNNING_STATES
         /\ r.state \notin RUNNING_STATES => Reconcile(r) = r
  BY DEF Reconcile, Records, NoRecord, States, RUNNING_STATES, TERMINAL_STATES, StepStatuses

(* The values the variables start with are in their domains. *)
LEMMA InitTypeOK == Init => TypeOK
<1>1. 1 \in Steps /\ 0 \in 0..MaxFailures /\ 0 \in 0..MaxRestarts
  BY PipelineFacts
<1>2. "unused" \in Pcs
  BY DEF Pcs
<1> QED
  BY <1>1, <1>2 DEF Init, TypeOK

(* Before the install is created there is neither a record nor a task. *)
LEMMA InitLifeInv == Init => LifeInv
  BY PipelineFacts, InitTypeOK
  DEF Init, LifeInv, OneDriver, InFlightHasDriver, PipelineShape,
      OutcomeSurvivesRestart, DeadServerHasNoTask, CreatedFindsIdle, NotifiedIsEnded,
      RunInRange, Live, LivePcs, SyncPcs, AwaitPcs, Pcs, AnyLive, Alive, InPipeline,
      NoRecord, Records, RUNNING_STATES, TERMINAL_STATES, StepStatuses, Reconcile

(* Records stay well formed under the two mutations, each of which leaves  *)
(* the other field alone; a missing record stays missing.                  *)
LEMMA WithStateFacts ==
  ASSUME rec \in Records \cup {NoRecord}, NEW s \in States
  PROVE  /\ WithState(s) \in Records \cup {NoRecord}
         /\ WithState(s).steps = rec.steps
         /\ rec = NoRecord => WithState(s) = NoRecord
         /\ rec # NoRecord => WithState(s) # NoRecord /\ WithState(s).state = s
<1>1. CASE rec = NoRecord
  BY <1>1 DEF WithState
<1>2. CASE rec # NoRecord
  <2>1. rec \in Records
    BY <1>2
  <2>2. WithState(s) = [rec EXCEPT !.state = s]
    BY <1>2 DEF WithState
  <2>3. WithState(s) \in Records /\ WithState(s).state = s /\ WithState(s).steps = rec.steps
    BY <2>1, <2>2 DEF Records
  <2>4. s # "none"
    BY DEF States, RUNNING_STATES, TERMINAL_STATES
  <2> QED
    BY <1>2, <2>3, <2>4 DEF NoRecord
<1> QED
  BY <1>1, <1>2

(* The same for _step_start and _step_end, which change one step. *)
LEMMA WithStepFacts ==
  ASSUME rec \in Records \cup {NoRecord}, NEW k \in Steps, NEW v \in StepStatuses
  PROVE  /\ WithStep(k, v) \in Records \cup {NoRecord}
         /\ WithStep(k, v).state = rec.state
         /\ rec = NoRecord => WithStep(k, v) = NoRecord
         /\ rec # NoRecord =>
              /\ WithStep(k, v) # NoRecord
              /\ WithStep(k, v).steps = [rec.steps EXCEPT ![k] = v]
<1>1. CASE rec = NoRecord
  BY <1>1 DEF WithStep
<1>2. CASE rec # NoRecord
  <2>1. rec \in Records
    BY <1>2
  <2>2. WithStep(k, v) = [rec EXCEPT !.steps = [rec.steps EXCEPT ![k] = v]]
    BY <1>2, <2>1 DEF WithStep, Records
  <2>3. [rec.steps EXCEPT ![k] = v] \in [Steps -> StepStatuses]
    BY <2>1 DEF Records
  <2>4. /\ WithStep(k, v) \in Records
        /\ WithStep(k, v).state = rec.state
        /\ WithStep(k, v).steps = [rec.steps EXCEPT ![k] = v]
    BY <2>1, <2>2, <2>3 DEF Records
  <2>5. rec.state # "none"
    BY <2>1 DEF Records, States, RUNNING_STATES, TERMINAL_STATES
  <2> QED
    BY <1>2, <2>4, <2>5 DEF NoRecord
<1> QED
  BY <1>1, <1>2

(* A change to a state that is not terminal leaves nothing to survive.     *)
LEMMA NotTerminal ==
  ASSUME rec'.state \notin TERMINAL_STATES
  PROVE  OutcomeSurvivesRestart'
  BY DEF OutcomeSurvivesRestart

(* A write makes the outcome survive.                                      *)
LEMMA SavedSurvives ==
  ASSUME disk' = rec', rec' \in Records \cup {NoRecord}
  PROVE  OutcomeSurvivesRestart'
<1>1. rec'.state \in TERMINAL_STATES => rec'.state \notin RUNNING_STATES
  BY DEF TERMINAL_STATES, RUNNING_STATES
<1> QED
  BY <1>1, ReconcileFacts DEF OutcomeSurvivesRestart

(* So does leaving the state and the file alone.                           *)
LEMMA UnmovedSurvives ==
  ASSUME OutcomeSurvivesRestart, UNCHANGED <<disk, missed>>, rec'.state = rec.state
  PROVE  OutcomeSurvivesRestart'
  BY DEF OutcomeSurvivesRestart, Reconcile

(* A forced change is in memory whatever became of its write; either the   *)
(* file has it too, or the write is known to be missed.                    *)
LEMMA ForcedFacts ==
  ASSUME TypeOK, NEW r \in Records \cup {NoRecord}, SaveNow(r) \/ SaveRaises(r)
  PROVE  /\ rec' = r
         /\ disk' \in Records \cup {NoRecord}
         /\ failures' \in 0..MaxFailures /\ missed' \in BOOLEAN
         /\ OutcomeSurvivesRestart'
<1>1. CASE rec = NoRecord /\ r = NoRecord /\ UNCHANGED storeVars
  <2>1. rec'.state \notin TERMINAL_STATES
    BY <1>1 DEF storeVars, NoRecord, TERMINAL_STATES
  <2> QED
    BY <1>1, <2>1, NotTerminal DEF TypeOK, storeVars
<1>2. CASE rec' = r /\ disk' = r /\ missed' = FALSE /\ UNCHANGED failures
  BY <1>2, SavedSurvives DEF TypeOK
<1>3. CASE SaveRaises(r)
  <2>1. OutcomeSurvivesRestart'
    BY <1>3 DEF SaveRaises, OutcomeSurvivesRestart
  <2>2. failures' \in 0..MaxFailures
    BY <1>3, PipelineFacts DEF SaveRaises, TypeOK
  <2> QED
    BY <1>3, <2>1, <2>2 DEF SaveRaises, TypeOK
<1> QED
  BY <1>1, <1>2, <1>3 DEF SaveNow

(* A run that moves on inside its pipeline keeps the invariant when what   *)
(* the invariant says of this run, and of the saved outcome, still holds:  *)
(* it is the only task alive.                                              *)
LEMMA RunMoves ==
  ASSUME LifeInv, NEW t \in Tasks, Live(t), Alive, TypeOK',
         NEW place \in InPipeline, Goto(t, place),
         registered' = registered, UNCHANGED hostVars,
         rec' # NoRecord,
         start'[t] \in 1..idx'[t],
         place = "ok" => rec'.steps[idx'[t]] = "success",
         \A k \in Steps : k >= start'[t] /\ k < idx'[t] => rec'.steps[k] = "success",
         \A k \in Steps : k > idx'[t] => rec'.steps[k] = "pending",
         place = "notifyReady" => rec'.state = "READY",
         place = "notifyCrash" => rec'.state = "FAILED",
         OutcomeSurvivesRestart'
  PROVE  LifeInv'
<1>1. \A u \in Tasks : u # t => ~Live(u)
  BY SoleDriver DEF LifeInv
<1>2. /\ pc'[t] = place
      /\ \A u \in Tasks : u # t => pc'[u] \notin LivePcs
  BY <1>1 DEF LifeInv, TypeOK, Goto, Live
<1>3. place \in LivePcs /\ place # "created"
  BY DEF InPipeline, LivePcs, SyncPcs, AwaitPcs
<1>4. InPipeline \subseteq LivePcs
  BY DEF InPipeline, LivePcs
<1>5. OneDriver'
  BY <1>2 DEF LifeInv, OneDriver, Live
<1>6. InFlightHasDriver'
  BY <1>2, <1>3 DEF InFlightHasDriver, Live
<1>7. DeadServerHasNoTask'
  BY DEF DeadServerHasNoTask, Alive, hostVars
<1>8. CreatedFindsIdle' /\ NotifiedIsEnded'
  BY <1>2, <1>3 DEF CreatedFindsIdle, NotifiedIsEnded, LivePcs, AwaitPcs
<1>9. PipelineShape' /\ RunInRange'
  BY <1>2, <1>4 DEF PipelineShape, RunInRange
<1>10. QED
  BY <1>5, <1>6, <1>7, <1>8, <1>9 DEF LifeInv

(* What the invariant says of the only run.                                *)
LEMMA RunFacts ==
  ASSUME LifeInv, NEW t \in Tasks, pc[t] \in InPipeline
  PROVE  /\ Live(t)
         /\ rec \in Records /\ rec # NoRecord
         /\ idx[t] \in Steps /\ start[t] \in 1..idx[t]
         /\ pc[t] = "ok" => rec.steps[idx[t]] = "success"
         /\ \A k \in Steps : k >= start[t] /\ k < idx[t] => rec.steps[k] = "success"
         /\ \A k \in Steps : k > idx[t] => rec.steps[k] = "pending"
<1>1. pc[t] \in LivePcs
  BY DEF LivePcs, InPipeline
<1> QED
  BY <1>1 DEF LifeInv, TypeOK, Live, PipelineShape, RunInRange

(* A forced change of the state by a run that stays in its pipeline. *)
LEMMA ForcedRunMoves ==
  ASSUME LifeInv, NEW t \in Tasks, pc[t] \in InPipeline, Alive,
         NEW state \in States, SaveNow(WithState(state)) \/ SaveRaises(WithState(state)),
         NEW place \in InPipeline, Goto(t, place), place # "ok",
         place = "notifyReady" => state = "READY",
         place = "notifyCrash" => state = "FAILED",
         cancelled' \in [Tasks -> BOOLEAN],
         UNCHANGED <<idx, start, registered, child, hostVars>>
  PROVE  LifeInv'
<1>1. rec \in Records \cup {NoRecord} /\ rec # NoRecord /\ TypeOK
  BY RunFacts DEF LifeInv
<1>2. /\ WithState(state) \in Records \cup {NoRecord} /\ WithState(state) # NoRecord
      /\ WithState(state).state = state /\ WithState(state).steps = rec.steps
  BY <1>1, WithStateFacts
<1>3. /\ rec' = WithState(state) /\ disk' \in Records \cup {NoRecord}
      /\ failures' \in 0..MaxFailures /\ missed' \in BOOLEAN
      /\ OutcomeSurvivesRestart'
  BY <1>1, <1>2, ForcedFacts
<1>4. place \in Pcs
  BY DEF InPipeline, LivePcs, Pcs
<1>5. TypeOK'
  BY <1>2, <1>3, <1>4 DEF LifeInv, TypeOK, Goto, hostVars
<1>6. rec' # NoRecord /\ rec'.state = state /\ rec'.steps = rec.steps
  BY <1>2, <1>3
<1> QED
  BY <1>3, <1>5, <1>6, RunFacts, RunMoves DEF hostVars

(* An ended task forgets its locals, and its record is FAILED and saved.   *)
LEMMA FailedKeeps ==
  ASSUME LifeInv, NEW t \in Tasks, Live(t), Alive, UNCHANGED <<child, hostVars>>,
         SaveNow(WithState("FAILED")), End(t)
  PROVE  LifeInv'
<1> USE PipelineFacts
<1>1. \A u \in Tasks : u # t => ~Live(u)
  BY SoleDriver DEF LifeInv
<1>2. "FAILED" \in States /\ TypeOK
  BY DEF States, TERMINAL_STATES, LifeInv
<1>3. WithState("FAILED") \in Records \cup {NoRecord}
      /\ WithState("FAILED").state \in {"FAILED", "none"}
  BY <1>2, WithStateFacts DEF TypeOK, NoRecord
<1>4. /\ rec' = WithState("FAILED") /\ disk' \in Records \cup {NoRecord}
      /\ failures' \in 0..MaxFailures /\ missed' \in BOOLEAN
      /\ OutcomeSurvivesRestart'
  BY <1>2, <1>3, ForcedFacts
<1>5. TypeOK'
  BY <1>3, <1>4 DEF LifeInv, TypeOK, End, Over, Goto, hostVars, Pcs
<1>6. \A u \in Tasks : pc'[u] \notin LivePcs
  BY <1>1 DEF LifeInv, TypeOK, End, Over, Goto, Live, LivePcs, SyncPcs, AwaitPcs
<1>7. ~AnyLive' /\ OneDriver'
  BY <1>6 DEF OneDriver, AnyLive, Live
<1>8. DeadServerHasNoTask' /\ CreatedFindsIdle' /\ NotifiedIsEnded'
      /\ PipelineShape' /\ RunInRange'
  BY <1>6, <1>7 DEF DeadServerHasNoTask, CreatedFindsIdle, NotifiedIsEnded,
              PipelineShape, RunInRange, LivePcs, InPipeline, SyncPcs, AwaitPcs
<1>9. InFlightHasDriver'
  BY <1>3, <1>4 DEF InFlightHasDriver, RUNNING_STATES
<1>10. QED
  BY <1>4, <1>5, <1>7, <1>8, <1>9 DEF LifeInv

(* A run whose forced write raises goes on to its except clause. *)
LEMMA RaisesKeeps ==
  ASSUME LifeInv, NEW t \in Tasks, pc[t] \in InPipeline, Alive,
         NEW state \in States, Raises(t, state), UNCHANGED <<child, hostVars>>
  PROVE  LifeInv'
<1>1. "raised" \in InPipeline
  BY DEF InPipeline, SyncPcs
<1>2. SaveRaises(WithState(state)) /\ Goto(t, "raised")
      /\ UNCHANGED <<idx, start, cancelled, registered>>
  BY DEF Raises
<1>3. cancelled' \in [Tasks -> BOOLEAN]
  BY <1>2 DEF LifeInv, TypeOK
<1> QED
  BY <1>1, <1>2, <1>3, ForcedRunMoves

(* A run that fails, whether the write of it raises or not. *)
LEMMA FailKeeps ==
  ASSUME LifeInv, NEW t \in Tasks, pc[t] \in InPipeline, Alive, Fail(t),
         UNCHANGED <<child, hostVars>>
  PROVE  LifeInv'
<1>1. CASE SaveNow(WithState("FAILED")) /\ End(t)
  BY <1>1, RunFacts, FailedKeeps
<1>2. CASE /\ SaveRaises(WithState("FAILED")) /\ Goto(t, "notifyCrash")
           /\ cancelled' = [cancelled EXCEPT ![t] = FALSE]
           /\ UNCHANGED <<idx, start, registered>>
  <2>1. "notifyCrash" \in InPipeline /\ "FAILED" \in States
    BY DEF InPipeline, AwaitPcs, States, TERMINAL_STATES
  <2>2. cancelled' \in [Tasks -> BOOLEAN]
    BY <1>2 DEF LifeInv, TypeOK
  <2> QED
    BY <1>2, <2>1, <2>2, ForcedRunMoves
<1> QED
  BY <1>1, <1>2 DEF Fail

(* _step_end, whatever made the step end. *)
LEMMA EndStepKeeps ==
  ASSUME LifeInv, NEW t \in Tasks, pc[t] \in InPipeline, Alive,
         NEW ok \in BOOLEAN, EndStep(t, ok),
         cancelled' \in [Tasks -> BOOLEAN],
         child' \in [Tasks -> {"none", "running", "ok", "bad"}],
         UNCHANGED <<idx, start, registered, hostVars>>
  PROVE  LifeInv'
<1> USE PipelineFacts
<1> DEFINE status == IF ok THEN "success" ELSE "failed"
           place  == IF ok THEN "ok" ELSE "bad"
<1>1. status \in StepStatuses /\ place \in InPipeline /\ place \in Pcs
  BY DEF StepStatuses, InPipeline, SyncPcs, Pcs, LivePcs
<1>2. rec' = WithStep(idx[t], status) /\ Goto(t, place)
      /\ UNCHANGED <<disk, failures, missed>>
  BY DEF EndStep, Save
<1>3. /\ rec' \in Records \cup {NoRecord}
      /\ rec'.state = rec.state
      /\ rec' # NoRecord
      /\ rec'.steps = [rec.steps EXCEPT ![idx[t]] = status]
  BY <1>1, <1>2, RunFacts, WithStepFacts
<1>4. TypeOK'
  BY <1>1, <1>2, <1>3 DEF LifeInv, TypeOK, Goto, hostVars
<1>5. rec.steps \in [Steps -> StepStatuses]
  BY RunFacts DEF Records
<1>6. OutcomeSurvivesRestart'
  BY <1>2, <1>3, UnmovedSurvives DEF LifeInv
<1> HIDE DEF status
<1>7. /\ \A k \in Steps : k >= start[t] /\ k < idx[t] => rec'.steps[k] = "success"
      /\ \A k \in Steps : k > idx[t] => rec'.steps[k] = "pending"
      /\ rec'.steps[idx[t]] = status
  BY <1>3, <1>5, RunFacts
<1>8. place = "ok" => status = "success"
  BY DEF status
<1>9. place # "notifyReady" /\ place # "notifyCrash"
  OBVIOUS
<1> HIDE DEF place
<1>10. rec'.steps[idx'[t]] = status /\ idx'[t] = idx[t] /\ start'[t] = start[t]
  BY <1>7
<1>11. /\ Live(t) /\ start'[t] \in 1..idx'[t]
       /\ \A k \in Steps : k >= start'[t] /\ k < idx'[t] => rec'.steps[k] = "success"
       /\ \A k \in Steps : k > idx'[t] => rec'.steps[k] = "pending"
       /\ place = "ok" => rec'.steps[idx'[t]] = "success"
  BY <1>7, <1>8, <1>10, RunFacts
<1>12. QED
  BY <1>1, <1>2, <1>3, <1>4, <1>6, <1>9, <1>11, RunMoves DEF hostVars

(* A task whose coroutine is over without touching the record, when that   *)
(* record is not in flight.                                                *)
LEMMA OverKeeps ==
  ASSUME LifeInv, NEW t \in Tasks, Live(t), Over(t),
         registered' \in {0, registered},
         rec.state \notin RUNNING_STATES,
         UNCHANGED <<storeVars, child, hostVars>>
  PROVE  LifeInv'
<1> USE PipelineFacts
<1>1. \A u \in Tasks : u # t => ~Live(u)
  BY SoleDriver DEF LifeInv
<1>2. TypeOK'
  BY DEF LifeInv, TypeOK, Over, Goto, Pcs, storeVars, hostVars
<1>3. \A u \in Tasks : pc'[u] \notin LivePcs
  BY <1>1 DEF LifeInv, TypeOK, Over, Goto, Live, LivePcs, SyncPcs, AwaitPcs
<1>4. ~AnyLive' /\ OneDriver'
  BY <1>3 DEF OneDriver, AnyLive, Live
<1>5. DeadServerHasNoTask' /\ CreatedFindsIdle' /\ NotifiedIsEnded'
      /\ PipelineShape' /\ RunInRange'
  BY <1>3, <1>4 DEF DeadServerHasNoTask, CreatedFindsIdle, NotifiedIsEnded,
              PipelineShape, RunInRange, LivePcs, InPipeline, SyncPcs, AwaitPcs
<1>6. InFlightHasDriver' /\ OutcomeSurvivesRestart'
  BY UnmovedSurvives DEF LifeInv, InFlightHasDriver, storeVars
<1>7. QED
  BY <1>2, <1>4, <1>5, <1>6 DEF LifeInv

(* A step that leaves the coroutines and the record alone: the file, the   *)
(* children, a pending cancel, or the phase of a server that stays alive   *)
(* or has nothing to do any more.                                          *)
LEMMA AsideKeeps ==
  ASSUME LifeInv, TypeOK', UNCHANGED <<rec, pc, idx, start, registered>>,
         Alive' \/ ~AnyLive, disk' = rec \/ UNCHANGED <<disk, missed>>
  PROVE  LifeInv'
<1>1. /\ \A u \in Tasks : pc'[u] = pc[u] /\ Live(u)' = Live(u)
      /\ AnyLive' = AnyLive
  BY DEF Live, AnyLive
<1>2. OneDriver' /\ InFlightHasDriver' /\ PipelineShape'
  BY <1>1 DEF LifeInv, OneDriver, InFlightHasDriver, PipelineShape
<1>3. CreatedFindsIdle' /\ NotifiedIsEnded' /\ RunInRange' /\ DeadServerHasNoTask'
  BY <1>1 DEF LifeInv, CreatedFindsIdle, NotifiedIsEnded, RunInRange, DeadServerHasNoTask
<1>4. OutcomeSurvivesRestart'
  BY UnmovedSurvives, SavedSurvives DEF LifeInv, TypeOK
<1>5. QED
  BY <1>2, <1>3, <1>4 DEF LifeInv

(* Creating the task of an install nobody drives. *)
LEMMA CreateTaskKeeps ==
  ASSUME LifeInv, ~AnyLive, server = "up", NEW k \in {0} \cup Steps, CreateTask(k),
         rec' \in Records \cup {NoRecord}, UNCHANGED <<disk, failures, missed>>,
         rec'.state \in {"DRAFT", "FAILED"}, UNCHANGED hostVars,
         OutcomeSurvivesRestart'
  PROVE  LifeInv'
<1>1. PICK t \in Tasks :
        /\ pc[t] = "unused" /\ Goto(t, "created") /\ start' = [start EXCEPT ![t] = k]
        /\ registered' = t /\ UNCHANGED <<idx, cancelled, child>>
  BY DEF CreateTask
<1>2. /\ pc'[t] = "created"
      /\ \A u \in Tasks : u # t => pc'[u] \notin LivePcs
  BY <1>1 DEF LifeInv, TypeOK, Goto, AnyLive, Live
<1>3. TypeOK'
  BY <1>1 DEF LifeInv, TypeOK, Goto, hostVars, Pcs, LivePcs
<1>4. OneDriver'
  BY <1>1, <1>2 DEF OneDriver, Live
<1>5. InFlightHasDriver'
  BY DEF InFlightHasDriver, RUNNING_STATES
<1>6. DeadServerHasNoTask' /\ CreatedFindsIdle'
  BY DEF DeadServerHasNoTask, CreatedFindsIdle, Alive, hostVars
<1>7. \A u \in Tasks : pc'[u] \notin InPipeline
  BY <1>2 DEF InPipeline, LivePcs, SyncPcs, AwaitPcs
<1>8. NotifiedIsEnded' /\ PipelineShape' /\ RunInRange'
  BY <1>7 DEF NotifiedIsEnded, PipelineShape, RunInRange, InPipeline, AwaitPcs
<1>9. QED
  BY <1>3, <1>4, <1>5, <1>6, <1>8 DEF LifeInv

-----------------------------------------------------------------------------
(* The steps of the task. *)
LEMMA TaskStepKeeps ==
  ASSUME LifeInv, NEW t \in Tasks, TaskStep(t)
  PROVE  LifeInv'
<1> USE PipelineFacts
<1>0. Alive
  BY DEF TaskStep, RunBegin, ReadyToInstall, EnterStep, EndInProcess, Raise, Spawn,
         ChildReturned, ChildTimeout, Advance, Complete, SmokeFailed, StepFailed,
         Notified, DeliverCancel, Drained
<1>a. InPipeline \subseteq LivePcs /\ InPipeline \subseteq Pcs
  BY DEF InPipeline, LivePcs, Pcs
<1>1. CASE RunBegin(t)
  <2>1. pc[t] = "created" /\ Live(t) /\ rec.state \in {"DRAFT", "FAILED"}
    BY <1>1 DEF RunBegin, Live, LivePcs, LifeInv, CreatedFindsIdle
  <2>2. CASE start[t] = 0 \/ rec = NoRecord
    BY <1>1, <2>1, <2>2, OverKeeps DEF RunBegin, End, RUNNING_STATES
  <2>3. CASE ~(start[t] = 0 \/ rec = NoRecord)
    <3> DEFINE fresh == [state |-> "INSPECTING",
                         steps |-> [k \in Steps |->
                           IF k >= start[t] THEN "pending" ELSE rec.steps[k]]]
    <3>1. /\ rec' = fresh /\ UNCHANGED <<disk, failures, missed>> /\ Goto(t, "inspected")
          /\ idx' = [idx EXCEPT ![t] = start[t]]
          /\ UNCHANGED <<start, registered, cancelled, child, hostVars>>
      BY <1>1, <2>3 DEF RunBegin, Save
    <3>2. rec \in Records /\ start[t] \in Steps
      BY <2>3 DEF LifeInv, TypeOK
    <3>3. "INSPECTING" \in States /\ "pending" \in StepStatuses
      BY DEF States, RUNNING_STATES, StepStatuses
    <3>4. fresh.steps \in [Steps -> StepStatuses]
      BY <3>2, <3>3 DEF Records
    <3>5. fresh \in Records /\ fresh # NoRecord
      BY <3>3, <3>4 DEF Records, NoRecord
    <3>6. "inspected" \in InPipeline
      BY DEF InPipeline, SyncPcs
    <3>7. TypeOK'
      BY <3>1, <3>2, <3>5, <3>6, <1>a DEF LifeInv, TypeOK, Goto, hostVars
    <3>8. start'[t] = start[t] /\ idx'[t] = start[t]
      BY <3>1, <3>2 DEF LifeInv, TypeOK
    <3>9. OutcomeSurvivesRestart'
      BY <3>1, NotTerminal DEF TERMINAL_STATES
    <3>10. \A k \in Steps : k > idx'[t] => rec'.steps[k] = "pending"
      BY <3>1, <3>2, <3>8
    <3>11. start'[t] \in 1..idx'[t]
      BY <3>2, <3>8
    <3>12. \A k \in Steps : ~(k >= start'[t] /\ k < idx'[t])
      BY <3>2, <3>8
    <3> HIDE DEF fresh
    <3> QED
      BY <3>1, <3>5, <3>6, <3>7, <3>9, <3>10, <3>11, <3>12, <2>1, <1>0, RunMoves
      DEF hostVars
  <2> QED
    BY <2>2, <2>3
<1>2. CASE ReadyToInstall(t)
  <2>1. pc[t] \in InPipeline /\ "enter" \in InPipeline
    BY <1>2 DEF ReadyToInstall, InPipeline, SyncPcs
  <2>2. "READY_TO_INSTALL" \in States /\ "READY_TO_INSTALL" \notin TERMINAL_STATES
    BY DEF States, RUNNING_STATES, TERMINAL_STATES
  <2>3. /\ rec' = WithState("READY_TO_INSTALL") /\ UNCHANGED <<disk, failures, missed>> /\ Goto(t, "enter")
        /\ UNCHANGED <<idx, start, cancelled, child, registered, hostVars>>
    BY <1>2 DEF ReadyToInstall, Save
  <2>4. /\ rec' \in Records \cup {NoRecord} /\ rec'.steps = rec.steps
        /\ rec' # NoRecord /\ rec'.state = "READY_TO_INSTALL"
    BY <2>1, <2>2, <2>3, RunFacts, WithStateFacts
  <2>5. TypeOK'
    BY <2>1, <2>3, <2>4, <1>a DEF LifeInv, TypeOK, Goto, hostVars
  <2>6. OutcomeSurvivesRestart'
    BY <2>2, <2>4, NotTerminal
  <2> QED
    BY <2>1, <2>3, <2>4, <2>5, <2>6, <1>0, RunFacts, RunMoves DEF hostVars
<1>3. CASE EnterStep(t)
  <2>1. pc[t] \in InPipeline /\ "step" \in InPipeline
    BY <1>3 DEF EnterStep, InPipeline, SyncPcs
  <2>2. rec \in Records /\ rec # NoRecord /\ idx[t] \in Steps
    BY <2>1, RunFacts
  <2> DEFINE entered == IF EntryState[idx[t]] = "READY" THEN rec.state ELSE EntryState[idx[t]]
             moved == [rec EXCEPT !.state = entered, !.steps[idx[t]] = "running"]
  <2>3. /\ rec' = moved /\ UNCHANGED <<disk, failures, missed>> /\ Goto(t, "step")
        /\ UNCHANGED <<idx, start, cancelled, child, registered, hostVars>>
    BY <1>3, <2>2 DEF EnterStep, Save, Records
  <2>4. entered = rec.state \/ entered \in RUNNING_STATES
    BY <2>2
  <2>5. entered \in States /\ rec.steps \in [Steps -> StepStatuses]
    BY <2>2, <2>4 DEF States, Records
  <2>6. [rec.steps EXCEPT ![idx[t]] = "running"] \in [Steps -> StepStatuses]
    BY <2>5 DEF StepStatuses
  <2> HIDE DEF entered
  <2>7. /\ moved \in Records /\ moved.state = entered
        /\ moved.steps = [rec.steps EXCEPT ![idx[t]] = "running"]
    BY <2>2, <2>5, <2>6 DEF Records
  <2>8. entered # "none"
    BY <2>5 DEF States, RUNNING_STATES, TERMINAL_STATES
  <2>9. moved # NoRecord
    BY <2>7, <2>8 DEF NoRecord
  <2>10. OutcomeSurvivesRestart'
    <3>1. CASE entered = rec.state
      BY <3>1, <2>3, <2>7, UnmovedSurvives DEF LifeInv
    <3>2. CASE entered \in RUNNING_STATES
      BY <3>2, <2>3, <2>7, NotTerminal DEF RUNNING_STATES, TERMINAL_STATES
    <3> QED
      BY <3>1, <3>2, <2>4
  <2> HIDE DEF moved
  <2>11. TypeOK'
    BY <2>1, <2>3, <2>7, <1>a DEF LifeInv, TypeOK, Goto, hostVars
  <2>12. /\ \A k \in Steps : k >= start[t] /\ k < idx[t] => rec'.steps[k] = "success"
         /\ \A k \in Steps : k > idx[t] => rec'.steps[k] = "pending"
    BY <2>1, <2>3, <2>5, <2>7, RunFacts
  <2> QED
    BY <2>1, <2>3, <2>9, <2>10, <2>11, <2>12, <1>0, RunFacts, RunMoves DEF hostVars
<1>4. CASE EndInProcess(t)
  <2>1. PICK ok \in BOOLEAN : EndStep(t, ok)
    BY <1>4 DEF EndInProcess
  <2>2. pc[t] \in InPipeline /\ UNCHANGED <<idx, start, cancelled, child, registered, hostVars>>
    BY <1>4 DEF EndInProcess, InPipeline, SyncPcs
  <2> QED
    BY <2>1, <2>2, <1>0, EndStepKeeps DEF LifeInv, TypeOK
<1>5. CASE Raise(t)
  BY <1>5, <1>0, FailKeeps DEF Raise, InPipeline, SyncPcs
<1>6. CASE Spawn(t)
  <2>1. pc[t] \in InPipeline /\ "child" \in InPipeline
    BY <1>6 DEF Spawn, storeVars, InPipeline, SyncPcs, AwaitPcs
  <2>2. TypeOK'
    BY <1>6, <2>1, <1>a DEF Spawn, storeVars, LifeInv, TypeOK, Goto, hostVars
  <2>3. OutcomeSurvivesRestart'
    BY <1>6, UnmovedSurvives DEF Spawn, storeVars, LifeInv
  <2> QED
    BY <1>6, <2>1, <2>2, <2>3, <1>0, RunFacts, RunMoves DEF Spawn, storeVars, hostVars
<1>7. CASE ChildReturned(t)
  <2>1. pc[t] \in InPipeline /\ EndStep(t, child[t] = "ok")
    BY <1>7 DEF ChildReturned, InPipeline, AwaitPcs
  <2>2. /\ child' \in [Tasks -> {"none", "running", "ok", "bad"}]
        /\ cancelled' \in [Tasks -> BOOLEAN]
        /\ UNCHANGED <<idx, start, registered, hostVars>>
    BY <1>7 DEF ChildReturned, LifeInv, TypeOK
  <2>3. (child[t] = "ok") \in BOOLEAN
    OBVIOUS
  <2> QED
    BY <2>1, <2>2, <2>3, <1>0, EndStepKeeps
<1>8. CASE ChildTimeout(t)
  <2>1. pc[t] \in InPipeline /\ EndStep(t, FALSE)
    BY <1>8 DEF ChildTimeout, InPipeline, AwaitPcs
  <2>2. /\ child' \in [Tasks -> {"none", "running", "ok", "bad"}]
        /\ cancelled' \in [Tasks -> BOOLEAN]
        /\ UNCHANGED <<idx, start, registered, hostVars>>
    BY <1>8 DEF ChildTimeout, LifeInv, TypeOK
  <2> QED
    BY <2>1, <2>2, <1>0, EndStepKeeps
<1>9. CASE Advance(t)
  <2>1. pc[t] \in InPipeline /\ pc[t] = "ok" /\ "enter" \in InPipeline
    BY <1>9 DEF Advance, InPipeline, SyncPcs
  <2>2. idx[t] \in Steps /\ idx[t] + 1 \in Steps /\ start[t] \in 1..idx[t]
    BY <1>9, <2>1, RunFacts DEF Advance
  <2>3. /\ UNCHANGED <<rec, disk, failures, missed>> /\ Goto(t, "enter")
        /\ UNCHANGED <<start, cancelled, child, registered, hostVars>>
        /\ idx' = [idx EXCEPT ![t] = idx[t] + 1]
    BY <1>9 DEF Advance, storeVars
  <2>4. idx'[t] = idx[t] + 1 /\ start'[t] \in 1..idx'[t]
    BY <2>2, <2>3 DEF LifeInv, TypeOK
  <2>5. TypeOK'
    BY <2>1, <2>2, <2>3, <1>a DEF LifeInv, TypeOK, Goto, hostVars
  <2>6. OutcomeSurvivesRestart'
    BY <2>3, UnmovedSurvives DEF LifeInv
  <2>7. /\ \A k \in Steps : k >= start[t] /\ k < idx[t] => rec.steps[k] = "success"
        /\ \A k \in Steps : k > idx[t] => rec.steps[k] = "pending"
        /\ rec.steps[idx[t]] = "success"
    BY <2>1, RunFacts
  <2>8. /\ \A k \in Steps : k >= start'[t] /\ k < idx'[t] => rec'.steps[k] = "success"
        /\ \A k \in Steps : k > idx'[t] => rec'.steps[k] = "pending"
    BY <2>2, <2>3, <2>4, <2>7
  <2> QED
    BY <2>1, <2>3, <2>4, <2>5, <2>6, <2>8, <1>0, RunFacts, RunMoves DEF hostVars
<1>10. CASE Complete(t)
  <2>1. pc[t] \in InPipeline /\ "notifyReady" \in InPipeline /\ UNCHANGED <<child, hostVars>>
    BY <1>10 DEF Complete, InPipeline, SyncPcs, AwaitPcs
  <2>2. "READY" \in States
    BY DEF States, TERMINAL_STATES
  <2>3. CASE /\ SaveNow(WithState("READY")) /\ Goto(t, "notifyReady")
             /\ UNCHANGED <<idx, start, cancelled, registered>>
    <3>1. cancelled' \in [Tasks -> BOOLEAN]
      BY <2>3 DEF LifeInv, TypeOK
    <3> QED
      BY <2>1, <2>2, <2>3, <3>1, <1>0, ForcedRunMoves
  <2>4. CASE Raises(t, "READY")
    BY <2>1, <2>2, <2>4, <1>0, RaisesKeeps
  <2> QED
    BY <1>10, <2>3, <2>4 DEF Complete
<1>11. CASE SmokeFailed(t)
  <2>1. pc[t] \in InPipeline /\ "notifySmoke" \in InPipeline
    BY <1>11 DEF SmokeFailed, storeVars, InPipeline, SyncPcs, AwaitPcs
  <2>2. TypeOK'
    BY <1>11, <2>1, <1>a DEF SmokeFailed, storeVars, LifeInv, TypeOK, Goto, hostVars
  <2>3. OutcomeSurvivesRestart'
    BY <1>11, UnmovedSurvives DEF SmokeFailed, storeVars, LifeInv
  <2> QED
    BY <1>11, <2>1, <2>2, <2>3, <1>0, RunFacts, RunMoves DEF SmokeFailed, storeVars, hostVars
<1>12. CASE StepFailed(t)
  <2>1. pc[t] \in InPipeline /\ "FAILED" \in States /\ UNCHANGED <<child, hostVars>>
    BY <1>12 DEF StepFailed, InPipeline, SyncPcs, AwaitPcs, States, TERMINAL_STATES
  <2>2. CASE SaveNow(WithState("FAILED")) /\ End(t)
    BY <2>1, <2>2, <1>0, RunFacts, FailedKeeps
  <2>3. CASE Raises(t, "FAILED")
    BY <2>1, <2>3, <1>0, RaisesKeeps
  <2> QED
    BY <1>12, <2>2, <2>3 DEF StepFailed
<1>13. CASE Notified(t)
  <2>1. Live(t) /\ rec.state \notin RUNNING_STATES
    BY <1>13 DEF Notified, LifeInv, NotifiedIsEnded, RUNNING_STATES, Live, LivePcs, AwaitPcs
  <2> QED
    BY <1>13, <2>1, OverKeeps DEF Notified, End
<1>14. CASE DeliverCancel(t)
  <2>1. CASE pc[t] = "created" /\ Over(t) /\ UNCHANGED <<storeVars, registered>>
    <3>1. Live(t) /\ rec.state \notin RUNNING_STATES
      BY <2>1 DEF LifeInv, CreatedFindsIdle, RUNNING_STATES, Live, LivePcs
    <3> QED
      BY <1>14, <2>1, <3>1, OverKeeps DEF DeliverCancel
  <2>2. CASE /\ pc[t] = "child" /\ Goto(t, "drain")
             /\ cancelled' = [cancelled EXCEPT ![t] = FALSE]
             /\ UNCHANGED <<storeVars, idx, start, registered>>
    <3>1. pc[t] \in InPipeline /\ "drain" \in InPipeline
      BY <2>2 DEF InPipeline, AwaitPcs
    <3>2. UNCHANGED <<child, hostVars>>
      BY <1>14 DEF DeliverCancel
    <3>3. TypeOK'
      BY <2>2, <3>1, <3>2, <1>a DEF LifeInv, TypeOK, Goto, hostVars, storeVars
    <3>4. OutcomeSurvivesRestart'
      BY <2>2, UnmovedSurvives DEF LifeInv, storeVars
    <3> QED
      BY <2>2, <3>1, <3>2, <3>3, <3>4, <1>0, RunFacts, RunMoves DEF hostVars, storeVars
  <2>3. CASE pc[t] \in {"drain", "notifySmoke", "notifyReady"} /\ Fail(t)
    BY <1>14, <2>3, <1>0, FailKeeps DEF DeliverCancel, InPipeline, AwaitPcs
  <2>4. CASE pc[t] = "notifyCrash" /\ End(t) /\ UNCHANGED storeVars
    <3>1. Live(t) /\ rec.state \notin RUNNING_STATES
      BY <2>4 DEF LifeInv, NotifiedIsEnded, RUNNING_STATES, Live, LivePcs, AwaitPcs
    <3> QED
      BY <1>14, <2>4, <3>1, OverKeeps DEF DeliverCancel, End
  <2> QED
    BY <1>14, <2>1, <2>2, <2>3, <2>4 DEF DeliverCancel
<1>15. CASE Drained(t)
  BY <1>15, <1>0, FailKeeps DEF Drained, InPipeline, AwaitPcs
<1> QED
  BY <1>1, <1>2, <1>3, <1>4, <1>5, <1>6, <1>7, <1>8, <1>9, <1>10, <1>11, <1>12,
     <1>13, <1>14, <1>15 DEF TaskStep

-----------------------------------------------------------------------------
(* The routes. *)
LEMMA RouteKeeps ==
  ASSUME LifeInv, Route
  PROVE  LifeInv'
<1> USE PipelineFacts
<1>1. CASE CreateInstall
  <2> DEFINE draft == [state |-> "DRAFT", steps |-> [k \in Steps |-> "pending"]]
  <2>1. draft \in Records
    BY DEF Records, States, StepStatuses
  <2>2. ~AnyLive
    BY <1>1 DEF CreateInstall, AnyLive, Live, LivePcs, SyncPcs, AwaitPcs
  <2>3. rec' = draft /\ UNCHANGED <<disk, failures, missed>> /\ server = "up" /\ CreateTask(1) /\ UNCHANGED hostVars
    BY <1>1 DEF CreateInstall, Save
  <2>4. OutcomeSurvivesRestart'
    BY <2>3, NotTerminal DEF TERMINAL_STATES
  <2>5. 1 \in Steps /\ rec'.state = "DRAFT"
    BY <2>3
  <2> HIDE DEF draft
  <2> QED
    BY <2>1, <2>2, <2>3, <2>4, <2>5, CreateTaskKeeps
<1>2. CASE CancelInstall
  <2>1. TypeOK'
    BY <1>2 DEF CancelInstall, LifeInv, TypeOK, hostVars, storeVars
  <2>2. Alive'
    BY <1>2 DEF CancelInstall, Alive, hostVars
  <2> QED
    BY <1>2, <2>1, <2>2, AsideKeeps DEF CancelInstall, storeVars
<1>3. ASSUME NEW k \in {0} \cup Steps, Retry(k)
      PROVE  LifeInv'
  <2>1. ~AnyLive /\ server = "up" /\ rec.state = "FAILED" /\ CreateTask(k)
        /\ UNCHANGED <<rec, disk, failures, missed, hostVars>>
    BY <1>3, NoOtherDriver DEF Retry, MayResume, LifeInv, storeVars
  <2>2. OutcomeSurvivesRestart' /\ rec' \in Records \cup {NoRecord}
    BY <2>1, UnmovedSurvives DEF LifeInv, TypeOK
  <2> QED
    BY <2>1, <2>2, CreateTaskKeeps
<1>4. ASSUME NEW k \in {0} \cup Steps, Skip(k)
      PROVE  LifeInv'
  <2>1. ~AnyLive /\ server = "up" /\ rec.state = "FAILED" /\ k \in Steps
        /\ rec' = WithStep(k, "skipped") /\ UNCHANGED <<disk, failures, missed, hostVars>>
    BY <1>4, NoOtherDriver DEF Skip, MayResume, LifeInv, Save, SKIPPABLE
  <2>2. "skipped" \in StepStatuses
    BY DEF StepStatuses
  <2>3. rec' \in Records \cup {NoRecord} /\ rec'.state = "FAILED"
    BY <2>1, <2>2, WithStepFacts DEF LifeInv, TypeOK
  <2>4. OutcomeSurvivesRestart'
    BY <2>1, <2>3, UnmovedSurvives DEF LifeInv
  <2>5. CASE k + 1 \in Steps /\ CreateTask(k + 1)
    BY <2>1, <2>3, <2>4, <2>5, CreateTaskKeeps
  <2>6. CASE UNCHANGED taskVars
    <3>1. TypeOK'
      BY <2>1, <2>3, <2>6 DEF LifeInv, TypeOK, taskVars, hostVars
    <3>2. \A t \in Tasks : pc'[t] = pc[t] /\ pc[t] \notin LivePcs
      BY <2>1, <2>6 DEF AnyLive, Live, taskVars
    <3>3. /\ OneDriver' /\ PipelineShape' /\ DeadServerHasNoTask' /\ CreatedFindsIdle'
          /\ NotifiedIsEnded' /\ RunInRange' /\ InFlightHasDriver'
      BY <3>2, <2>3
      DEF OneDriver, PipelineShape, DeadServerHasNoTask, CreatedFindsIdle, NotifiedIsEnded,
          RunInRange, InFlightHasDriver, AnyLive, Live, LivePcs, InPipeline, SyncPcs, AwaitPcs,
          RUNNING_STATES
    <3> QED
      BY <3>1, <3>3, <2>4 DEF LifeInv
  <2> QED
    BY <1>4, <2>5, <2>6 DEF Skip
<1> QED
  BY <1>1, <1>2, <1>3, <1>4 DEF Route

(* The loss of the server, and the next one. *)
LEMMA ServerGoneKeeps ==
  ASSUME LifeInv, ServerGone
  PROVE  LifeInv'
<1> USE PipelineFacts
<1>1. rec' = NoRecord /\ \A t \in Tasks : pc'[t] \notin LivePcs
  BY DEF ServerGone, Live, LivePcs, SyncPcs, AwaitPcs
<1>2. child' \in [Tasks -> {"none", "running", "ok", "bad"}]
  BY DEF ServerGone
<1>3. TypeOK'
  <2>1. 1 \in Steps /\ "done" \in Pcs
    BY DEF Pcs
  <2>2. pc' \in [Tasks -> Pcs]
    BY <2>1 DEF ServerGone, LifeInv, TypeOK
  <2> QED
    BY <1>2, <2>1, <2>2 DEF ServerGone, LifeInv, TypeOK
<1>4. /\ OneDriver' /\ PipelineShape' /\ DeadServerHasNoTask' /\ CreatedFindsIdle'
      /\ NotifiedIsEnded' /\ RunInRange' /\ InFlightHasDriver' /\ OutcomeSurvivesRestart'
  BY <1>1
  DEF OneDriver, PipelineShape, DeadServerHasNoTask, CreatedFindsIdle, NotifiedIsEnded,
      RunInRange, InFlightHasDriver, OutcomeSurvivesRestart, AnyLive, Live, LivePcs,
      InPipeline, SyncPcs, AwaitPcs, RUNNING_STATES, TERMINAL_STATES, NoRecord
<1> QED
  BY <1>3, <1>4 DEF LifeInv

(* _load of the next server: no task, and no record left in flight. *)
LEMMA RestartKeeps ==
  ASSUME LifeInv, Restart
  PROVE  LifeInv'
<1> USE PipelineFacts
<1>1. rec' = Reconcile(disk) /\ UNCHANGED <<disk, failures, missed, taskVars>>
  BY DEF Restart, Save
<1>2. \A t \in Tasks : pc'[t] = pc[t] /\ pc[t] \notin LivePcs
  BY <1>1 DEF Restart, LifeInv, DeadServerHasNoTask, Alive, AnyLive, Live, taskVars
<1>3. rec' \in Records \cup {NoRecord} /\ rec'.state \notin RUNNING_STATES
  BY <1>1, ReconcileFacts DEF LifeInv, TypeOK
<1>4. TypeOK'
  BY <1>1, <1>3 DEF Restart, LifeInv, TypeOK, taskVars
<1>5. /\ OneDriver' /\ PipelineShape' /\ DeadServerHasNoTask' /\ CreatedFindsIdle'
      /\ NotifiedIsEnded' /\ RunInRange' /\ InFlightHasDriver'
  BY <1>2, <1>3
  DEF OneDriver, PipelineShape, DeadServerHasNoTask, CreatedFindsIdle, NotifiedIsEnded,
      RunInRange, InFlightHasDriver, AnyLive, Live, LivePcs, InPipeline, SyncPcs, AwaitPcs
<1>6. OutcomeSurvivesRestart'
  BY <1>1 DEF OutcomeSurvivesRestart, Reconcile
<1> QED
  BY <1>4, <1>5, <1>6 DEF LifeInv

(* LifeInv is inductive: one case per group of actions. *)
LEMMA NextKeepsLifeInv == LifeInv /\ [Next]_lifeVars => LifeInv'
<1> SUFFICES ASSUME LifeInv, [Next]_lifeVars PROVE LifeInv'
  OBVIOUS
<1> USE PipelineFacts
<1>1. CASE \E t \in Tasks : TaskStep(t)
  BY <1>1, TaskStepKeeps
<1>2. CASE \E t \in Tasks : ChildExits(t)
  <2>1. TypeOK' /\ UNCHANGED <<rec, disk, missed, pc, idx, start, registered, hostVars>>
    BY <1>2 DEF ChildExits, LifeInv, TypeOK, hostVars, storeVars
  <2>2. Alive' \/ ~AnyLive
    BY <2>1 DEF LifeInv, DeadServerHasNoTask, Alive, hostVars
  <2> QED
    BY <2>1, <2>2, AsideKeeps
<1>3. CASE Route
  BY <1>3, RouteKeeps
<1>4. CASE Flush
  <2>1. TypeOK' /\ Alive'
    BY <1>4 DEF Flush, LifeInv, TypeOK, taskVars, hostVars, Alive
  <2> QED
    BY <1>4, <2>1, AsideKeeps DEF Flush, taskVars
<1>5. CASE Shutdown
  <2>1. TypeOK' /\ Alive'
    BY <1>5 DEF Shutdown, LifeInv, TypeOK, Alive, Live, storeVars
  <2> QED
    BY <1>5, <2>1, AsideKeeps DEF Shutdown, storeVars
<1>6. CASE ShutdownCancelsAgain
  <2>1. TypeOK' /\ Alive'
    BY <1>6 DEF ShutdownCancelsAgain, LifeInv, TypeOK, Alive, hostVars, storeVars
  <2> QED
    BY <1>6, <2>1, AsideKeeps DEF ShutdownCancelsAgain, storeVars
<1>7. CASE ShutdownFlush
  <2>a. failures' \in 0..MaxFailures
    BY <1>7 DEF ShutdownFlush, LifeInv, TypeOK
  <2>1. TypeOK' /\ ~AnyLive /\ (disk' = rec \/ UNCHANGED <<disk, missed>>)
    BY <1>7, <2>a DEF ShutdownFlush, LifeInv, TypeOK, taskVars
  <2> QED
    BY <1>7, <2>1, AsideKeeps DEF ShutdownFlush, taskVars
<1>8. CASE Exit \/ Crash
  BY <1>8, ServerGoneKeeps DEF Exit, Crash
<1>9. CASE Restart
  BY <1>9, RestartKeeps
<1>10. CASE UNCHANGED lifeVars
  <2>1. TypeOK' /\ UNCHANGED <<rec, disk, missed, pc, idx, start, registered, server>>
    BY <1>10 DEF lifeVars, LifeInv, TypeOK
  <2>2. Alive' \/ ~AnyLive
    BY <2>1 DEF LifeInv, DeadServerHasNoTask, Alive
  <2> QED
    BY <2>1, <2>2, AsideKeeps
<1> QED
  BY <1>1, <1>2, <1>3, <1>4, <1>5, <1>6, <1>7, <1>8, <1>9, <1>10 DEF Next

-----------------------------------------------------------------------------
(* The invariant holds in every behaviour of the lifecycle. *)
THEOREM LifeInvHolds == Spec => []LifeInv
  BY InitLifeInv, NextKeepsLifeInv, PTL DEF Spec

(* The variables stay in their domains: in particular no run leaves its    *)
(* pipeline, and no record a reconciliation produced is malformed.         *)
THEOREM LifecycleTypeOK == Spec => []TypeOK
<1>1. LifeInv => TypeOK
  BY DEF LifeInv
<1> QED
  BY <1>1, LifeInvHolds, PTL

(* At most one coroutine drives an install, the one _INSTALL_TASKS names,  *)
(* however creations, cancels, retries, skips and restarts interleave.     *)
THEOREM OneDriverAtATime == Spec => []OneDriver
<1>1. LifeInv => OneDriver
  BY DEF LifeInv
<1> QED
  BY <1>1, LifeInvHolds, PTL

(* A record in a running state always has a live task behind it, so the    *)
(* routes that refuse such a record never refuse it for ever.              *)
THEOREM NoInstallIsStranded == Spec => []InFlightHasDriver
<1>1. LifeInv => InFlightHasDriver
  BY DEF LifeInv
<1> QED
  BY <1>1, LifeInvHolds, PTL

(* What the UI draws of a run, successes up to the current step and        *)
(* pending after it, holds for every pipeline and however often and        *)
(* wherever the install was resumed.                                       *)
THEOREM RunsKeepTheirShape == Spec => []PipelineShape
<1>1. LifeInv => PipelineShape
  BY DEF LifeInv
<1> QED
  BY <1>1, LifeInvHolds, PTL

(* A terminal state is never lost, nor invented, by a crash and restart.   *)
THEOREM OutcomesAreDurable == Spec => []OutcomeSurvivesRestart
<1>1. LifeInv => OutcomeSurvivesRestart
  BY DEF LifeInv
<1> QED
  BY <1>1, LifeInvHolds, PTL

-----------------------------------------------------------------------------
(* The requests beside it *)

(* A pipeline leads through proper states, and only a running one is left  *)
(* to a task to move on.                                                   *)
LEMMA StateFacts ==
  /\ RUNNING_STATES \cap TERMINAL_STATES = {}
  /\ RUNNING_STATES \subseteq States /\ TERMINAL_STATES \subseteq States
  /\ "none" \notin States
  /\ NoRecord.state = "none"
  /\ {"INSPECTING", "READY_TO_INSTALL"} \subseteq RUNNING_STATES
  /\ {"READY", "FAILED", "STOPPED", "CLEANED"} \subseteq TERMINAL_STATES
  /\ {"DRAFT", "none"} \cap (RUNNING_STATES \cup TERMINAL_STATES) = {}
  BY DEF RUNNING_STATES, TERMINAL_STATES, States, NoRecord

(* A step that leaves the coroutines alone and moves the record, if at     *)
(* all, to a state nobody has to leave.                                    *)
LEMMA SharedAside ==
  ASSUME SharedInv, TypeOK', UNCHANGED <<pc, registered>>, Alive' \/ ~AnyLive,
         rec'.state = rec.state \/ rec'.state \notin RUNNING_STATES,
         OutcomeSurvivesRestart'
  PROVE  SharedInv'
<1>1. /\ \A u \in Tasks : pc'[u] = pc[u] /\ Live(u)' = Live(u)
      /\ AnyLive' = AnyLive
  BY DEF Live, AnyLive
<1>2. OneDriver' /\ DeadServerHasNoTask'
  BY <1>1 DEF SharedInv, OneDriver, DeadServerHasNoTask
<1>3. InFlightHasDriver' /\ IdleAtTheEnds'
  BY <1>1 DEF SharedInv, InFlightHasDriver, IdleAtTheEnds
<1> QED
  BY <1>2, <1>3 DEF SharedInv

(* A run that moves on inside its pipeline is the only task, and answers   *)
(* for the state it puts the record in.                                    *)
LEMMA SharedMoves ==
  ASSUME SharedInv, NEW t \in Tasks, Live(t), Alive, TypeOK',
         NEW place \in InPipeline, Goto(t, place),
         registered' = registered, UNCHANGED hostVars,
         place \in {"notifyReady", "notifyCrash"} => rec'.state \notin RUNNING_STATES,
         OutcomeSurvivesRestart'
  PROVE  SharedInv'
<1>1. \A u \in Tasks : u # t => ~Live(u)
  BY SoleDriver DEF SharedInv
<1>2. /\ pc'[t] = place
      /\ \A u \in Tasks : u # t => pc'[u] \notin LivePcs
  BY <1>1 DEF SharedInv, TypeOK, Goto, Live
<1>3. place \in LivePcs /\ place # "created"
  BY DEF InPipeline, LivePcs, SyncPcs, AwaitPcs
<1>4. OneDriver'
  BY <1>2 DEF SharedInv, OneDriver, Live
<1>5. InFlightHasDriver'
  BY <1>2, <1>3 DEF InFlightHasDriver, Live
<1>6. DeadServerHasNoTask'
  BY DEF DeadServerHasNoTask, Alive, hostVars
<1>7. IdleAtTheEnds'
  BY <1>2, <1>3 DEF IdleAtTheEnds, LivePcs, AwaitPcs
<1> QED
  BY <1>4, <1>5, <1>6, <1>7 DEF SharedInv

(* A task whose coroutine is over leaves a record nobody has to move on.   *)
LEMMA SharedOver ==
  ASSUME SharedInv, NEW t \in Tasks, Live(t), Over(t),
         registered' \in {0, registered},
         rec' \in Records \cup {NoRecord}, disk' \in Records \cup {NoRecord},
         failures' \in 0..MaxFailures, missed' \in BOOLEAN,
         rec'.state \notin RUNNING_STATES,
         OutcomeSurvivesRestart', UNCHANGED <<child, hostVars>>
  PROVE  SharedInv'
<1> USE PipelineFacts
<1>1. \A u \in Tasks : u # t => ~Live(u)
  BY SoleDriver DEF SharedInv
<1>2. TypeOK'
  BY DEF SharedInv, TypeOK, Over, Goto, Pcs, hostVars
<1>3. \A u \in Tasks : pc'[u] \notin LivePcs
  BY <1>1 DEF SharedInv, TypeOK, Over, Goto, Live, LivePcs, SyncPcs, AwaitPcs
<1>4. ~AnyLive' /\ OneDriver'
  BY <1>3 DEF OneDriver, AnyLive, Live
<1>5. DeadServerHasNoTask' /\ IdleAtTheEnds' /\ InFlightHasDriver'
  BY <1>4 DEF DeadServerHasNoTask, IdleAtTheEnds, InFlightHasDriver
<1> QED
  BY <1>2, <1>4, <1>5 DEF SharedInv

(* A forced change of the state by a run that stays in its pipeline. *)
LEMMA SharedForcedMoves ==
  ASSUME SharedInv, NEW t \in Tasks, Live(t), Alive,
         NEW state \in TERMINAL_STATES,
         SaveNow(WithState(state)) \/ SaveRaises(WithState(state)),
         NEW place \in InPipeline, Goto(t, place),
         cancelled' \in [Tasks -> BOOLEAN],
         UNCHANGED <<idx, start, registered, child, hostVars>>
  PROVE  SharedInv'
<1>1. rec \in Records \cup {NoRecord} /\ state \in States /\ TypeOK
  BY StateFacts DEF SharedInv, TypeOK
<1>2. /\ WithState(state) \in Records \cup {NoRecord}
      /\ WithState(state).state \in {state, "none"}
  BY <1>1, WithStateFacts, StateFacts
<1>3. /\ rec' = WithState(state) /\ disk' \in Records \cup {NoRecord}
      /\ failures' \in 0..MaxFailures /\ missed' \in BOOLEAN
      /\ OutcomeSurvivesRestart'
  BY <1>1, <1>2, ForcedFacts
<1>4. place \in Pcs
  BY DEF InPipeline, LivePcs, Pcs
<1>5. TypeOK'
  BY <1>2, <1>3, <1>4 DEF SharedInv, TypeOK, Goto, hostVars
<1>6. rec'.state \notin RUNNING_STATES
  BY <1>2, <1>3, StateFacts
<1> QED
  BY <1>3, <1>5, <1>6, SharedMoves DEF hostVars

(* A run that ends with its record FAILED and saved. *)
LEMMA SharedFailed ==
  ASSUME SharedInv, NEW t \in Tasks, Live(t), SaveNow(WithState("FAILED")), End(t),
         UNCHANGED <<child, hostVars>>
  PROVE  SharedInv'
<1>1. rec \in Records \cup {NoRecord} /\ "FAILED" \in States /\ TypeOK
  BY StateFacts DEF SharedInv, TypeOK
<1>2. /\ WithState("FAILED") \in Records \cup {NoRecord}
      /\ WithState("FAILED").state \in {"FAILED", "none"}
  BY <1>1, WithStateFacts, StateFacts
<1>3. /\ rec' = WithState("FAILED") /\ disk' \in Records \cup {NoRecord}
      /\ failures' \in 0..MaxFailures /\ missed' \in BOOLEAN
      /\ OutcomeSurvivesRestart'
  BY <1>1, <1>2, ForcedFacts
<1>4. rec' \in Records \cup {NoRecord} /\ rec'.state \notin RUNNING_STATES
  BY <1>2, <1>3, StateFacts
<1>5. Over(t) /\ registered' = 0
  BY DEF End
<1> QED
  BY <1>3, <1>4, <1>5, SharedOver

(* A forced write of a run raises. *)
LEMMA SharedRaises ==
  ASSUME SharedInv, NEW t \in Tasks, Live(t), Alive, NEW state \in TERMINAL_STATES,
         Raises(t, state), UNCHANGED <<child, hostVars>>
  PROVE  SharedInv'
<1>1. "raised" \in InPipeline
  BY DEF InPipeline, SyncPcs
<1>2. SaveRaises(WithState(state)) /\ Goto(t, "raised")
      /\ UNCHANGED <<idx, start, cancelled, registered>>
  BY DEF Raises
<1>3. cancelled' \in [Tasks -> BOOLEAN]
  BY <1>2 DEF SharedInv, TypeOK
<1> QED
  BY <1>1, <1>2, <1>3, SharedForcedMoves

(* A run that fails, whether the write of it raises or not. *)
LEMMA SharedFail ==
  ASSUME SharedInv, NEW t \in Tasks, Live(t), Alive, Fail(t), UNCHANGED <<child, hostVars>>
  PROVE  SharedInv'
<1>1. CASE SaveNow(WithState("FAILED")) /\ End(t)
  BY <1>1, SharedFailed
<1>2. CASE /\ SaveRaises(WithState("FAILED")) /\ Goto(t, "notifyCrash")
           /\ cancelled' = [cancelled EXCEPT ![t] = FALSE]
           /\ UNCHANGED <<idx, start, registered>>
  <2>1. "notifyCrash" \in InPipeline /\ "FAILED" \in TERMINAL_STATES
    BY DEF InPipeline, AwaitPcs, TERMINAL_STATES
  <2>2. cancelled' \in [Tasks -> BOOLEAN]
    BY <1>2 DEF SharedInv, TypeOK
  <2> QED
    BY <1>2, <2>1, <2>2, SharedForcedMoves
<1> QED
  BY <1>1, <1>2 DEF Fail

(* _step_end. *)
LEMMA SharedEndStep ==
  ASSUME SharedInv, NEW t \in Tasks, Live(t), Alive, NEW ok \in BOOLEAN, EndStep(t, ok),
         cancelled' \in [Tasks -> BOOLEAN],
         child' \in [Tasks -> {"none", "running", "ok", "bad"}],
         UNCHANGED <<idx, start, registered, hostVars>>
  PROVE  SharedInv'
<1> DEFINE status == IF ok THEN "success" ELSE "failed"
           place  == IF ok THEN "ok" ELSE "bad"
<1>1. /\ status \in StepStatuses /\ place \in InPipeline /\ place \in Pcs
      /\ place # "notifyReady" /\ place # "notifyCrash"
  BY DEF StepStatuses, InPipeline, SyncPcs, Pcs, LivePcs
<1>2. rec' = WithStep(idx[t], status) /\ Goto(t, place)
      /\ UNCHANGED <<disk, failures, missed>>
  BY DEF EndStep, Save
<1> HIDE DEF status, place
<1>3. rec \in Records \cup {NoRecord} /\ idx[t] \in Steps
  BY DEF SharedInv, TypeOK
<1>4. rec' \in Records \cup {NoRecord} /\ rec'.state = rec.state
  BY <1>1, <1>2, <1>3, WithStepFacts
<1>5. TypeOK'
  BY <1>1, <1>2, <1>4 DEF SharedInv, TypeOK, Goto, hostVars
<1>6. OutcomeSurvivesRestart'
  BY <1>2, <1>4, UnmovedSurvives DEF SharedInv
<1> QED
  BY <1>1, <1>2, <1>5, <1>6, SharedMoves DEF hostVars

-----------------------------------------------------------------------------
(* The steps of a task, with requests about. *)
LEMMA SharedTaskStep ==
  ASSUME SharedInv, NEW t \in Tasks, TaskStep(t)
  PROVE  SharedInv'
<1> USE PipelineFacts
<1>0. Alive
  BY DEF TaskStep, RunBegin, ReadyToInstall, EnterStep, EndInProcess, Raise, Spawn,
         ChildReturned, ChildTimeout, Advance, Complete, SmokeFailed, StepFailed,
         Notified, DeliverCancel, Drained
<1>a. InPipeline \subseteq Pcs /\ InPipeline = SyncPcs \cup AwaitPcs
  BY DEF InPipeline, LivePcs, Pcs
<1>b. rec \in Records \cup {NoRecord} /\ idx[t] \in Steps
  BY DEF SharedInv, TypeOK
<1>c. Live(t)
  BY DEF TaskStep, RunBegin, ReadyToInstall, EnterStep, EndInProcess, Raise, Spawn,
         ChildReturned, ChildTimeout, Advance, Complete, SmokeFailed, StepFailed,
         Notified, DeliverCancel, Drained, Live, LivePcs, SyncPcs, AwaitPcs
<1>1. CASE RunBegin(t)
  <2>1. CASE start[t] = 0 \/ rec = NoRecord
    <3>1. /\ Over(t) /\ registered' = 0 /\ UNCHANGED <<rec, disk, failures, missed>>
          /\ pc[t] = "created" /\ UNCHANGED <<child, hostVars>>
      BY <1>1, <2>1 DEF RunBegin, End, storeVars
    <3>2. rec'.state \notin RUNNING_STATES
      BY <3>1 DEF SharedInv, IdleAtTheEnds
    <3>3. OutcomeSurvivesRestart'
      BY <3>1, UnmovedSurvives DEF SharedInv
    <3>4. /\ rec' \in Records \cup {NoRecord} /\ disk' \in Records \cup {NoRecord}
          /\ failures' \in 0..MaxFailures /\ missed' \in BOOLEAN
      BY <3>1 DEF SharedInv, TypeOK
    <3> QED
      BY <3>1, <3>2, <3>3, <3>4, <1>c, SharedOver
  <2>2. CASE ~(start[t] = 0 \/ rec = NoRecord)
    <3> DEFINE fresh == [state |-> "INSPECTING",
                         steps |-> [k \in Steps |->
                           IF k >= start[t] THEN "pending" ELSE rec.steps[k]]]
    <3>1. /\ rec' = fresh /\ UNCHANGED <<disk, failures, missed>> /\ Goto(t, "inspected")
          /\ idx' = [idx EXCEPT ![t] = start[t]]
          /\ UNCHANGED <<start, registered, cancelled, child, hostVars>>
      BY <1>1, <2>2 DEF RunBegin, Save
    <3>2. rec \in Records /\ start[t] \in Steps
      BY <2>2 DEF SharedInv, TypeOK
    <3>3. fresh.steps \in [Steps -> StepStatuses]
      BY <3>2 DEF Records, StepStatuses
    <3>4. fresh \in Records /\ fresh.state = "INSPECTING"
      BY <3>3, StateFacts DEF Records
    <3>5. TypeOK'
      BY <3>1, <3>2, <3>4, <1>a DEF SharedInv, TypeOK, Goto, hostVars, SyncPcs
    <3>6. OutcomeSurvivesRestart'
      BY <3>1, <3>4, StateFacts, NotTerminal
    <3> QED
      BY <3>1, <3>5, <3>6, <1>0, <1>a, <1>c, SharedMoves DEF SyncPcs, hostVars
  <2> QED
    BY <2>1, <2>2
<1>2. CASE ReadyToInstall(t)
  <2>1. /\ rec' = WithState("READY_TO_INSTALL") /\ UNCHANGED <<disk, failures, missed>> /\ Goto(t, "enter")
        /\ UNCHANGED <<idx, start, cancelled, child, registered, hostVars>>
    BY <1>2 DEF ReadyToInstall, Save
  <2>2. rec' \in Records \cup {NoRecord} /\ rec'.state \in {"READY_TO_INSTALL", "none"}
    BY <2>1, <1>b, WithStateFacts, StateFacts
  <2>3. TypeOK'
    BY <2>1, <2>2, <1>a DEF SharedInv, TypeOK, Goto, hostVars, SyncPcs
  <2>4. OutcomeSurvivesRestart'
    BY <2>2, StateFacts, NotTerminal
  <2> QED
    BY <2>1, <2>3, <2>4, <1>0, <1>a, <1>c, SharedMoves DEF SyncPcs, hostVars
<1>3. CASE EnterStep(t)
  <2> DEFINE entry == EntryState[idx[t]]
             entered == [rec EXCEPT !.state = IF entry = "READY" THEN @ ELSE entry,
                                    !.steps[idx[t]] = "running"]
  <2>1. /\ rec' = IF rec = NoRecord THEN rec ELSE entered
        /\ UNCHANGED <<disk, failures, missed>> /\ Goto(t, "step")
        /\ UNCHANGED <<idx, start, cancelled, child, registered, hostVars>>
    BY <1>3 DEF EnterStep, Save
  <2>2. rec' \in Records \cup {NoRecord}
        /\ (rec'.state = rec.state \/ rec'.state \notin TERMINAL_STATES)
    <3>1. CASE rec = NoRecord
      BY <2>1, <3>1
    <3>2. CASE rec # NoRecord
      <4>1. rec \in Records /\ rec' = entered
        BY <1>b, <2>1, <3>2
      <4>2. entry \in States /\ (entry # "READY" => entry \in RUNNING_STATES)
        BY <1>b, StateFacts
      <4>3. "running" \in StepStatuses
        BY DEF StepStatuses
      <4>4. entered \in Records /\ entered.state \in {rec.state, entry}
            /\ (entry = "READY" => entered.state = rec.state)
        BY <1>b, <4>1, <4>2, <4>3 DEF Records
      <4> QED
        BY <4>1, <4>2, <4>4, StateFacts
    <3> QED
      BY <3>1, <3>2
  <2> HIDE DEF entered, entry
  <2>3. TypeOK'
    BY <2>1, <2>2, <1>a DEF SharedInv, TypeOK, Goto, hostVars, SyncPcs
  <2>4. OutcomeSurvivesRestart'
    BY <2>1, <2>2, NotTerminal, UnmovedSurvives DEF SharedInv
  <2> QED
    BY <2>1, <2>3, <2>4, <1>0, <1>a, <1>c, SharedMoves DEF SyncPcs, hostVars
<1>4. CASE EndInProcess(t)
  <2>1. /\ \E ok \in BOOLEAN : EndStep(t, ok)
        /\ UNCHANGED <<idx, start, cancelled, child, registered, hostVars>>
    BY <1>4 DEF EndInProcess
  <2> QED
    BY <2>1, <1>0, <1>c, SharedEndStep DEF SharedInv, TypeOK
<1>5. CASE Raise(t)
  BY <1>5, <1>0, <1>c, SharedFail DEF Raise
<1>6. CASE Spawn(t)
  <2>1. TypeOK'
    BY <1>6, <1>a DEF Spawn, storeVars, SharedInv, TypeOK, Goto, hostVars, AwaitPcs
  <2>2. OutcomeSurvivesRestart'
    BY <1>6, UnmovedSurvives DEF Spawn, storeVars, SharedInv
  <2> QED
    BY <1>6, <2>1, <2>2, <1>0, <1>a, <1>c, SharedMoves DEF Spawn, storeVars, AwaitPcs, hostVars
<1>7. CASE ChildReturned(t)
  <2>1. /\ EndStep(t, child[t] = "ok")
        /\ child' \in [Tasks -> {"none", "running", "ok", "bad"}]
        /\ cancelled' \in [Tasks -> BOOLEAN]
        /\ UNCHANGED <<idx, start, registered, hostVars>>
    BY <1>7 DEF ChildReturned, SharedInv, TypeOK
  <2>2. (child[t] = "ok") \in BOOLEAN
    OBVIOUS
  <2> QED
    BY <2>1, <2>2, <1>0, <1>c, SharedEndStep
<1>8. CASE ChildTimeout(t)
  <2>1. /\ EndStep(t, FALSE)
        /\ child' \in [Tasks -> {"none", "running", "ok", "bad"}]
        /\ cancelled' \in [Tasks -> BOOLEAN]
        /\ UNCHANGED <<idx, start, registered, hostVars>>
    BY <1>8 DEF ChildTimeout, SharedInv, TypeOK
  <2> QED
    BY <2>1, <1>0, <1>c, SharedEndStep
<1>9. CASE Advance(t)
  <2>1. /\ UNCHANGED <<rec, disk, failures, missed>> /\ Goto(t, "enter")
        /\ UNCHANGED <<start, cancelled, child, registered, hostVars>>
        /\ idx' = [idx EXCEPT ![t] = idx[t] + 1]
    BY <1>9 DEF Advance, storeVars
  <2>2. idx[t] + 1 \in Steps
    BY <1>9, <1>b DEF Advance
  <2>3. TypeOK'
    BY <2>1, <2>2, <1>a DEF SharedInv, TypeOK, Goto, hostVars, SyncPcs
  <2>4. OutcomeSurvivesRestart'
    BY <2>1, UnmovedSurvives DEF SharedInv
  <2> QED
    BY <2>1, <2>3, <2>4, <1>0, <1>a, <1>c, SharedMoves DEF SyncPcs, hostVars
<1>10. CASE Complete(t)
  <2>1. "notifyReady" \in InPipeline /\ "READY" \in TERMINAL_STATES
        /\ UNCHANGED <<child, hostVars>>
    BY <1>10 DEF Complete, InPipeline, AwaitPcs, TERMINAL_STATES
  <2>2. CASE /\ SaveNow(WithState("READY")) /\ Goto(t, "notifyReady")
             /\ UNCHANGED <<idx, start, cancelled, registered>>
    <3>1. cancelled' \in [Tasks -> BOOLEAN]
      BY <2>2 DEF SharedInv, TypeOK
    <3> QED
      BY <2>1, <2>2, <3>1, <1>0, <1>c, SharedForcedMoves
  <2>3. CASE Raises(t, "READY")
    BY <2>1, <2>3, <1>0, <1>c, SharedRaises
  <2> QED
    BY <1>10, <2>2, <2>3 DEF Complete
<1>11. CASE SmokeFailed(t)
  <2>1. TypeOK'
    BY <1>11, <1>a DEF SmokeFailed, storeVars, SharedInv, TypeOK, Goto, hostVars, AwaitPcs
  <2>2. OutcomeSurvivesRestart'
    BY <1>11, UnmovedSurvives DEF SmokeFailed, storeVars, SharedInv
  <2> QED
    BY <1>11, <2>1, <2>2, <1>0, <1>a, <1>c, SharedMoves DEF SmokeFailed, storeVars, AwaitPcs, hostVars
<1>12. CASE StepFailed(t)
  <2>1. "FAILED" \in TERMINAL_STATES /\ UNCHANGED <<child, hostVars>>
    BY <1>12 DEF StepFailed, TERMINAL_STATES
  <2>2. CASE SaveNow(WithState("FAILED")) /\ End(t)
    BY <2>1, <2>2, <1>c, SharedFailed
  <2>3. CASE Raises(t, "FAILED")
    BY <2>1, <2>3, <1>0, <1>c, SharedRaises
  <2> QED
    BY <1>12, <2>2, <2>3 DEF StepFailed
<1>13. CASE Notified(t)
  <2>1. Over(t) /\ registered' = 0 /\ UNCHANGED <<rec, disk, failures, missed, child, hostVars>>
        /\ pc[t] \in {"notifyReady", "notifyCrash"}
    BY <1>13 DEF Notified, End, storeVars
  <2>2. rec'.state \notin RUNNING_STATES
    BY <2>1 DEF SharedInv, IdleAtTheEnds
  <2>3. OutcomeSurvivesRestart'
    BY <2>1, UnmovedSurvives DEF SharedInv
  <2>4. /\ rec' \in Records \cup {NoRecord} /\ disk' \in Records \cup {NoRecord}
        /\ failures' \in 0..MaxFailures /\ missed' \in BOOLEAN
    BY <2>1 DEF SharedInv, TypeOK
  <2> QED
    BY <2>1, <2>2, <2>3, <2>4, <1>c, SharedOver
<1>14. CASE DeliverCancel(t)
  <2>1. CASE pc[t] = "created" /\ Over(t) /\ UNCHANGED <<storeVars, registered>>
    <3>1. rec'.state \notin RUNNING_STATES
      BY <2>1 DEF SharedInv, IdleAtTheEnds, storeVars
    <3>2. OutcomeSurvivesRestart'
      BY <2>1, UnmovedSurvives DEF SharedInv, storeVars
    <3>3. /\ rec' \in Records \cup {NoRecord} /\ disk' \in Records \cup {NoRecord}
          /\ failures' \in 0..MaxFailures /\ missed' \in BOOLEAN
      BY <2>1 DEF SharedInv, TypeOK, storeVars
    <3> QED
      BY <1>14, <2>1, <3>1, <3>2, <3>3, <1>c, SharedOver DEF DeliverCancel
  <2>2. CASE /\ pc[t] = "child" /\ Goto(t, "drain")
             /\ cancelled' = [cancelled EXCEPT ![t] = FALSE]
             /\ UNCHANGED <<storeVars, idx, start, registered>>
    <3>1. UNCHANGED <<child, hostVars>>
      BY <1>14 DEF DeliverCancel
    <3>2. TypeOK'
      BY <2>2, <3>1, <1>a DEF SharedInv, TypeOK, Goto, hostVars, storeVars, AwaitPcs
    <3>3. OutcomeSurvivesRestart'
      BY <2>2, UnmovedSurvives DEF SharedInv, storeVars
    <3> QED
      BY <2>2, <3>1, <3>2, <3>3, <1>0, <1>a, <1>c, SharedMoves DEF AwaitPcs, hostVars
  <2>3. CASE pc[t] \in {"drain", "notifySmoke", "notifyReady"} /\ Fail(t)
    BY <1>14, <2>3, <1>0, <1>c, SharedFail DEF DeliverCancel
  <2>4. CASE pc[t] = "notifyCrash" /\ End(t) /\ UNCHANGED storeVars
    <3>1. Over(t) /\ registered' = 0 /\ UNCHANGED <<rec, disk, failures, missed>>
      BY <2>4 DEF End, storeVars
    <3>2. rec'.state \notin RUNNING_STATES
      BY <2>4, <3>1 DEF SharedInv, IdleAtTheEnds
    <3>3. OutcomeSurvivesRestart'
      BY <3>1, UnmovedSurvives DEF SharedInv
    <3>4. /\ rec' \in Records \cup {NoRecord} /\ disk' \in Records \cup {NoRecord}
          /\ failures' \in 0..MaxFailures /\ missed' \in BOOLEAN
      BY <3>1 DEF SharedInv, TypeOK
    <3> QED
      BY <1>14, <3>1, <3>2, <3>3, <3>4, <1>c, SharedOver DEF DeliverCancel
  <2> QED
    BY <1>14, <2>1, <2>2, <2>3, <2>4 DEF DeliverCancel
<1>15. CASE Drained(t)
  BY <1>15, <1>0, <1>c, SharedFail DEF Drained
<1> QED
  BY <1>1, <1>2, <1>3, <1>4, <1>5, <1>6, <1>7, <1>8, <1>9, <1>10, <1>11, <1>12,
     <1>13, <1>14, <1>15 DEF TaskStep

-----------------------------------------------------------------------------
(* A new task finds no other, and a record that is idle. *)
LEMMA SharedCreateTask ==
  ASSUME SharedInv, ~AnyLive, server = "up", NEW k \in {0} \cup Steps, CreateTask(k),
         rec' \in Records \cup {NoRecord}, UNCHANGED <<disk, failures, missed>>,
         rec'.state \in {"DRAFT", "FAILED"}, UNCHANGED hostVars,
         OutcomeSurvivesRestart'
  PROVE  SharedInv'
<1>1. PICK t \in Tasks :
        /\ pc[t] = "unused" /\ Goto(t, "created") /\ start' = [start EXCEPT ![t] = k]
        /\ registered' = t /\ UNCHANGED <<idx, cancelled, child>>
  BY DEF CreateTask
<1>2. /\ pc'[t] = "created"
      /\ \A u \in Tasks : u # t => pc'[u] \notin LivePcs
  BY <1>1 DEF SharedInv, TypeOK, Goto, AnyLive, Live
<1>3. TypeOK'
  BY <1>1 DEF SharedInv, TypeOK, Goto, hostVars, Pcs, LivePcs
<1>4. OneDriver'
  BY <1>1, <1>2 DEF OneDriver, Live
<1>5. rec'.state \notin RUNNING_STATES
  BY StateFacts
<1>6. InFlightHasDriver' /\ IdleAtTheEnds' /\ DeadServerHasNoTask'
  BY <1>5 DEF InFlightHasDriver, IdleAtTheEnds, DeadServerHasNoTask, Alive, hostVars
<1> QED
  BY <1>3, <1>4, <1>6 DEF SharedInv

(* The routes that create, cancel and resume. *)
LEMMA SharedRoute ==
  ASSUME SharedInv, Route
  PROVE  SharedInv'
<1> USE PipelineFacts
<1>1. CASE CreateInstall
  <2> DEFINE draft == [state |-> "DRAFT", steps |-> [k \in Steps |-> "pending"]]
  <2>1. draft \in Records /\ draft.state = "DRAFT"
    BY DEF Records, States, StepStatuses
  <2>2. ~AnyLive
    BY <1>1 DEF CreateInstall, AnyLive, Live, LivePcs, SyncPcs, AwaitPcs
  <2>3. rec' = draft /\ UNCHANGED <<disk, failures, missed>> /\ server = "up" /\ CreateTask(1) /\ UNCHANGED hostVars
    BY <1>1 DEF CreateInstall, Save
  <2> HIDE DEF draft
  <2>4. OutcomeSurvivesRestart'
    BY <2>1, <2>3, NotTerminal, StateFacts
  <2>5. 1 \in Steps
    OBVIOUS
  <2> QED
    BY <2>1, <2>2, <2>3, <2>4, <2>5, SharedCreateTask
<1>2. CASE CancelInstall
  <2>1. TypeOK' /\ Alive' /\ UNCHANGED <<rec, disk, missed, pc, registered>>
    BY <1>2 DEF CancelInstall, SharedInv, TypeOK, hostVars, storeVars, Alive
  <2>2. OutcomeSurvivesRestart'
    BY <2>1, UnmovedSurvives DEF SharedInv
  <2> QED
    BY <2>1, <2>2, SharedAside
<1>3. ASSUME NEW k \in {0} \cup Steps, Retry(k)
      PROVE  SharedInv'
  <2>1. ~AnyLive /\ server = "up" /\ rec.state = "FAILED" /\ CreateTask(k)
        /\ UNCHANGED <<rec, disk, failures, missed, hostVars>>
    BY <1>3, NoOtherDriver DEF Retry, MayResume, SharedInv, storeVars
  <2>2. OutcomeSurvivesRestart' /\ rec' \in Records \cup {NoRecord}
    BY <2>1, UnmovedSurvives DEF SharedInv, TypeOK
  <2> QED
    BY <2>1, <2>2, SharedCreateTask
<1>4. ASSUME NEW k \in {0} \cup Steps, Skip(k)
      PROVE  SharedInv'
  <2>1. ~AnyLive /\ server = "up" /\ rec.state = "FAILED" /\ k \in Steps
        /\ rec' = WithStep(k, "skipped") /\ UNCHANGED <<disk, failures, missed, hostVars>>
    BY <1>4, NoOtherDriver DEF Skip, MayResume, SharedInv, Save, SKIPPABLE
  <2>2. rec \in Records \cup {NoRecord} /\ "skipped" \in StepStatuses
    BY DEF SharedInv, TypeOK, StepStatuses
  <2>3. rec' \in Records \cup {NoRecord} /\ rec'.state = "FAILED"
    BY <2>1, <2>2, WithStepFacts
  <2>4. OutcomeSurvivesRestart'
    BY <2>1, <2>3, UnmovedSurvives DEF SharedInv
  <2>5. CASE k + 1 \in Steps /\ CreateTask(k + 1)
    BY <2>1, <2>3, <2>4, <2>5, SharedCreateTask
  <2>6. CASE UNCHANGED taskVars
    <3>1. TypeOK' /\ UNCHANGED <<pc, registered>>
      BY <2>1, <2>3, <2>6 DEF SharedInv, TypeOK, taskVars, hostVars
    <3> QED
      BY <2>1, <2>3, <2>4, <3>1, SharedAside
  <2> QED
    BY <1>4, <2>5, <2>6 DEF Skip
<1> QED
  BY <1>1, <1>2, <1>3, <1>4 DEF Route

(* The loss of the server, and the next one. *)
LEMMA SharedServer ==
  ASSUME SharedInv, ServerGone \/ Restart
  PROVE  SharedInv'
<1> USE PipelineFacts
<1>1. CASE ServerGone
  <2>1. rec' = NoRecord /\ \A t \in Tasks : pc'[t] \notin LivePcs
    BY <1>1 DEF ServerGone, Live, LivePcs, SyncPcs, AwaitPcs
  <2>2. TypeOK'
    <3>1. 1 \in Steps /\ "done" \in Pcs
      BY DEF Pcs
    <3>2. pc' \in [Tasks -> Pcs]
      BY <1>1, <3>1 DEF ServerGone, SharedInv, TypeOK
    <3>3. child' \in [Tasks -> {"none", "running", "ok", "bad"}]
      BY <1>1 DEF ServerGone
    <3> QED
      BY <1>1, <3>1, <3>2, <3>3 DEF ServerGone, SharedInv, TypeOK
  <2>3. ~AnyLive' /\ OneDriver'
    BY <2>1 DEF OneDriver, AnyLive, Live
  <2>4. rec'.state \notin RUNNING_STATES /\ rec'.state \notin TERMINAL_STATES
    BY <2>1, StateFacts
  <2> QED
    BY <2>2, <2>3, <2>4, NotTerminal
    DEF SharedInv, DeadServerHasNoTask, InFlightHasDriver, IdleAtTheEnds
<1>2. CASE Restart
  <2>1. rec' = Reconcile(disk) /\ UNCHANGED <<disk, failures, missed, taskVars>>
    BY <1>2 DEF Restart, Save
  <2>2. disk \in Records \cup {NoRecord} /\ ~AnyLive
    BY <1>2 DEF SharedInv, TypeOK, Restart, DeadServerHasNoTask, Alive
  <2>3. rec' \in Records \cup {NoRecord} /\ rec'.state \notin RUNNING_STATES
    BY <2>1, <2>2, ReconcileFacts
  <2>4. TypeOK'
    BY <1>2, <2>1, <2>3 DEF Restart, SharedInv, TypeOK, taskVars
  <2>5. OutcomeSurvivesRestart'
    BY <2>1 DEF OutcomeSurvivesRestart
  <2> QED
    BY <2>1, <2>2, <2>3, <2>4, <2>5, SharedAside DEF taskVars
<1> QED
  BY <1>1, <1>2

(* Every step of the lifecycle keeps what it shares with the requests. *)
LEMMA NextKeepsSharedInv ==
  ASSUME SharedInv, [Next]_lifeVars
  PROVE  SharedInv'
<1> USE PipelineFacts
<1>1. CASE \E t \in Tasks : TaskStep(t)
  BY <1>1, SharedTaskStep
<1>2. CASE \E t \in Tasks : ChildExits(t)
  <2>1. TypeOK' /\ UNCHANGED <<rec, disk, missed, pc, registered, server>>
    BY <1>2 DEF ChildExits, SharedInv, TypeOK, hostVars, storeVars
  <2>2. Alive' \/ ~AnyLive
    BY <2>1 DEF SharedInv, DeadServerHasNoTask, Alive
  <2> QED
    BY <2>1, <2>2, SharedAside, UnmovedSurvives DEF SharedInv
<1>3. CASE Route
  BY <1>3, SharedRoute
<1>4. CASE Flush
  <2>1. TypeOK' /\ Alive' /\ disk' = rec' /\ UNCHANGED <<rec, pc, registered>>
    BY <1>4 DEF Flush, SharedInv, TypeOK, taskVars, hostVars, Alive
  <2>2. rec' \in Records \cup {NoRecord}
    BY <2>1 DEF TypeOK
  <2> QED
    BY <2>1, <2>2, SharedAside, SavedSurvives
<1>5. CASE Shutdown \/ ShutdownCancelsAgain
  <2>1. TypeOK' /\ Alive' /\ UNCHANGED <<rec, disk, missed, pc, registered>>
    BY <1>5 DEF Shutdown, ShutdownCancelsAgain, SharedInv, TypeOK, Alive, Live, hostVars, storeVars
  <2> QED
    BY <2>1, SharedAside, UnmovedSurvives DEF SharedInv
<1>6. CASE ShutdownFlush
  <2>a. failures' \in 0..MaxFailures
    BY <1>6 DEF ShutdownFlush, SharedInv, TypeOK
  <2>1. TypeOK' /\ ~AnyLive /\ UNCHANGED <<rec, pc, registered>>
        /\ (disk' = rec' \/ UNCHANGED <<disk, missed>>)
    BY <1>6, <2>a DEF ShutdownFlush, SharedInv, TypeOK, taskVars
  <2>2. rec' \in Records \cup {NoRecord}
    BY <2>1 DEF TypeOK
  <2>3. OutcomeSurvivesRestart'
    BY <2>1, <2>2, SavedSurvives, UnmovedSurvives DEF SharedInv
  <2> QED
    BY <2>1, <2>3, SharedAside
<1>7. CASE Exit \/ Crash \/ Restart
  BY <1>7, SharedServer DEF Exit, Crash
<1>8. CASE UNCHANGED lifeVars
  <2>1. TypeOK' /\ UNCHANGED <<rec, disk, missed, pc, registered, server>>
    BY <1>8 DEF lifeVars, SharedInv, TypeOK
  <2>2. Alive' \/ ~AnyLive
    BY <2>1 DEF SharedInv, DeadServerHasNoTask, Alive
  <2> QED
    BY <2>1, <2>2, SharedAside, UnmovedSurvives DEF SharedInv
<1> QED
  BY <1>1, <1>2, <1>3, <1>4, <1>5, <1>6, <1>7, <1>8 DEF Next

(* So does every step of a request: its outcome is one that nobody has to  *)
(* leave, and it is in the file when it is terminal.                       *)
LEMMA OperateKeepsSharedInv ==
  ASSUME SharedInv, Operate
  PROVE  SharedInv'
<1> USE PipelineFacts
<1>1. /\ rec \in Records \cup {NoRecord} /\ Smoke \in Steps
      /\ {"running", "success", "failed"} \subseteq StepStatuses
  BY DEF SharedInv, TypeOK, StepStatuses
<1>2. server = "up" /\ UNCHANGED <<taskVars, hostVars>>
  BY DEF Operate, Begin, MayOperate, Finished, FinishStop, FinishClean, FinishSmoke,
         FinishUninstall, FinishRestore
<1>3. /\ UNCHANGED <<pc, registered>> /\ Alive'
      /\ rec' \in Records \cup {NoRecord} /\ disk' \in Records \cup {NoRecord}
         /\ failures' \in 0..MaxFailures /\ missed' \in BOOLEAN => TypeOK'
  BY <1>2 DEF taskVars, hostVars, Alive, SharedInv, TypeOK
<1>4. ASSUME NEW r \in Records \cup {NoRecord}, r.state \notin RUNNING_STATES, Forced(r)
      PROVE  SharedInv'
  <2>1. /\ rec' = r /\ disk' \in Records \cup {NoRecord}
        /\ failures' \in 0..MaxFailures /\ missed' \in BOOLEAN
        /\ OutcomeSurvivesRestart'
    BY <1>4, ForcedFacts DEF Forced, SharedInv
  <2> QED
    BY <1>3, <1>4, <2>1, SharedAside
<1>5. ASSUME NEW v \in {"running", "success", "failed"}, Save(WithStep(Smoke, v))
      PROVE  SharedInv'
  <2>1. rec' = WithStep(Smoke, v) /\ UNCHANGED <<disk, failures, missed>>
    BY <1>5 DEF Save
  <2>2. rec' \in Records \cup {NoRecord} /\ rec'.state = rec.state
    BY <1>1, <2>1, WithStepFacts
  <2>3. disk' \in Records \cup {NoRecord} /\ failures' \in 0..MaxFailures
        /\ missed' \in BOOLEAN
    BY <2>1 DEF SharedInv, TypeOK
  <2> QED
    BY <1>3, <2>1, <2>2, <2>3, UnmovedSurvives, SharedAside DEF SharedInv
<1>6. ASSUME UNCHANGED storeVars
      PROVE  SharedInv'
  <2>1. UNCHANGED <<rec, disk, failures, missed>>
    BY <1>6 DEF storeVars
  <2>2. rec' \in Records \cup {NoRecord} /\ disk' \in Records \cup {NoRecord}
        /\ failures' \in 0..MaxFailures /\ missed' \in BOOLEAN
    BY <2>1 DEF SharedInv, TypeOK
  <2> QED
    BY <1>3, <2>1, <2>2, UnmovedSurvives, SharedAside DEF SharedInv
<1>7. \A s \in {"STOPPED", "CLEANED", "READY"} :
        /\ WithState(s) \in Records \cup {NoRecord}
        /\ WithState(s).state \notin RUNNING_STATES
  BY <1>1, WithStateFacts, StateFacts
<1>8. \/ \E s \in {"STOPPED", "CLEANED", "READY"} : Forced(WithState(s))
      \/ \E v \in {"running", "success", "failed"} : Save(WithStep(Smoke, v))
      \/ UNCHANGED storeVars
      \/ Forced(NoRecord)
  BY DEF Operate, Begin, Save, FinishStop, FinishClean, FinishSmoke, FinishUninstall,
         FinishRestore, storeVars
<1> QED
  BY <1>4, <1>5, <1>6, <1>7, <1>8, StateFacts

-----------------------------------------------------------------------------
(* The invariant holds whatever requests and runs do to each other. *)
THEOREM OpsInvHolds == OpsSpec => []OpsInv
<1>1. OpsInit => OpsInv
  BY PipelineFacts, InitTypeOK
  DEF OpsInit, OpsInv, OpsTypeOK, SharedInv, Init, OneDriver, InFlightHasDriver,
      OutcomeSurvivesRestart, DeadServerHasNoTask, IdleAtTheEnds, Live, LivePcs, SyncPcs,
      AwaitPcs, Pcs, AnyLive, NoRecord, Records, RUNNING_STATES, TERMINAL_STATES, StepStatuses
<1>2. OpsInv /\ [OpsNext]_opsVars => OpsInv'
  <2> SUFFICES ASSUME OpsInv, [OpsNext]_opsVars PROVE OpsInv'
    OBVIOUS
  <2>1. CASE Lifecycle
    <3>1. SharedInv'
      BY <2>1, NextKeepsSharedInv DEF Lifecycle, OpsInv
    <3>2. op' \in [Ops -> Commands \cup {"idle"}]
      BY <2>1 DEF Lifecycle, OpsInv, OpsTypeOK
    <3> QED
      BY <3>1, <3>2 DEF OpsInv, OpsTypeOK, SharedInv
  <2>2. CASE Operate
    <3>1. SharedInv'
      BY <2>2, OperateKeepsSharedInv DEF OpsInv
    <3>2. op' \in [Ops -> Commands \cup {"idle"}]
      BY <2>2 DEF OpsInv, OpsTypeOK, Operate, Begin, Finished, FinishStop, FinishClean,
                  FinishSmoke, FinishUninstall, FinishRestore
    <3> QED
      BY <3>1, <3>2 DEF OpsInv, OpsTypeOK, SharedInv
  <2>3. CASE UNCHANGED opsVars
    <3>1. UNCHANGED lifeVars /\ op' = op
      BY <2>3 DEF opsVars
    <3>2. SharedInv'
      BY <3>1, NextKeepsSharedInv DEF OpsInv
    <3> QED
      BY <3>1, <3>2 DEF OpsInv, OpsTypeOK, SharedInv
  <2> QED
    BY <2>1, <2>2, <2>3 DEF OpsNext
<1> QED
  BY <1>1, <1>2, PTL DEF OpsSpec

(* Requests beside the runs leave every variable in its domain. *)
THEOREM OpsStayTyped == OpsSpec => []OpsTypeOK
<1>1. OpsInv => OpsTypeOK
  BY DEF OpsInv
<1> QED
  BY <1>1, OpsInvHolds, PTL

(* No request makes a second task drive the install, however long it       *)
(* awaited docker before it changed the record.                            *)
THEOREM RequestsKeepOneDriver == OpsSpec => []OneDriver
<1>1. OpsInv => OneDriver
  BY DEF OpsInv, SharedInv
<1> QED
  BY <1>1, OpsInvHolds, PTL

(* Nor does it strand the install in a running state.                      *)
THEOREM RequestsStrandNothing == OpsSpec => []InFlightHasDriver
<1>1. OpsInv => InFlightHasDriver
  BY DEF OpsInv, SharedInv
<1> QED
  BY <1>1, OpsInvHolds, PTL

(* What a stop, a clean, a restore or a run ended with is still there      *)
(* after the server is lost.                                               *)
THEOREM RequestOutcomesAreDurable == OpsSpec => []OutcomeSurvivesRestart
<1>1. OpsInv => OutcomeSurvivesRestart
  BY DEF OpsInv, SharedInv
<1> QED
  BY <1>1, OpsInvHolds, PTL

-----------------------------------------------------------------------------
(* No step of a task brings back a record that is gone, in memory and in   *)
(* the file: a run that is under way finds nothing to change.              *)
LEMMA TaskKeepsItGone ==
  ASSUME NEW t \in Tasks, TaskStep(t), rec = NoRecord, disk = NoRecord
  PROVE  rec' = NoRecord /\ disk' = NoRecord
<1>1. /\ \A s : WithState(s) = NoRecord
      /\ \A k, v : WithStep(k, v) = NoRecord
  BY DEF WithState, WithStep
<1>2. CASE RunBegin(t)
  BY <1>2 DEF RunBegin, storeVars
<1>3. CASE ReadyToInstall(t) \/ EnterStep(t) \/ EndInProcess(t)
  BY <1>1, <1>3 DEF ReadyToInstall, EnterStep, EndInProcess, EndStep, Save
<1>4. CASE ChildReturned(t) \/ ChildTimeout(t)
  BY <1>1, <1>4 DEF ChildReturned, ChildTimeout, EndStep, Save
<1>5. CASE Raise(t) \/ StepFailed(t) \/ Drained(t) \/ DeliverCancel(t) \/ Complete(t)
  BY <1>1, <1>5 DEF Raise, StepFailed, Drained, DeliverCancel, Complete, Fail, Raises, SaveNow,
             SaveRaises, storeVars
<1>6. CASE Spawn(t) \/ Advance(t) \/ SmokeFailed(t) \/ Notified(t)
  BY <1>6 DEF Spawn, storeVars, Advance, SmokeFailed, Notified
<1> QED
  BY <1>2, <1>3, <1>4, <1>5, <1>6 DEF TaskStep

(* Nor does anything else: a route refuses it, a request keeps it, the     *)
(* timer thread and the next server copy nothing.                          *)
LEMMA StepKeepsItGone ==
  ASSUME [OpsNext]_opsVars, rec = NoRecord, disk = NoRecord,
         \E t \in Tasks : pc[t] # "unused"
  PROVE  rec' = NoRecord /\ disk' = NoRecord
<1>1. /\ \A s : WithState(s) = NoRecord
      /\ \A k, v : WithStep(k, v) = NoRecord
  BY DEF WithState, WithStep
<1>2. rec.state \notin RUNNING_STATES \cup {"FAILED", "CLEANED", "STOPPED"}
      /\ Reconcile(NoRecord) = NoRecord
  BY StateFacts DEF Reconcile
<1>3. CASE Lifecycle
  <2>1. CASE \E t \in Tasks : TaskStep(t)
    BY <2>1, TaskKeepsItGone
  <2>2. CASE (\E t \in Tasks : ChildExits(t)) \/ Flush \/ Shutdown \/ ShutdownCancelsAgain
               \/ ShutdownFlush
    BY <2>2 DEF ChildExits, Flush, Shutdown, ShutdownCancelsAgain, ShutdownFlush, storeVars
  <2>3. CASE Route
    BY <2>3, <1>2 DEF Route, CreateInstall, CancelInstall, Retry, Skip, MayResume, storeVars
  <2>4. CASE Exit \/ Crash \/ Restart
    BY <2>4, <1>2 DEF Exit, Crash, ServerGone, Restart, Save
  <2> QED
    BY <1>3, <2>1, <2>2, <2>3, <2>4 DEF Lifecycle, Next
<1>4. CASE Operate
  <2>1. CASE \E o \in Ops, command \in Commands : Begin(o, command)
    BY <2>1 DEF Begin, MayOperate
  <2>2. CASE \E o \in Ops : FinishStop(o) \/ FinishClean(o) \/ FinishSmoke(o)
    BY <2>2, <1>1 DEF FinishStop, FinishClean, FinishSmoke, Forced, SaveNow,
         SaveRaises, Save, storeVars
  <2>3. CASE \E o \in Ops : FinishUninstall(o) \/ FinishRestore(o)
    BY <2>3, <1>1 DEF FinishUninstall, FinishRestore, Forced, SaveNow, SaveRaises,
         storeVars
  <2> QED
    BY <1>4, <2>1, <2>2, <2>3 DEF Operate
<1>5. CASE UNCHANGED opsVars
  BY <1>5 DEF opsVars, lifeVars
<1> QED
  BY <1>3, <1>4, <1>5 DEF OpsNext

(* An uninstalled install stays gone: no run that was resumed meanwhile,   *)
(* request, write of the timer thread or restart creates its record again. *)
THEOREM UninstallIsFinal == OpsSpec => UninstalledStaysGone
<1>1. [OpsNext]_opsVars =>
        [ rec = NoRecord /\ disk = NoRecord /\ (\E t \in Tasks : pc[t] # "unused")
            => rec' = NoRecord /\ disk' = NoRecord ]_opsVars
  BY StepKeepsItGone
<1> QED
  BY <1>1, PTL DEF OpsSpec, UninstalledStaysGone

=============================================================================
