-------------------------- MODULE MaintenanceProofs --------------------------
(* Proofs about UpgradeExecutor, IngestJobs and BackupSchedules: for any    *)
(* number of upgrades, images, jobs, tables, schedules and writers, and any *)
(* number of losses of the server.                                          *)
EXTENDS UpgradeExecutor, BackupSchedules, IngestJobs, TLAPS

-----------------------------------------------------------------------------
(* Upgrades *)

(* The bounds are natural numbers, so Base is none of the upgrades.        *)
LEMMA UpgradeFacts ==
  /\ MaxUpgrades \in Nat /\ Images \in Nat \ {0} /\ MaxFaults \in Nat
  /\ Upgrades \subseteq Running /\ Down \in Running /\ Base \in Running
  /\ NoOverlay \notin Upgrades
  /\ "idle" \notin Awaiting /\ "done" \notin Awaiting /\ "lost" \notin Awaiting
  /\ "unfinished" \notin Finished /\ "none" \notin Finished
  /\ {"success", "failed", "rolled_back", "unfinished"} = UpgradeStates
  BY UpgradeAssumption
  DEF UpgradeAssumption, Upgrades, Running, Down, Base, NoOverlay, Awaiting, Finished,
      UpgradeStates

(* A compose command that ends half way leaves one of the stacks there are. *)
LEMMA PartiallyRuns ==
  ASSUME UpgradeTypeOK, NEW u \in Upgrades
  PROVE  Partially(u) \subseteq Running
  BY UpgradeFacts DEF UpgradeTypeOK, Partially

(* Nothing is under way in an installation that was just set up.           *)
LEMMA InitUpgradeInv == Init => UpgradeInv
<1> SUFFICES ASSUME Init PROVE UpgradeInv
  OBVIOUS
<1>1. \A u \in Upgrades : ~Active(u)
  BY UpgradeFacts DEF Init, Active
<1>2. \A u \in Upgrades : exec[u].state \notin Finished
  BY UpgradeFacts DEF Init, NoRecord
<1>3. UpgradeTypeOK
  <2>1. 0 \in 0..Images /\ 0 \in 0..MaxFaults
    BY UpgradeFacts
  <2>2. /\ pulled \in [Upgrades -> 0..Images]
        /\ before \in [Upgrades -> Running] /\ alone \in [Upgrades -> BOOLEAN]
        /\ exec \in [Upgrades -> Record \cup {NoRecord}]
        /\ file \in [Upgrades -> Record \cup {NoRecord}]
        /\ pc \in [Upgrades -> Awaiting \cup {"idle", "done", "lost"}]
    BY <2>1, UpgradeFacts DEF Init
  <2> QED
    BY <1>1, <2>1, <2>2, UpgradeFacts DEF Init, UpgradeTypeOK
<1> QED
  BY <1>1, <1>2, <1>3
  DEF UpgradeInv, FinishedIsDurable, LoneUpgradeFinds

(* The failures that are counted stay within their bound. *)
LEMMA RefuseStaysBounded ==
  ASSUME UpgradeTypeOK, NEW failed, Refuse(failed)
  PROVE  faults' \in 0..MaxFaults
<1>1. faults \in 0..MaxFaults /\ MaxFaults \in Nat
  BY UpgradeFacts DEF UpgradeTypeOK
<1>2. faults' = faults \/ (faults < MaxFaults /\ faults' = faults + 1)
  BY DEF Refuse
<1> QED
  BY <1>1, <1>2

(* What a forced save leaves: the file is the memory, or it is as it was   *)
(* and the upgrade is among those whose end the file may lack.             *)
LEMMA SaveNowFacts ==
  ASSUME UpgradeInv, NEW u \in Upgrades, NEW record \in Record, NEW outcome \in Outcomes,
         SaveNow(u, record, outcome)
  PROVE  /\ exec' = [exec EXCEPT ![u] = record]
         /\ timer' \in BOOLEAN /\ faults' \in 0..MaxFaults /\ missed' \subseteq Upgrades
         /\ \/ file' = exec'
            \/ file' = file /\ missed \subseteq missed' /\ u \in missed'
<1>1. faults' \in 0..MaxFaults
  BY RefuseStaysBounded DEF UpgradeInv, SaveNow, WriteFile
<1>2. timer' \in BOOLEAN /\ missed' \subseteq Upgrades
  BY DEF UpgradeInv, UpgradeTypeOK, SaveNow
<1> QED
  BY <1>1, <1>2 DEF SaveNow, WriteFile

(* A debounced one leaves the file alone. *)
LEMMA DebounceFacts ==
  ASSUME UpgradeInv, NEW u \in Upgrades, NEW record \in Record, Debounce(u, record)
  PROVE  /\ exec' = [exec EXCEPT ![u] = record]
         /\ timer' \in BOOLEAN /\ missed' \subseteq Upgrades
         /\ file' = file /\ missed' = missed
  BY DEF UpgradeInv, UpgradeTypeOK, Debounce

(* What a step of an upgrade's own coroutine has to show: it forces the    *)
(* save of every end, and leaves the next await the stack it expects.      *)
OwnStep(u, place, record) ==
  /\ pc' = [pc EXCEPT ![u] = place]
  /\ \/ place # "done" /\ Debounce(u, record)
     \/ place = "done" /\ \E outcome \in Outcomes : SaveNow(u, record, outcome)
  /\ faults' \in 0..MaxFaults
  /\ pulled' \in [Upgrades -> 0..Images]
  /\ containers' \in Running /\ overlay' \in Upgrades \cup {NoOverlay}
  /\ stuck' \in BOOLEAN
  /\ place # "preflight"
  /\ alone[u] /\ place = "simulate" => containers' = before[u]
  /\ alone[u] /\ place \in {"up", "settle", "smoke"} => overlay' = u
  /\ alone[u] /\ place \in {"settle", "smoke"} => containers' = u
  /\ alone[u] /\ place = "rollback_up" => stuck' \/ overlay' = NoOverlay
  /\ KeepRest

(* A step of an upgrade under way, to any of its awaits or its end. *)
LEMMA OwnStepKeeps ==
  ASSUME UpgradeInv, server = "up", NEW u \in Upgrades, Active(u),
         NEW place \in Awaiting \cup {"done"}, NEW record \in Record,
         record.state \in UpgradeStates, OwnStep(u, place, record)
  PROVE  UpgradeInv'
<1> USE UpgradeFacts
<1>1. /\ pc' \in [Upgrades -> Awaiting \cup {"idle", "done", "lost"}]
      /\ pc'[u] = place
      /\ \A v \in Upgrades : v # u => pc'[v] = pc[v]
  BY DEF OwnStep, UpgradeInv, UpgradeTypeOK
<1>0. /\ exec' = [exec EXCEPT ![u] = record]
      /\ timer' \in BOOLEAN /\ missed' \subseteq Upgrades
      /\ \/ file' = exec'
         \/ /\ file' = file /\ missed \subseteq missed'
            /\ place = "done" => u \in missed'
  <2>1. CASE place # "done" /\ Debounce(u, record)
    BY <2>1, DebounceFacts
  <2>2. CASE place = "done" /\ \E outcome \in Outcomes : SaveNow(u, record, outcome)
    BY <2>2, SaveNowFacts
  <2> QED
    BY <2>1, <2>2 DEF OwnStep
<1>2. /\ exec' \in [Upgrades -> Record \cup {NoRecord}]
      /\ exec'[u] = record
      /\ \A v \in Upgrades : v # u => exec'[v] = exec[v]
  BY <1>0 DEF UpgradeInv, UpgradeTypeOK
<1>3. file' \in [Upgrades -> Record \cup {NoRecord}]
  BY <1>0, <1>2 DEF UpgradeInv, UpgradeTypeOK
<1>4. /\ before' \in [Upgrades -> Running] /\ alone' \in [Upgrades -> BOOLEAN]
      /\ \A v \in Upgrades : Active(v)' => alone'[v] = alone[v] /\ before'[v] = before[v]
  BY DEF OwnStep, KeepRest, UpgradeInv, UpgradeTypeOK, Active
<1>5. \A v \in Upgrades : Active(v)' => Active(v)
  BY <1>1 DEF Active
<1>6. /\ UNCHANGED <<backup, task, server>>
      /\ faults' \in 0..MaxFaults /\ pulled' \in [Upgrades -> 0..Images]
      /\ containers' \in Running /\ overlay' \in Upgrades \cup {NoOverlay}
      /\ stuck' \in BOOLEAN
  BY DEF OwnStep, KeepRest
<1>8. UpgradeTypeOK'
  <2>1. \A v \in Upgrades : Active(v)' => server' = "up" /\ exec'[v].state \in UpgradeStates
    BY <1>2, <1>5, <1>6 DEF UpgradeInv, UpgradeTypeOK
  <2> QED
    BY <1>0, <1>1, <1>2, <1>3, <1>4, <1>6, <2>1 DEF UpgradeInv, UpgradeTypeOK
<1>9. FinishedIsDurable'
  <2> SUFFICES ASSUME NEW v \in Upgrades \ missed', ~Active(v)', exec'[v].state \in Finished
      PROVE  file'[v] = exec'[v]
    BY DEF FinishedIsDurable
  <2>1. CASE file' = exec'
    BY <2>1
  <2>2. CASE /\ file' = file /\ missed \subseteq missed'
             /\ place = "done" => u \in missed'
    <3>1. v # u
      <4>1. CASE place = "done"
        BY <2>2, <4>1
      <4>2. CASE place # "done"
        BY <1>1, <4>2 DEF Active
      <4> QED
        BY <4>1, <4>2
    <3>2. exec'[v] = exec[v] /\ ~Active(v) /\ v \in Upgrades \ missed
      BY <1>1, <1>2, <2>2, <3>1 DEF Active
    <3> QED
      BY <2>2, <3>2 DEF UpgradeInv, FinishedIsDurable
  <2> QED
    BY <1>0, <2>1, <2>2
<1>10. LoneUpgradeFinds'
  <2> SUFFICES ASSUME NEW v \in Upgrades, Active(v)', alone'[v]
      PROVE /\ \A w \in Upgrades : w # v => ~Active(w)'
            /\ pc'[v] \in {"preflight", "simulate"} => containers' = before'[v]
            /\ pc'[v] \in {"up", "settle", "smoke"} => overlay' = v
            /\ pc'[v] \in {"settle", "smoke"} => containers' = v
            /\ pc'[v] = "rollback_up" => stuck' \/ overlay' = NoOverlay
    BY DEF LoneUpgradeFinds
  <2>1. /\ Active(v) /\ alone[v] /\ before'[v] = before[v]
        /\ \A w \in Upgrades : w # v => ~Active(w)
    BY <1>4, <1>5 DEF UpgradeInv, LoneUpgradeFinds
  <2>2. v = u /\ pc'[v] = place
    BY <1>1, <2>1
  <2>3. \A w \in Upgrades : w # v => ~Active(w)'
    BY <1>5, <2>1
  <2> QED
    BY <2>1, <2>2, <2>3 DEF OwnStep
<1> QED
  BY <1>8, <1>9, <1>10 DEF UpgradeInv

(* The steps of one upgrade, the failing ones included. *)
LEMMA UpgradeStepKeeps ==
  ASSUME UpgradeInv, NEW u \in Upgrades, server = "up", Step(u) \/ Fails(u)
  PROVE  UpgradeInv'
<1>1. Active(u)
  BY DEF Step, Fails, PreflightRefuses, PreflightPasses, SimulateRefuses, SimulatePasses,
         DownReturns, PullReturns, UpReturns, Settled, NoSmokeScript, SmokeReturns,
         SuccessRaises, StartRollback, RollbackDownEnds, RollbackUpEnds, Active, Awaiting
<1>2. /\ exec[u] \in Record /\ exec[u].state \in UpgradeStates
      /\ pulled \in [Upgrades -> 0..Images] /\ faults \in 0..MaxFaults
      /\ containers \in Running /\ overlay \in Upgrades \cup {NoOverlay}
      /\ stuck \in BOOLEAN
  <2>1. exec[u] \in Record \cup {NoRecord} /\ exec[u].state \in UpgradeStates
    BY <1>1 DEF UpgradeInv, UpgradeTypeOK
  <2>2. exec[u] # NoRecord
    BY <2>1 DEF NoRecord, UpgradeStates, Finished
  <2> QED
    BY <2>1, <2>2 DEF UpgradeInv, UpgradeTypeOK
<1>b. \A r \in Record : r.state \in UpgradeStates
  BY DEF Record
<1>3. /\ \A s \in UpgradeStates : At(u, s) \in Record
      /\ \A b \in BOOLEAN : [exec[u] EXCEPT !.rollback = b] \in Record
      /\ \A b \in BOOLEAN : [state |-> "rolled_back", rollback |-> b] \in Record
  BY <1>2, UpgradeFacts DEF At, Record
<1>4. Partially(u) \subseteq Running
  BY PartiallyRuns DEF UpgradeInv
<1>5. alone[u] => /\ pc[u] \in {"preflight", "simulate"} => containers = before[u]
                  /\ pc[u] \in {"up", "settle", "smoke"} => overlay = u
                  /\ pc[u] \in {"settle", "smoke"} => containers = u
                  /\ pc[u] = "rollback_up" => stuck \/ overlay = NoOverlay
  BY <1>1 DEF UpgradeInv, LoneUpgradeFinds
<1>6. {"simulate", "down", "pull", "up", "settle", "smoke", "rollback_down", "rollback_up",
       "done"} \subseteq Awaiting \cup {"done"}
  BY DEF Awaiting
<1>a. /\ Down \in Running /\ Base \in Running /\ Upgrades \subseteq Running
      /\ {"failed", "success"} \subseteq UpgradeStates /\ Images \in Nat \ {0}
  BY UpgradeFacts
<1>c. ASSUME NEW record \in Record, Save(u, record)
      PROVE  Debounce(u, record) /\ faults' \in 0..MaxFaults
  BY <1>2, <1>c DEF Save, Refuse
<1>d. ASSUME NEW record \in Record, NEW outcome \in Outcomes, SaveNow(u, record, outcome)
      PROVE  faults' \in 0..MaxFaults
  BY <1>d, SaveNowFacts
<1>18. CASE PreflightRefuses(u)
  <2>1. At(u, "failed") \in Record
    BY <1>3, <1>a
  <2>2. OwnStep(u, "done", At(u, "failed"))
    BY <1>2, <1>18, <1>d, <2>1 DEF PreflightRefuses, Goto, stackVars, OwnStep
  <2> QED
    BY <1>1, <1>6, <1>b, <2>1, <2>2, OwnStepKeeps
<1>19. CASE PreflightPasses(u)
  <2>1. OwnStep(u, "simulate", exec[u])
    BY <1>2, <1>5, <1>19, <1>c DEF PreflightPasses, Goto, stackVars, OwnStep
  <2> QED
    BY <1>1, <1>2, <1>6, <2>1, OwnStepKeeps
<1>7. CASE SimulateRefuses(u)
  <2>1. At(u, "failed") \in Record
    BY <1>3, <1>a
  <2>2. OwnStep(u, "done", At(u, "failed"))
    BY <1>2, <1>7, <1>d, <2>1 DEF SimulateRefuses, Goto, stackVars, OwnStep
  <2> QED
    BY <1>1, <1>6, <1>b, <2>1, <2>2, OwnStepKeeps
<1>8. CASE SimulatePasses(u)
  <2>1. OwnStep(u, "down", exec[u])
    BY <1>2, <1>8, <1>a, <1>c DEF SimulatePasses, Goto, stackVars, OwnStep
  <2> QED
    BY <1>1, <1>2, <1>6, <2>1, OwnStepKeeps
<1>9. CASE DownReturns(u)
  <2>1. OwnStep(u, "pull", exec[u])
    BY <1>2, <1>9, <1>a, <1>c DEF DownReturns, Goto, stackVars, OwnStep
  <2> QED
    BY <1>1, <1>2, <1>6, <2>1, OwnStepKeeps
<1>10. CASE PullReturns(u)
  <2>1. CASE pulled[u] + 1 < Images
    <3>1. pulled' = [pulled EXCEPT ![u] = pulled[u] + 1] /\ Save(u, exec[u])
          /\ pc' = pc /\ pc[u] = "pull" /\ UNCHANGED <<overlay, stuck, containers>> /\ KeepRest
      BY <1>10, <2>1 DEF PullReturns
    <3>2. pulled' \in [Upgrades -> 0..Images]
      BY <1>2, <1>a, <2>1, <3>1
    <3>3. pc' = [pc EXCEPT ![u] = "pull"]
      BY <3>1 DEF UpgradeInv, UpgradeTypeOK
    <3>4. OwnStep(u, "pull", exec[u])
      BY <1>2, <1>c, <3>1, <3>2, <3>3 DEF OwnStep
    <3> QED
      BY <1>1, <1>2, <1>6, <3>4, OwnStepKeeps
  <2>2. CASE ~(pulled[u] + 1 < Images)
    <3>1. pulled' = [pulled EXCEPT ![u] = 0] /\ Save(u, exec[u])
          /\ pc' = [pc EXCEPT ![u] = "up"] /\ overlay' = u /\ stuck' = FALSE
          /\ containers' = containers /\ KeepRest
      BY <1>10, <2>2 DEF PullReturns, Goto
    <3>2. pulled' \in [Upgrades -> 0..Images]
      BY <1>2, <1>a, <3>1
    <3>3. OwnStep(u, "up", exec[u])
      BY <1>2, <1>c, <3>1, <3>2 DEF OwnStep
    <3> QED
      BY <1>1, <1>2, <1>6, <3>3, OwnStepKeeps
  <2> QED
    BY <2>1, <2>2
<1>11. CASE UpReturns(u)
  <2>1. pc[u] = "up" /\ overlay' = overlay /\ overlay \in Upgrades /\ containers' = overlay
        /\ pulled' = pulled /\ stuck' = stuck /\ Save(u, exec[u])
        /\ pc' = [pc EXCEPT ![u] = "settle"] /\ KeepRest
    BY <1>2, <1>11 DEF UpReturns, Goto
  <2>2. alone[u] => overlay' = u /\ containers' = u
    BY <1>5, <2>1
  <2>3. OwnStep(u, "settle", exec[u])
    BY <1>2, <1>a, <1>c, <2>1, <2>2 DEF OwnStep
  <2> QED
    BY <1>1, <1>2, <1>6, <2>3, OwnStepKeeps
<1>12. CASE Settled(u)
  <2>1. OwnStep(u, "smoke", exec[u])
    BY <1>2, <1>5, <1>12, <1>c DEF Settled, Goto, stackVars, OwnStep
  <2> QED
    BY <1>1, <1>2, <1>6, <2>1, OwnStepKeeps
<1>13. CASE NoSmokeScript(u)
  <2>1. OwnStep(u, "rollback_down", exec[u])
    BY <1>2, <1>13, <1>a, <1>c DEF NoSmokeScript, Goto, stackVars, OwnStep
  <2> QED
    BY <1>1, <1>2, <1>6, <2>1, OwnStepKeeps
<1>14. CASE SmokeReturns(u)
  <2>1. At(u, "success") \in Record
    BY <1>3, <1>a
  <2>2. OwnStep(u, "done", At(u, "success"))
    BY <1>2, <1>14, <1>d, <2>1 DEF SmokeReturns, Goto, stackVars, OwnStep
  <2> QED
    BY <1>1, <1>6, <1>b, <2>1, <2>2, OwnStepKeeps
<1>20. CASE SuccessRaises(u)
  <2>1. At(u, "success") \in Record
    BY <1>3, <1>a
  <2>2. faults' \in 0..MaxFaults
    BY <1>2, <1>20, UpgradeFacts DEF SuccessRaises, Refuse
  <2>3. OwnStep(u, "rollback_down", At(u, "success"))
    BY <1>2, <1>20, <2>2 DEF SuccessRaises, Goto, stackVars, OwnStep
  <2> QED
    BY <1>1, <1>6, <1>b, <2>1, <2>3, OwnStepKeeps
<1>15. CASE StartRollback(u)
  <2>1. pulled' = [pulled EXCEPT ![u] = 0] /\ Save(u, exec[u]) /\ containers' \in Running
        /\ pc' = [pc EXCEPT ![u] = "rollback_down"] /\ overlay' = overlay /\ stuck' = stuck
        /\ KeepRest
    BY <1>4, <1>15 DEF StartRollback, Goto
  <2>2. pulled' \in [Upgrades -> 0..Images]
    BY <1>2, <1>a, <2>1
  <2>3. OwnStep(u, "rollback_down", exec[u])
    BY <1>2, <1>c, <2>1, <2>2 DEF OwnStep
  <2> QED
    BY <1>1, <1>2, <1>6, <2>3, OwnStepKeeps
<1>16. ASSUME NEW down \in BOOLEAN, RollbackDownEnds(u, down)
       PROVE  UpgradeInv'
  <2>1. PICK restored \in BOOLEAN, removed \in BOOLEAN :
          RestoreAndUp(u, down, restored, removed)
    BY <1>16 DEF RollbackDownEnds
  <2>2. containers' \in Running /\ pulled' = pulled /\ KeepRest
    BY <1>4, <1>16, <1>a DEF RollbackDownEnds
  <2>3. CASE ~backup
    <3>1. [state |-> "rolled_back", rollback |-> FALSE] \in Record
      BY <1>3
    <3>2. OwnStep(u, "done", [state |-> "rolled_back", rollback |-> FALSE])
      BY <1>2, <1>d, <2>1, <2>2, <2>3, <3>1 DEF RestoreAndUp, RolledBack, Goto, OwnStep
    <3> QED
      BY <1>1, <1>6, <1>b, <3>1, <3>2, OwnStepKeeps
  <2>4. CASE backup
    <3>1. /\ Debounce(u, [exec[u] EXCEPT !.rollback = down /\ restored])
          /\ pc' = [pc EXCEPT ![u] = "rollback_up"]
          /\ overlay' \in Upgrades \cup {NoOverlay} /\ stuck' \in BOOLEAN
          /\ stuck' \/ overlay' = NoOverlay
          /\ Refuse(~removed)
      BY <1>2, <2>1, <2>4, UpgradeFacts DEF RestoreAndUp, Goto
    <3>5. faults' \in 0..MaxFaults
      BY <3>1, RefuseStaysBounded DEF UpgradeInv
    <3>2. (down /\ restored) \in BOOLEAN
      OBVIOUS
    <3>3. [exec[u] EXCEPT !.rollback = down /\ restored] \in Record
      BY <1>3, <3>2
    <3>4. OwnStep(u, "rollback_up", [exec[u] EXCEPT !.rollback = down /\ restored])
      BY <1>2, <2>2, <3>1, <3>5 DEF OwnStep
    <3> QED
      BY <1>1, <1>6, <1>b, <3>3, <3>4, OwnStepKeeps
  <2> QED
    BY <2>3, <2>4
<1>17. ASSUME NEW up \in BOOLEAN, RollbackUpEnds(u, up)
       PROVE  UpgradeInv'
  <2>1. /\ containers' \in Running /\ UNCHANGED <<pulled, overlay, stuck>> /\ KeepRest
        /\ \E outcome \in Outcomes :
             SaveNow(u, [state |-> "rolled_back", rollback |-> exec[u].rollback /\ up], outcome)
        /\ pc' = [pc EXCEPT ![u] = "done"]
    BY <1>4, <1>17, <1>a DEF RollbackUpEnds, RolledBack, Goto
  <2>2. (exec[u].rollback /\ up) \in BOOLEAN
    OBVIOUS
  <2>3. [state |-> "rolled_back", rollback |-> exec[u].rollback /\ up] \in Record
    BY <1>3, <2>2
  <2>4. OwnStep(u, "done", [state |-> "rolled_back", rollback |-> exec[u].rollback /\ up])
    BY <1>2, <1>d, <2>1, <2>3 DEF OwnStep
  <2> QED
    BY <1>1, <1>6, <1>b, <2>3, <2>4, OwnStepKeeps
<1> QED
  BY <1>7, <1>8, <1>9, <1>10, <1>11, <1>12, <1>13, <1>14, <1>15, <1>16, <1>17, <1>18,
     <1>19, <1>20
  DEF Step, Fails

(* An upgrade that is accepted, or whose first save raises. *)
LEMMA RequestKeeps ==
  ASSUME UpgradeInv, NEW u \in Upgrades, Request(u)
  PROVE  UpgradeInv'
<1> USE UpgradeFacts
<1>1. /\ server = "up" /\ pc[u] = "idle"
      /\ UNCHANGED <<pulled, stackVars, backup, task, server>>
  BY DEF Request
<1>2. /\ ~Active(u) /\ "preflight" \in Awaiting
  BY <1>1 DEF Active, Awaiting
<1>3. Begun \in Record /\ Begun.state \in UpgradeStates /\ Begun.state \notin Finished
  BY DEF Begun, Record, UpgradeStates
<1>4. PICK outcome \in Outcomes :
        /\ SaveNow(u, Begun, outcome)
        /\ pc' = [pc EXCEPT ![u] = IF outcome = "raised" THEN "done" ELSE "preflight"]
  BY DEF Request, Goto
<1>5. /\ exec' = [exec EXCEPT ![u] = Begun]
      /\ timer' \in BOOLEAN /\ faults' \in 0..MaxFaults /\ missed' \subseteq Upgrades
      /\ \/ file' = exec'
         \/ file' = file /\ missed \subseteq missed' /\ u \in missed'
  BY <1>3, <1>4, SaveNowFacts
<1>6. /\ pc' \in [Upgrades -> Awaiting \cup {"idle", "done", "lost"}]
      /\ pc'[u] \in {"done", "preflight"}
      /\ exec' \in [Upgrades -> Record \cup {NoRecord}] /\ exec'[u] = Begun
      /\ file' \in [Upgrades -> Record \cup {NoRecord}]
      /\ \A v \in Upgrades : v # u => pc'[v] = pc[v] /\ exec'[v] = exec[v]
  BY <1>2, <1>3, <1>4, <1>5 DEF UpgradeInv, UpgradeTypeOK
<1>7. \A v \in Upgrades : v # u => Active(v)' = Active(v)
  BY <1>6 DEF Active
<1>8. /\ before' = [before EXCEPT ![u] = IF pc'[u] = "done" THEN Base ELSE containers]
      /\ alone' = [v \in Upgrades |->
           IF pc'[u] = "done" THEN alone[v]
           ELSE IF v = u THEN \A w \in Upgrades : ~Active(w)
           ELSE ~Active(v)]
  BY DEF Request
<1>9. UpgradeTypeOK'
  <2>1. \A v \in Upgrades : Active(v)' => server' = "up" /\ exec'[v].state \in UpgradeStates
    BY <1>1, <1>3, <1>6, <1>7 DEF UpgradeInv, UpgradeTypeOK
  <2>2. before' \in [Upgrades -> Running]
    BY <1>8 DEF UpgradeInv, UpgradeTypeOK
  <2>3. alone' \in [Upgrades -> BOOLEAN]
    BY <1>8 DEF UpgradeInv, UpgradeTypeOK
  <2> QED
    BY <1>1, <1>5, <1>6, <2>1, <2>2, <2>3 DEF UpgradeInv, UpgradeTypeOK, stackVars
<1>10. FinishedIsDurable'
  <2> SUFFICES ASSUME NEW v \in Upgrades \ missed', ~Active(v)', exec'[v].state \in Finished
      PROVE  file'[v] = exec'[v]
    BY DEF FinishedIsDurable
  <2>1. v # u
    BY <1>3, <1>6
  <2> QED
    BY <1>5, <1>6, <1>7, <2>1 DEF UpgradeInv, FinishedIsDurable
<1>11. LoneUpgradeFinds'
  <2> SUFFICES ASSUME NEW v \in Upgrades, Active(v)', alone'[v]
      PROVE /\ \A w \in Upgrades : w # v => ~Active(w)'
            /\ pc'[v] \in {"preflight", "simulate"} => containers' = before'[v]
            /\ pc'[v] \in {"up", "settle", "smoke"} => overlay' = v
            /\ pc'[v] \in {"settle", "smoke"} => containers' = v
            /\ pc'[v] = "rollback_up" => stuck' \/ overlay' = NoOverlay
    BY DEF LoneUpgradeFinds
  <2>1. CASE pc'[u] = "done"
    <3>1. v # u /\ Active(v) /\ pc'[v] = pc[v]
      BY <1>6, <1>7, <2>1 DEF Active
    <3>2. before'[v] = before[v] /\ alone[v]
      BY <1>8, <2>1, <3>1 DEF UpgradeInv, UpgradeTypeOK
    <3>3. \A w \in Upgrades : w # v => ~Active(w)'
      BY <1>7, <2>1, <3>1, <3>2 DEF UpgradeInv, LoneUpgradeFinds, Active
    <3> QED
      BY <1>1, <3>1, <3>2, <3>3 DEF UpgradeInv, LoneUpgradeFinds, stackVars
  <2>2. CASE pc'[u] = "preflight"
    <3>1. v = u
      BY <1>7, <1>8, <2>2
    <3>2. \A w \in Upgrades : w # u => ~Active(w)'
      BY <1>7, <1>8, <2>2, <3>1
    <3>3. before'[u] = containers'
      BY <1>1, <1>8, <2>2 DEF stackVars, UpgradeInv, UpgradeTypeOK
    <3> QED
      BY <2>2, <3>1, <3>2, <3>3
  <2> QED
    BY <1>6, <2>1, <2>2
<1> QED
  BY <1>9, <1>10, <1>11 DEF UpgradeInv

(* What others do to the install ends the solitude of every upgrade, and   *)
(* nothing else that an upgrade rests on.                                  *)
LEMMA DisturbKeeps ==
  ASSUME UpgradeInv, BeginTask \/ EndTask \/ Control \/ DeleteBackup
  PROVE  UpgradeInv'
<1> USE UpgradeFacts
<1>1. /\ UNCHANGED <<executorVars, overlay, stuck, server, faults, before>> /\ Disturb
      /\ containers' \in Running /\ backup' \in BOOLEAN /\ task' \in BOOLEAN
  BY DEF BeginTask, EndTask, Control, DeleteBackup, stackVars, UpgradeInv, UpgradeTypeOK
<1>2. \A v \in Upgrades : Active(v)' = Active(v) /\ (Active(v) => ~alone'[v])
  BY <1>1 DEF Active, executorVars, Disturb
<1>3. UpgradeTypeOK'
  BY <1>1, <1>2 DEF UpgradeInv, UpgradeTypeOK, executorVars, Disturb
<1> QED
  BY <1>1, <1>2, <1>3
  DEF UpgradeInv, FinishedIsDurable, LoneUpgradeFinds, executorVars

(* The timer, the loss of the process and its next start. *)
LEMMA ProcessKeeps ==
  ASSUME UpgradeInv, FlushTimer \/ Crash \/ Restart \/ UNCHANGED vars
  PROVE  UpgradeInv'
<1> USE UpgradeFacts
<1>1. CASE FlushTimer
  <2>1. /\ timer' = FALSE
        /\ UNCHANGED <<pc, pulled, exec, containers, overlay, stuck, backup, task, server,
                       before, alone>>
    BY <1>1 DEF FlushTimer, stackVars, historyVars
  <2>2. \A v \in Upgrades : Active(v)' = Active(v)
    BY <2>1 DEF Active
  <2>3. faults' \in 0..MaxFaults /\ missed' \subseteq Upgrades
        /\ (file' = exec' \/ (file' = file /\ missed' = missed))
    BY <1>1 DEF FlushTimer, WriteFile, Refuse, UpgradeInv, UpgradeTypeOK
  <2>4. FinishedIsDurable'
    <3>1. CASE file' = exec'
      BY <3>1 DEF FinishedIsDurable
    <3>2. CASE file' = file /\ missed' = missed
      BY <2>1, <2>2, <3>2 DEF UpgradeInv, FinishedIsDurable
    <3> QED
      BY <2>3, <3>1, <3>2
  <2>5. UpgradeTypeOK'
    BY <2>1, <2>2, <2>3 DEF UpgradeInv, UpgradeTypeOK
  <2>6. LoneUpgradeFinds'
    BY <2>1, <2>2 DEF UpgradeInv, LoneUpgradeFinds
  <2> QED
    BY <2>4, <2>5, <2>6 DEF UpgradeInv
<1>2. CASE Crash
  <2>1. \A v \in Upgrades : ~Active(v)'
    BY <1>2 DEF Crash, Active
  <2>2. containers' \in Running
    BY <1>2, PartiallyRuns DEF Crash, UpgradeInv, UpgradeTypeOK
  <2>3. /\ pc' \in [Upgrades -> Awaiting \cup {"idle", "done", "lost"}]
        /\ faults' \in 0..MaxFaults
    BY <1>2 DEF Crash, UpgradeInv, UpgradeTypeOK, Active
  <2>4. UpgradeTypeOK'
    <3>1. /\ before' \in [Upgrades -> Running] /\ alone' \in [Upgrades -> BOOLEAN]
          /\ pulled' \in [Upgrades -> 0..Images]
          /\ exec' \in [Upgrades -> Record \cup {NoRecord}]
      BY <1>2 DEF Crash
    <3>2. /\ server' = "down" /\ task' = FALSE /\ timer' = FALSE /\ missed' = {}
          /\ UNCHANGED <<file, overlay, stuck, backup>>
      BY <1>2 DEF Crash
    <3> QED
      BY <2>1, <2>2, <2>3, <3>1, <3>2 DEF UpgradeInv, UpgradeTypeOK
  <2>5. \A v \in Upgrades : exec'[v].state = "none"
    BY <1>2 DEF Crash, NoRecord
  <2> QED
    BY <2>1, <2>4, <2>5
    DEF UpgradeInv, FinishedIsDurable, LoneUpgradeFinds
<1>3. CASE Restart
  <2>1. /\ exec' = file /\ file' = file /\ server' = "up"
        /\ UNCHANGED <<pc, pulled, timer, missed, containers, overlay, stuck, backup, task,
                       faults, before, alone>>
    BY <1>3 DEF Restart, stackVars, historyVars
  <2>2. \A v \in Upgrades : ~Active(v)'
    BY <1>3, <2>1 DEF Restart, Active, UpgradeInv, UpgradeTypeOK
  <2> QED
    BY <2>1, <2>2
    DEF UpgradeInv, UpgradeTypeOK, FinishedIsDurable, LoneUpgradeFinds
<1>4. CASE UNCHANGED vars
  <2>1. UNCHANGED <<pc, pulled, exec, file, timer, missed, containers, overlay, stuck, backup,
                    task, server, faults, before, alone>>
    BY <1>4 DEF vars, executorVars, stackVars, historyVars
  <2>2. \A v \in Upgrades : Active(v)' = Active(v)
    BY <2>1 DEF Active
  <2> QED
    BY <2>1, <2>2
    DEF UpgradeInv, UpgradeTypeOK, FinishedIsDurable, LoneUpgradeFinds
<1> QED
  BY <1>1, <1>2, <1>3, <1>4

(* The invariant holds whatever upgrades, install tasks, control requests, *)
(* deletions and losses do to each other.                                  *)
THEOREM UpgradeInvHolds == Spec => []UpgradeInv
<1>1. UpgradeInv /\ [Next]_vars => UpgradeInv'
  BY UpgradeStepKeeps, RequestKeeps, DisturbKeeps, ProcessKeeps DEF Next, Step
<1> QED
  BY <1>1, InitUpgradeInv, PTL DEF Spec

(* Upgrades, their records and the stack stay in their domains. *)
THEOREM UpgradesStayTyped == Spec => []UpgradeTypeOK
<1>1. UpgradeInv => UpgradeTypeOK
  BY DEF UpgradeInv
<1> QED
  BY <1>1, UpgradeInvHolds, PTL

(* Whoever was told how an upgrade ended is told the same after a crash,   *)
(* for any number of upgrades and of failing writes, unless the write that *)
(* recorded it was given up or raised and none has succeeded since.        *)
THEOREM EndsAreDurable == Spec => []FinishedIsDurable
<1>1. UpgradeInv => FinishedIsDurable
  BY DEF UpgradeInv
<1> QED
  BY <1>1, UpgradeInvHolds, PTL

(* Only its own coroutine ends an upgrade.                                 *)
LEMMA EndIsOwn ==
  ASSUME UpgradeInv, [Next]_vars, NEW u \in Upgrades, Active(u), pc'[u] = "done"
  PROVE  server = "up" /\ (Step(u) \/ Fails(u))
<1> USE UpgradeFacts
<1>1. pc[u] # "done"
  BY DEF Active
<1>2. ASSUME NEW v \in Upgrades, Request(v) \/ (server = "up" /\ (Step(v) \/ Fails(v))), v # u
      PROVE  pc'[u] = pc[u]
  BY <1>2
  DEF Request, Step, Fails, PreflightRefuses, PreflightPasses, SimulateRefuses,
      SimulatePasses, DownReturns, PullReturns, UpReturns, Settled, NoSmokeScript,
      SmokeReturns, SuccessRaises, StartRollback, RollbackDownEnds, RollbackUpEnds,
      RestoreAndUp, RolledBack, Goto, UpgradeInv, UpgradeTypeOK
<1>3. ~Request(u)
  BY DEF Request, Active
<1>4. ASSUME FlushTimer \/ BeginTask \/ EndTask \/ Control \/ DeleteBackup \/ Crash \/ Restart
               \/ UNCHANGED vars
      PROVE  pc'[u] # "done"
  BY <1>1, <1>4
  DEF FlushTimer, BeginTask, EndTask, Control, DeleteBackup, Crash, Restart,
      vars,
     executorVars, Active
<1> QED
  BY <1>1, <1>2, <1>3, <1>4 DEF Next, Step

(* A lone upgrade is all or nothing, at each of its ends. *)
LEMMA LoneEnd ==
  ASSUME UpgradeInv, NEW u \in Upgrades, Step(u) \/ Fails(u),
         Active(u), pc'[u] = "done", alone[u]
  PROVE  \/ exec'[u].state = "failed" /\ containers' = before[u]
         \/ exec'[u].state = "success" /\ containers' = u /\ overlay' = u
         \/ /\ exec'[u].state = "rolled_back"
            /\ exec'[u].rollback =>
                 /\ containers' = Base
                 /\ stuck' \/ overlay' = NoOverlay
<1> USE UpgradeFacts
<1>1. /\ pc[u] \in {"preflight", "simulate"} => containers = before[u]
      /\ pc[u] \in {"up", "settle", "smoke"} => overlay = u
      /\ pc[u] \in {"settle", "smoke"} => containers = u
      /\ pc[u] = "rollback_up" => stuck \/ overlay = NoOverlay
  BY DEF UpgradeInv, LoneUpgradeFinds
<1>2. /\ exec \in [Upgrades -> Record \cup {NoRecord}]
      /\ exec[u].state \in UpgradeStates
      /\ pc[u] # "done" /\ pc \in [Upgrades -> Awaiting \cup {"idle", "done", "lost"}]
  BY DEF UpgradeInv, UpgradeTypeOK, Active
<1>3. exec[u] \in Record
  BY <1>2 DEF NoRecord, UpgradeStates, Finished
<1>4. CASE PreflightRefuses(u) \/ SimulateRefuses(u)
  <2>1. exec'[u] = At(u, "failed") /\ containers' = containers
        /\ pc[u] \in {"preflight", "simulate"}
    BY <1>2, <1>4 DEF PreflightRefuses, SimulateRefuses, SaveNow, stackVars
  <2> QED
    BY <1>1, <1>3, <2>1 DEF At, Record
<1>5. CASE SmokeReturns(u)
  <2>1. exec'[u] = At(u, "success") /\ containers' = containers /\ overlay' = overlay
        /\ pc[u] = "smoke"
    BY <1>2, <1>5 DEF SmokeReturns, SaveNow, stackVars
  <2> QED
    BY <1>1, <1>3, <2>1 DEF At, Record
<1>6. ASSUME NEW down \in BOOLEAN, RollbackDownEnds(u, down)
      PROVE  exec'[u].state = "rolled_back" /\ ~exec'[u].rollback
  <2>1. PICK restored \in BOOLEAN, removed \in BOOLEAN :
          RestoreAndUp(u, down, restored, removed)
    BY <1>6 DEF RollbackDownEnds
  <2>2. ~backup
    BY <1>2, <2>1 DEF RestoreAndUp, Goto
  <2> QED
    BY <1>2, <2>1, <2>2 DEF RestoreAndUp, RolledBack, SaveNow
<1>7. ASSUME NEW up \in BOOLEAN, RollbackUpEnds(u, up)
      PROVE  /\ exec'[u].state = "rolled_back"
             /\ exec'[u].rollback =>
                  /\ containers' = Base
                  /\ stuck' \/ overlay' = NoOverlay
  <2>1. exec'[u] = [state |-> "rolled_back", rollback |-> exec[u].rollback /\ up]
    BY <1>2, <1>7 DEF RollbackUpEnds, RolledBack, SaveNow
  <2>2. exec'[u].state = "rolled_back" /\ (exec'[u].rollback => up)
    BY <2>1
  <2>3. (stuck' \/ overlay' = NoOverlay) /\ (up => containers' = Base)
    BY <1>1, <1>7 DEF RollbackUpEnds
  <2> QED
    BY <2>2, <2>3
<1>8. ~( \/ PreflightPasses(u) \/ SimulatePasses(u) \/ DownReturns(u) \/ PullReturns(u)
         \/ UpReturns(u) \/ Settled(u) \/ NoSmokeScript(u) \/ SuccessRaises(u)
         \/ StartRollback(u))
  BY <1>2
  DEF PreflightPasses, SimulatePasses, DownReturns, PullReturns, UpReturns, Settled,
      NoSmokeScript, SuccessRaises, StartRollback, Goto
<1> QED
  BY <1>4, <1>5, <1>6, <1>7, <1>8 DEF Step, Fails

(* An upgrade nobody disturbed is all or nothing, for any number of        *)
(* images, wherever it failed and whatever its rollback met; what alone    *)
(* may stay is an overlay whose removal failed.                            *)
THEOREM LoneUpgradesAreAtomic == Spec => LoneUpgradeIsAtomic
<1>1. UpgradeInv /\ [Next]_vars =>
        [ \A u \in Upgrades :
            (Active(u) /\ pc'[u] = "done" /\ alone[u]) =>
              \/ exec'[u].state = "failed" /\ containers' = before[u]
              \/ exec'[u].state = "success" /\ containers' = u /\ overlay' = u
              \/ /\ exec'[u].state = "rolled_back"
                 /\ exec'[u].rollback =>
                      /\ containers' = Base
                      /\ stuck' \/ overlay' = NoOverlay ]_vars
  BY EndIsOwn, LoneEnd
<1> QED
  BY <1>1, UpgradeInvHolds, PTL DEF Spec, LoneUpgradeIsAtomic

(* What the running server answers from, and while it is down what the     *)
(* next one will answer from.                                              *)
Answered == IF server = "up" THEN exec ELSE file

(* A save replaces one execution, in memory or in the file as well.        *)
LEMMA OneExecutionIsOneEntry ==
  ASSUME UpgradeInv, server = "up", server' = server, NEW u \in Upgrades, NEW r,
         exec' = [exec EXCEPT ![u] = r], file' \in {file, exec'}
  PROVE  ExecutionMap!Next
<1>1. Answered = exec /\ Answered' = exec'
  BY DEF Answered
<1>2. \A v \in Upgrades \ {u} : exec'[v] = exec[v]
  BY DEF UpgradeInv, UpgradeTypeOK
<1>3. ExecutionMap!OneEntryChanges
  BY <1>1, <1>2 DEF ExecutionMap!OneEntryChanges, Answered
<1> QED
  BY <1>1, <1>3 DEF ExecutionMap!Next, ExecutionMap!Mutate, ExecutionMap!MutateThrough, Answered

(* Every step is a step of the write-back map, or none.                    *)
LEMMA UpgradeStepsAreMapSteps ==
  UpgradeInv /\ [Next]_vars => [ExecutionMap!Next]_(ExecutionMap!wbVars)
<1> SUFFICES ASSUME UpgradeInv, [Next]_vars
             PROVE  ExecutionMap!Next \/ UNCHANGED ExecutionMap!wbVars
  OBVIOUS
<1>1. ASSUME NEW u \in Upgrades, server = "up", Request(u) \/ Step(u) \/ Fails(u)
      PROVE  ExecutionMap!Next
  <2>1. server' = server
    BY <1>1 DEF Request, Step, Fails, PreflightRefuses, PreflightPasses, SimulateRefuses,
                SimulatePasses, DownReturns, PullReturns, UpReturns, Settled, NoSmokeScript,
                SmokeReturns, SuccessRaises, StartRollback, RollbackDownEnds,
                RollbackUpEnds, KeepRest
  <2>2. \E r : \/ Debounce(u, r)
               \/ \E outcome \in Outcomes : SaveNow(u, r, outcome)
    BY <1>1 DEF Request, Step, Fails, PreflightRefuses, PreflightPasses, SimulateRefuses,
                SimulatePasses, DownReturns, PullReturns, UpReturns, Settled, NoSmokeScript,
                SmokeReturns, SuccessRaises, StartRollback, RollbackDownEnds,
                RollbackUpEnds, RestoreAndUp, RolledBack, Save
  <2>3. \E r : exec' = [exec EXCEPT ![u] = r] /\ file' \in {file, exec'}
    BY <2>2 DEF Debounce, SaveNow, WriteFile
  <2> QED
    BY <1>1, <2>1, <2>3, OneExecutionIsOneEntry
<1>2. CASE FlushTimer
  <2>1. server = "up" /\ server' = server /\ exec' = exec /\ file' \in {file, exec}
    BY <1>2 DEF FlushTimer, WriteFile
  <2> QED
    BY <2>1 DEF ExecutionMap!Next, ExecutionMap!Snapshot, ExecutionMap!wbVars
<1>3. CASE BeginTask \/ EndTask \/ Control \/ DeleteBackup
  BY <1>3 DEF BeginTask, EndTask, Control, DeleteBackup, executorVars, ExecutionMap!wbVars
<1>4. CASE Crash
  <2>1. server' = "down" /\ file' = file
    BY <1>4 DEF Crash
  <2> QED
    BY <2>1 DEF ExecutionMap!Next, ExecutionMap!LoseVolatile, ExecutionAsLoaded
<1>5. CASE Restart
  BY <1>5 DEF Restart, ExecutionMap!wbVars
<1>6. CASE UNCHANGED vars
  BY <1>6 DEF vars, executorVars, ExecutionMap!wbVars
<1> QED
  BY <1>1, <1>2, <1>3, <1>4, <1>5, <1>6 DEF Next, Request, Step

(* The executions implement the map with whole-file snapshots: however     *)
(* upgrades, their debounced and forced saves, failing writes, losses and  *)
(* restarts interleave, the file never mixes two moments, and a start takes every   *)
(* execution from it (_save, _load_executions).                            *)
THEOREM ExecutionsAreAWriteBackMap == Spec => ExecutionsWriteBack
<1>1. Init => ExecutionMap!Init
  BY DEF Init, ExecutionMap!Init
<1> QED
  BY <1>1, UpgradeInvHolds, UpgradeStepsAreMapSteps, PTL
  DEF Spec, ExecutionsWriteBack, ExecutionMap!Spec

-----------------------------------------------------------------------------
(* Ingest jobs *)

JobRecord ==
  [state : {"absent", "pending", "running"} \cup Ended, rows : Jobs \cup {None}]

Waiting == {"queued", "preflight", "staging", "script", "submitting"}

(* A job is no table, and no number is None. *)
LEMMA IngestFacts ==
  /\ MaxJobs \in Nat /\ MaxStarts \in Nat \ {0}
  /\ None \notin Jobs /\ None \notin Tables
  BY IngestAssumption DEF IngestAssumption, Jobs, None

(* A record of one job is changed in memory, and with it the file or not:  *)
(* a success has to report rows of its own.                                *)
LEMMA RecordingKeeps ==
  ASSUME IngestInv, NEW j \in Jobs, NEW r \in JobRecord,
         jobs' = [jobs EXCEPT ![j] = r], jobFile' \in {jobFile, jobs'},
         met \subseteq met',
         r.state = "success" => r.rows # None /\ (j \notin met => r.rows = j)
  PROVE  /\ jobs' \in [Jobs -> JobRecord] /\ jobFile' \in [Jobs -> JobRecord]
         /\ RowsAreItsOwn' /\ FileRowsAreItsOwn'
<1>1. jobs \in [Jobs -> JobRecord] /\ jobFile \in [Jobs -> JobRecord]
  BY DEF IngestInv, IngestTypeOK, JobRecord
<1>2. jobs' \in [Jobs -> JobRecord] /\ jobFile' \in [Jobs -> JobRecord]
  BY <1>1
<1>3. \A i \in Jobs : jobs'[i].state = "success" =>
        jobs'[i].rows # None /\ (i \notin met => jobs'[i].rows = i)
  BY <1>1 DEF IngestInv, RowsAreItsOwn
<1>4. \A i \in Jobs : jobFile'[i].state = "success" =>
        jobFile'[i].rows # None /\ (i \notin met => jobFile'[i].rows = i)
  BY <1>3 DEF IngestInv, FileRowsAreItsOwn, FindsItsOwn
<1> QED
  BY <1>2, <1>3, <1>4 DEF RowsAreItsOwn, FileRowsAreItsOwn, FindsItsOwn

(* No record is changed, whatever is met. *)
LEMMA SilenceKeeps ==
  ASSUME IngestInv, UNCHANGED <<jobs, jobFile>>, met \subseteq met'
  PROVE  /\ jobs' \in [Jobs -> JobRecord] /\ jobFile' \in [Jobs -> JobRecord]
         /\ RowsAreItsOwn' /\ FileRowsAreItsOwn'
  BY DEF IngestInv, IngestTypeOK, JobRecord, RowsAreItsOwn, FileRowsAreItsOwn, FindsItsOwn

(* A task goes on, beside a process that stays as it is. *)
LEMMA TaskGoesOn ==
  ASSUME IngestInv, NEW j \in Jobs, stage[j] # "none",
         NEW place \in Phases \cup {"queued", "dead", "done"}, Proceed(j, place),
         NEW known \in {"unknown", "rows", "silent", "error"},
         result' = [result EXCEPT ![j] = known],
         place \in Waiting => stage[j] \in Waiting,
         known # "unknown" => place = "cleanup",
         known = "rows" => spark[j] = "exited",
         UNCHANGED <<kind, target, spark, counted, table, met, starts>>,
         jobs' \in [Jobs -> JobRecord], jobFile' \in [Jobs -> JobRecord],
         RowsAreItsOwn', FileRowsAreItsOwn'
  PROVE  IngestInv'
<1>1. /\ stage' \in [Jobs -> Phases \cup {"none", "queued", "dead", "done"}]
      /\ result' \in [Jobs -> {"unknown", "rows", "silent", "error"}]
      /\ stage'[j] = place /\ result'[j] = known
      /\ \A i \in Jobs : i # j => stage'[i] = stage[i] /\ result'[i] = result[i]
  BY DEF Proceed, IngestInv, IngestTypeOK
<1>2. IngestTypeOK'
  BY <1>1 DEF IngestInv, IngestTypeOK, JobRecord
<1>3. ProcessFollowsTask'
  BY <1>1 DEF IngestInv, ProcessFollowsTask, Waiting
<1>4. TogetherIsMet' /\ CountsAreItsOwn'
  BY DEF IngestInv, TogetherIsMet, CountsAreItsOwn, Busy, FindsItsOwn
<1> QED
  BY <1>2, <1>3, <1>4 DEF IngestInv

(* A job is registered, with or without a task: its id was never used.     *)
LEMMA RegisterKeeps ==
  ASSUME IngestInv, NEW j \in Jobs, NEW k \in {"csv", "jdbc"}, NEW t \in Tables,
         KickOff(j, k, t) \/ KickOffWithoutDrivers(j, t)
  PROVE  IngestInv'
<1>1. /\ target[j] = None /\ target' = [target EXCEPT ![j] = t]
      /\ kind' \in [Jobs -> {"csv", "jdbc"}]
      /\ UNCHANGED <<result, spark, counted, table, met, starts>>
  BY DEF KickOff, KickOffWithoutDrivers, Register, IngestInv, IngestTypeOK
<1>2. PICK s \in {"pending", "failed"} :
        /\ jobs' = [jobs EXCEPT ![j] = [state |-> s, rows |-> None]]
        /\ jobFile' \in {jobFile, jobs'}
  BY DEF KickOff, KickOffWithoutDrivers, Persisted, Raised
<1>3. [state |-> s, rows |-> None] \in JobRecord
  BY DEF JobRecord, Ended
<1>4. /\ jobs' \in [Jobs -> JobRecord] /\ jobFile' \in [Jobs -> JobRecord]
      /\ RowsAreItsOwn' /\ FileRowsAreItsOwn'
  BY <1>1, <1>2, <1>3, RecordingKeeps
<1>5. /\ stage' \in [Jobs -> Phases \cup {"none", "queued", "dead", "done"}]
      /\ \A i \in Jobs : i # j => stage'[i] = stage[i]
      /\ stage'[j] \in {"none", "queued"}
  BY <1>1
  DEF KickOff, KickOffWithoutDrivers, Proceed, IngestInv, IngestTypeOK,
      ProcessFollowsTask
<1>6. /\ target' \in [Jobs -> Tables \cup {None}] /\ target'[j] = t /\ t # None
      /\ \A i \in Jobs : i # j => target'[i] = target[i]
  BY <1>1, IngestFacts DEF IngestInv, IngestTypeOK
<1>7. spark[j] = "none" /\ result[j] = "unknown"
  BY <1>1 DEF IngestInv, ProcessFollowsTask
<1>8. IngestTypeOK'
  BY <1>1, <1>4, <1>5, <1>6 DEF IngestInv, IngestTypeOK, JobRecord
<1>9. ProcessFollowsTask'
  BY <1>1, <1>5, <1>6, <1>7 DEF IngestInv, ProcessFollowsTask
<1>10. TogetherIsMet' /\ CountsAreItsOwn'
  BY <1>1, <1>6, <1>7
  DEF IngestInv, TogetherIsMet, CountsAreItsOwn, Busy, FindsItsOwn
<1> QED
  BY <1>4, <1>8, <1>9, <1>10 DEF IngestInv

(* A process is submitted beside those that are busy with the same table.  *)
LEMMA SubmitKeeps ==
  ASSUME IngestInv, NEW j \in Jobs, Submit(j)
  PROVE  IngestInv'
<1>1. /\ stage[j] = "submitting" /\ UNCHANGED <<jobs, jobFile, kind, target, counted, table, starts>>
  BY DEF Submit
<1>2. CASE /\ result' = [result EXCEPT ![j] = "error"] /\ Proceed(j, "cleanup")
           /\ UNCHANGED <<spark, met>>
  <2>1. /\ jobs' \in [Jobs -> JobRecord] /\ jobFile' \in [Jobs -> JobRecord]
        /\ RowsAreItsOwn' /\ FileRowsAreItsOwn'
    BY <1>1, <1>2, SilenceKeeps
  <2>2. "cleanup" \in Phases /\ "cleanup" \notin Waiting
    BY DEF Phases, Waiting
  <2> QED
    BY <1>1, <1>2, <2>1, <2>2, TaskGoesOn
<1>3. CASE /\ spark' = [spark EXCEPT ![j] = "running"] /\ Proceed(j, "submitted")
           /\ met' = IF Beside(j) = {} THEN met ELSE met \cup {j} \cup Beside(j)
           /\ UNCHANGED result
  <2>1. /\ spark[j] = "none" /\ target[j] # None /\ result[j] = "unknown"
    BY <1>1 DEF IngestInv, ProcessFollowsTask
  <2>2. /\ Beside(j) \subseteq Jobs /\ met \subseteq met' /\ met' \subseteq Jobs
        /\ Beside(j) # {} => {j} \cup Beside(j) \subseteq met'
    BY <1>3 DEF Beside, IngestInv, IngestTypeOK
  <2>3. /\ spark' \in [Jobs -> {"none", "running", "written", "exited", "failed"}]
        /\ stage' \in [Jobs -> Phases \cup {"none", "queued", "dead", "done"}]
        /\ spark'[j] = "running" /\ stage'[j] = "submitted"
        /\ \A i \in Jobs : i # j => spark'[i] = spark[i] /\ stage'[i] = stage[i]
    BY <1>3 DEF Proceed, Phases, IngestInv, IngestTypeOK
  <2>4. /\ jobs' \in [Jobs -> JobRecord] /\ jobFile' \in [Jobs -> JobRecord]
        /\ RowsAreItsOwn' /\ FileRowsAreItsOwn'
    BY <1>1, <2>2, SilenceKeeps
  <2>5. IngestTypeOK'
    BY <1>1, <1>3, <2>2, <2>3, <2>4 DEF IngestInv, IngestTypeOK, JobRecord
  <2>6. ProcessFollowsTask'
    BY <1>1, <1>3, <2>1, <2>3 DEF IngestInv, ProcessFollowsTask
  <2>7. TogetherIsMet'
    <3> SUFFICES ASSUME NEW i \in Jobs, NEW k \in Jobs, i # k, Busy(i)', Busy(k)',
                        target[i] = target[k]
        PROVE  i \in met'
      BY <1>1 DEF TogetherIsMet
    <3>1. CASE i = j
      <4>1. k \in Beside(j)
        BY <2>3, <3>1 DEF Beside, Busy
      <4> QED
        BY <2>2, <3>1, <4>1
    <3>2. CASE k = j
      <4>1. i \in Beside(j)
        BY <2>3, <3>2 DEF Beside, Busy
      <4> QED
        BY <2>2, <4>1
    <3>3. CASE i # j /\ k # j
      BY <2>2, <2>3, <3>3 DEF IngestInv, TogetherIsMet, Busy
    <3> QED
      BY <3>1, <3>2, <3>3
  <2>8. CountsAreItsOwn'
    BY <1>1, <2>2, <2>3 DEF IngestInv, CountsAreItsOwn, FindsItsOwn
  <2> QED
    BY <2>4, <2>5, <2>6, <2>7, <2>8 DEF IngestInv
<1> QED
  BY <1>2, <1>3 DEF Submit

(* The other steps of a task: a success reports what the process counted.  *)
LEMMA JobStepKeeps ==
  ASSUME IngestInv, NEW j \in Jobs, Begin(j) \/ Command(j) \/ SubmitEnds(j) \/ Finish(j)
  PROVE  IngestInv'
<1>0. /\ result \in [Jobs -> {"unknown", "rows", "silent", "error"}]
      /\ \A s \in {"pending", "running", "failed"} : [state |-> s, rows |-> None] \in JobRecord
  BY DEF IngestInv, IngestTypeOK, JobRecord, Ended
<1>a. ASSUME NEW s \in {"pending", "running", "failed"},
             jobs' = [jobs EXCEPT ![j] = [state |-> s, rows |-> None]],
             jobFile' \in {jobFile, jobs'}, met' = met
      PROVE  /\ jobs' \in [Jobs -> JobRecord] /\ jobFile' \in [Jobs -> JobRecord]
             /\ RowsAreItsOwn' /\ FileRowsAreItsOwn'
  <2>1. [state |-> s, rows |-> None].state # "success"
    OBVIOUS
  <2> QED
    BY <1>0, <1>a, <2>1, RecordingKeeps
<1>b. /\ Waiting \subseteq Phases \cup {"queued", "dead", "done"}
      /\ {"cleanup", "submitted"} \subseteq Phases
      /\ Waiting \cap {"cleanup", "submitted", "dead", "done", "none"} = {}
  BY DEF Waiting, Phases
<1>1. CASE Begin(j)
  <2>1. /\ stage[j] = "queued" /\ UNCHANGED unmoved
        /\ jobs' = [jobs EXCEPT ![j] = [state |-> "running", rows |-> None]]
        /\ jobFile' \in {jobFile, jobs'}
    BY <1>1 DEF Begin, Persisted, Raised
  <2>2. PICK place \in {"preflight", "dead"} : Proceed(j, place)
    BY <1>1 DEF Begin
  <2>3. stage[j] \in Waiting /\ place \in Phases \cup {"queued", "dead", "done"}
    BY <2>1 DEF Waiting, Phases
  <2>4. result[j] = "unknown"
    BY <2>1 DEF IngestInv, ProcessFollowsTask
  <2>5. result' = [result EXCEPT ![j] = "unknown"]
        /\ UNCHANGED <<kind, target, spark, counted, table, met, starts>>
    BY <1>0, <2>1, <2>4 DEF unmoved
  <2>6. /\ jobs' \in [Jobs -> JobRecord] /\ jobFile' \in [Jobs -> JobRecord]
        /\ RowsAreItsOwn' /\ FileRowsAreItsOwn'
    BY <1>a, <2>1, <2>5
  <2> QED
    BY <2>1, <2>2, <2>3, <2>5, <2>6, TaskGoesOn
<1>2. CASE Command(j)
  <2>1. stage[j] \in {"preflight", "staging", "script"} /\ UNCHANGED unmoved
    BY <1>2 DEF Command, Following
  <2>2. PICK place \in {"staging", "script", "submitting", "done", "dead"} :
          /\ Proceed(j, place)
          /\ \/ UNCHANGED <<jobs, jobFile>>
             \/ /\ jobs' = [jobs EXCEPT ![j] = [state |-> "failed", rows |-> None]]
                /\ jobFile' \in {jobFile, jobs'}
    BY <1>2, <2>1 DEF Command, Following, Fail, Persisted, Raised
  <2>3. stage[j] \in Waiting /\ place \in Phases \cup {"queued", "dead", "done"}
    BY <2>1 DEF Waiting, Phases
  <2>4. result[j] = "unknown"
    BY <2>1 DEF IngestInv, ProcessFollowsTask
  <2>5. result' = [result EXCEPT ![j] = "unknown"]
        /\ UNCHANGED <<kind, target, spark, counted, table, met, starts>>
    BY <1>0, <2>1, <2>4 DEF unmoved
  <2>6. /\ jobs' \in [Jobs -> JobRecord] /\ jobFile' \in [Jobs -> JobRecord]
        /\ RowsAreItsOwn' /\ FileRowsAreItsOwn'
    BY <1>a, <2>2, <2>5, SilenceKeeps
  <2> QED
    BY <2>1, <2>2, <2>3, <2>5, <2>6, TaskGoesOn
<1>3. CASE SubmitEnds(j)
  <2>1. /\ stage[j] = "submitted" /\ Proceed(j, "cleanup")
        /\ UNCHANGED <<jobs, jobFile, kind, target, spark, counted, table, met, starts>>
    BY <1>3 DEF SubmitEnds
  <2>2. PICK known \in {"rows", "silent", "error"} :
          result' = [result EXCEPT ![j] = known] /\ (known = "rows" => spark[j] = "exited")
    BY <1>3 DEF SubmitEnds, ClientEnds, Returned, GaveUp
  <2>3. /\ jobs' \in [Jobs -> JobRecord] /\ jobFile' \in [Jobs -> JobRecord]
        /\ RowsAreItsOwn' /\ FileRowsAreItsOwn'
    BY <2>1, SilenceKeeps
  <2> QED
    BY <1>b, <2>1, <2>2, <2>3, TaskGoesOn
<1>4. CASE Finish(j)
  <2>1. /\ stage[j] = "cleanup" /\ result' = [result EXCEPT ![j] = "unknown"]
        /\ UNCHANGED <<kind, target, spark, counted, table, met, starts>>
    BY <1>4 DEF Finish
  <2>2. PICK place \in {"done", "dead"} : Proceed(j, place)
    BY <1>4 DEF Finish, Fail
  <2>3. /\ jobs' \in [Jobs -> JobRecord] /\ jobFile' \in [Jobs -> JobRecord]
        /\ RowsAreItsOwn' /\ FileRowsAreItsOwn'
    <3>1. CASE Reported(result[j])
      <4>1. /\ jobs' = [jobs EXCEPT ![j] = [state |-> "success", rows |-> counted[j]]]
            /\ jobFile' \in {jobFile, jobs'}
        BY <1>4, <3>1 DEF Finish, Reported, Persisted
      <4>2. spark[j] = "exited" /\ counted[j] \in Jobs \cup {None}
        BY <3>1 DEF Reported, IngestInv, IngestTypeOK, ProcessFollowsTask
      <4>3. counted[j] # None /\ (j \notin met => counted[j] = j)
        BY <4>2 DEF IngestInv, CountsAreItsOwn, FindsItsOwn
      <4>4. [state |-> "success", rows |-> counted[j]] \in JobRecord
        BY <4>2 DEF JobRecord, Ended
      <4> QED
        BY <2>1, <4>1, <4>3, <4>4, RecordingKeeps
    <3>2. CASE ~Reported(result[j])
      <4>1. /\ jobs' = [jobs EXCEPT ![j] = [state |-> "failed", rows |-> None]]
            /\ jobFile' \in {jobFile, jobs'}
        BY <1>4, <3>2 DEF Finish, Fail, Persisted, Raised
      <4> QED
        BY <1>a, <2>1, <4>1
    <3> QED
      BY <3>1, <3>2
  <2> QED
    BY <1>b, <2>1, <2>2, <2>3, TaskGoesOn
<1> QED
  BY <1>1, <1>2, <1>3, <1>4

(* The process writes, counts what the table then holds, or dies: whoever  *)
(* overwrote it meanwhile has met it.                                      *)
LEMMA ProcessStepKeeps ==
  ASSUME IngestInv, NEW j \in Jobs, Write(j) \/ Count(j) \/ Die(j)
  PROVE  IngestInv'
<1>1. UNCHANGED <<jobs, jobFile, kind, target, stage, result, met, starts>>
  BY DEF Write, Count, Die
<1>2. /\ jobs' \in [Jobs -> JobRecord] /\ jobFile' \in [Jobs -> JobRecord]
      /\ RowsAreItsOwn' /\ FileRowsAreItsOwn'
  BY <1>1, SilenceKeeps
<1>3. PICK new \in {"written", "exited", "failed"} : spark' = [spark EXCEPT ![j] = new]
  BY DEF Write, Count, Die
<1>4. /\ spark' \in [Jobs -> {"none", "running", "written", "exited", "failed"}]
      /\ spark'[j] = new /\ \A i \in Jobs : i # j => spark'[i] = spark[i]
      /\ Busy(j)
  BY <1>3 DEF Write, Count, Die, Busy, IngestInv, IngestTypeOK
<1>5. target[j] \in Tables /\ stage[j] \notin Waiting
  BY <1>4 DEF Busy, IngestInv, IngestTypeOK, ProcessFollowsTask, Waiting
<1>6. /\ counted' \in [Jobs -> Jobs \cup {None}] /\ table' \in [Tables -> Jobs \cup {None}]
      /\ \A i \in Jobs : i # j => counted'[i] = counted[i]
  BY <1>5 DEF Write, Count, Die, IngestInv, IngestTypeOK
<1>7. IngestTypeOK'
  BY <1>1, <1>2, <1>4, <1>6 DEF IngestInv, IngestTypeOK, JobRecord
<1>8. result[j] # "rows"
  BY <1>4 DEF Busy, IngestInv, ProcessFollowsTask
<1>9. ProcessFollowsTask'
  BY <1>1, <1>4, <1>5, <1>8, IngestFacts DEF IngestInv, ProcessFollowsTask, Waiting
<1>10. TogetherIsMet'
  BY <1>1, <1>4 DEF IngestInv, TogetherIsMet, Busy
<1>11. CountsAreItsOwn'
  <2>1. CASE Write(j)
    <3>1. table' = [table EXCEPT ![target[j]] = j] /\ counted' = counted
          /\ spark' = [spark EXCEPT ![j] = "written"]
      BY <2>1 DEF Write
    <3>2. \A i \in Jobs : spark[i] = "written" /\ target[i] = target[j] => i \in met \/ i = j
      BY <1>4 DEF IngestInv, TogetherIsMet, Busy
    <3>3. table \in [Tables -> Jobs \cup {None}] /\ table'[target[j]] = j /\ j # None
      BY <1>5, <3>1, IngestFacts DEF IngestInv, IngestTypeOK
    <3>4. \A i \in Jobs : target[i] # target[j] => table'[target[i]] = table[target[i]]
      BY <3>1, <3>3
    <3>5. \A i \in Jobs : i # j =>
            /\ spark[i] = "written" => FindsItsOwn(i, table[target[i]])
            /\ spark[i] = "exited" => FindsItsOwn(i, counted[i])
      BY DEF IngestInv, CountsAreItsOwn
    <3>6. \A i \in Jobs : spark'[i] = "written" => FindsItsOwn(i, table'[target[i]])
      BY <1>4, <3>2, <3>3, <3>4, <3>5 DEF FindsItsOwn
    <3>7. \A i \in Jobs : spark'[i] = "exited" => FindsItsOwn(i, counted[i])
      BY <1>4, <3>1, <3>5
    <3>8. \A i \in Jobs : FindsItsOwn(i, table[target[i]])' <=> FindsItsOwn(i, table'[target[i]])
      BY <1>1 DEF FindsItsOwn
    <3>9. \A i \in Jobs : FindsItsOwn(i, counted[i])' <=> FindsItsOwn(i, counted[i])
      BY <1>1, <3>1 DEF FindsItsOwn
    <3> QED
      BY <3>6, <3>7, <3>8, <3>9 DEF CountsAreItsOwn
  <2>2. CASE Count(j)
    <3>1. /\ spark[j] = "written" /\ counted' = [counted EXCEPT ![j] = table[target[j]]]
          /\ table' = table /\ spark' = [spark EXCEPT ![j] = "exited"]
      BY <2>2 DEF Count
    <3>2. counted'[j] = table[target[j]] /\ spark'[j] = "exited"
      BY <3>1 DEF IngestInv, IngestTypeOK
    <3>3. \A i \in Jobs : i # j =>
            /\ spark[i] = "written" => FindsItsOwn(i, table[target[i]])
            /\ spark[i] = "exited" => FindsItsOwn(i, counted[i])
      BY DEF IngestInv, CountsAreItsOwn
    <3>4. FindsItsOwn(j, counted'[j])
      BY <3>1, <3>2 DEF IngestInv, CountsAreItsOwn
    <3>5. \A i \in Jobs : FindsItsOwn(i, table[target[i]])' <=> FindsItsOwn(i, table[target[i]])
      BY <1>1, <3>1 DEF FindsItsOwn
    <3>6. \A i \in Jobs : FindsItsOwn(i, counted[i])' <=> FindsItsOwn(i, counted'[i])
      BY <1>1 DEF FindsItsOwn
    <3> QED
      BY <1>4, <1>6, <3>1, <3>2, <3>3, <3>4, <3>5, <3>6 DEF CountsAreItsOwn
  <2>3. CASE Die(j)
    <3>1. spark' = [spark EXCEPT ![j] = "failed"] /\ UNCHANGED <<counted, table>>
      BY <2>3 DEF Die
    <3>2. spark'[j] = "failed"
      BY <3>1 DEF IngestInv, IngestTypeOK
    <3>3. \A i \in Jobs : spark'[i] \in {"written", "exited"} => spark'[i] = spark[i]
      BY <1>4, <3>2
    <3> QED
      BY <1>1, <3>1, <3>3 DEF IngestInv, CountsAreItsOwn, FindsItsOwn
  <2> QED
    BY <2>1, <2>2, <2>3
<1> QED
  BY <1>2, <1>7, <1>9, <1>10, <1>11 DEF IngestInv

(* The next server takes the records from the file and knows of no process. *)
LEMMA IngestRestartKeeps ==
  ASSUME IngestInv, IngestRestart
  PROVE  IngestInv'
<1>1. /\ jobs' = jobFile /\ starts' = starts + 1 /\ starts < MaxStarts
      /\ stage' = [j \in Jobs |-> "none"] /\ result' = [j \in Jobs |-> "unknown"]
      /\ UNCHANGED <<jobFile, kind, target, spark, counted, table, met>>
  BY DEF IngestRestart
<1>2. starts' \in 1..MaxStarts
  BY <1>1, IngestFacts DEF IngestInv, IngestTypeOK
<1>3. IngestTypeOK'
  BY <1>1, <1>2 DEF IngestInv, IngestTypeOK
<1>4. ProcessFollowsTask'
  BY <1>1 DEF IngestInv, ProcessFollowsTask
<1>5. TogetherIsMet' /\ CountsAreItsOwn'
  BY <1>1 DEF IngestInv, TogetherIsMet, CountsAreItsOwn, Busy, FindsItsOwn
<1>6. RowsAreItsOwn' /\ FileRowsAreItsOwn'
  BY <1>1 DEF IngestInv, RowsAreItsOwn, FileRowsAreItsOwn, FindsItsOwn
<1> QED
  BY <1>3, <1>4, <1>5, <1>6 DEF IngestInv

(* The invariant holds however jobs, their processes in the container and  *)
(* restarts of the server interleave.                                      *)
THEOREM IngestInvHolds == IngestSpec => []IngestInv
<1>1. IngestInit => IngestInv
  <2> SUFFICES ASSUME IngestInit PROVE IngestInv
    OBVIOUS
  <2>1. Absent.state # "success"
    BY DEF Absent
  <2>2. IngestTypeOK
    BY IngestFacts DEF IngestInit, IngestTypeOK, Absent
  <2> QED
    BY <2>1, <2>2
    DEF IngestInit, IngestInv, ProcessFollowsTask, TogetherIsMet, CountsAreItsOwn, Busy,
        RowsAreItsOwn, FileRowsAreItsOwn
<1>2. IngestInv /\ [IngestNext]_ingestVars => IngestInv'
  <2> SUFFICES ASSUME IngestInv, [IngestNext]_ingestVars PROVE IngestInv'
    OBVIOUS
  <2>1. CASE IngestNext
    BY <2>1, RegisterKeeps, JobStepKeeps, SubmitKeeps, ProcessStepKeeps, IngestRestartKeeps
    DEF IngestNext, TaskStep
  <2>2. CASE UNCHANGED ingestVars
    BY <2>2
    DEF ingestVars, IngestInv, IngestTypeOK, ProcessFollowsTask, TogetherIsMet, CountsAreItsOwn,
        Busy, RowsAreItsOwn, FileRowsAreItsOwn, FindsItsOwn
  <2> QED
    BY <2>1, <2>2
<1> QED
  BY <1>1, <1>2, PTL DEF IngestSpec

(* Jobs, processes and tables stay in their domains. *)
THEOREM IngestsStayTyped == IngestSpec => []IngestTypeOK
<1>1. IngestInv => IngestTypeOK
  BY DEF IngestInv
<1> QED
  BY <1>1, IngestInvHolds, PTL

(* For any number of jobs and tables: a success was written and counted,   *)
(* and the rows it reports are its own unless another process of its table *)
(* ran beside its own, also after the server was lost and started again.   *)
THEOREM ReportedRowsAreOwn == IngestSpec => []RowsAreItsOwn
<1>1. IngestInv => RowsAreItsOwn
  BY DEF IngestInv
<1> QED
  BY <1>1, IngestInvHolds, PTL

(* A record that is replaced in memory, and with it the file or not.       *)
LEMMA OneJobIsOneEntry ==
  ASSUME IngestInv, NEW j \in Jobs, NEW r,
         jobs' = [jobs EXCEPT ![j] = r], jobFile' \in {jobFile, jobs'}
  PROVE  JobMap!Next
<1>1. \A i \in Jobs \ {j} : jobs'[i] = jobs[i]
  BY DEF IngestInv, IngestTypeOK
<1> QED
  BY <1>1 DEF JobMap!Next, JobMap!OneEntryChanges, JobMap!Mutate, JobMap!MutateThrough

(* Every step is a step of the write-back map, or none.                    *)
LEMMA IngestStepsAreMapSteps ==
  IngestInv /\ [IngestNext]_ingestVars => [JobMap!Next]_(JobMap!wbVars)
<1> SUFFICES ASSUME IngestInv, [IngestNext]_ingestVars
             PROVE  JobMap!Next \/ UNCHANGED JobMap!wbVars
  OBVIOUS
<1>1. ASSUME NEW j \in Jobs,
             \/ \E k \in {"csv", "jdbc"}, t \in Tables : KickOff(j, k, t)
             \/ \E t \in Tables : KickOffWithoutDrivers(j, t)
             \/ Begin(j) \/ Command(j) \/ Finish(j)
      PROVE  JobMap!Next \/ UNCHANGED JobMap!wbVars
  <2>1. \/ \E r : jobs' = [jobs EXCEPT ![j] = r] /\ jobFile' \in {jobFile, jobs'}
        \/ UNCHANGED <<jobs, jobFile>>
    BY <1>1 DEF KickOff, KickOffWithoutDrivers, Begin, Command, Finish, Persisted, Raised, Fail
  <2> QED
    BY <2>1, OneJobIsOneEntry DEF JobMap!wbVars
<1>2. ASSUME NEW j \in Jobs,
             Submit(j) \/ SubmitEnds(j) \/ Write(j) \/ Count(j) \/ Die(j)
      PROVE  UNCHANGED JobMap!wbVars
  BY <1>2 DEF Submit, SubmitEnds, Write, Count, Die, JobMap!wbVars
<1>3. CASE IngestRestart
  BY <1>3 DEF IngestRestart, JobMap!Next, JobMap!LoseVolatile, JobAsLoaded
<1>4. CASE UNCHANGED ingestVars
  BY <1>4 DEF ingestVars, JobMap!wbVars
<1> QED
  BY <1>1, <1>2, <1>3, <1>4 DEF IngestNext, TaskStep

(* The job file implements the map with whole-file snapshots: whatever     *)
(* writes are given up or raise between which jobs, it never mixes two     *)
(* moments, and a start takes every record from it                         *)
(* (_write_ingest_now_locked, _load_ingest_jobs).                          *)
THEOREM JobsAreAWriteBackMap == IngestSpec => JobsWriteBack
<1>1. IngestInit => JobMap!Init
  BY DEF IngestInit, JobMap!Init
<1> QED
  BY <1>1, IngestInvHolds, IngestStepsAreMapSteps, PTL DEF IngestSpec, JobsWriteBack, JobMap!Spec

-----------------------------------------------------------------------------
(* Backup schedules *)

(* Where a writer stands, what its handle names and what a file may hold.  *)
Places == {"idle", "backup", "load", "read", "open", "write", "replace"}
HandleNames == {"none", "tmp", "file", "unlinked"}
FileContents == {NoFile, Torn} \cup [kind: {"whole"}, schedules: Documents]

(* "No entry" is an entry like others, so an empty document is a document. *)
LEMMA UnsetIsAnEntry ==
  /\ Unset \in Entry /\ Empty \in Documents /\ Anyone \in Installs
  /\ Empty = [i \in Installs |-> Unset]
<1>1. Unset \in Entry  BY DEF Unset, Entry, Never
<1>2. Empty \in Documents  BY <1>1 DEF Empty, Documents
<1>3. Anyone \in Installs  BY ScheduleAssumption DEF Anyone, ScheduleAssumption
<1> QED  BY <1>1, <1>2, <1>3 DEF Empty

(* Whatever the file holds, a reader goes on with a document.              *)
LEMMA ReadIsADocument == EntriesAreWhole => Read \in Documents
<1> SUFFICES ASSUME EntriesAreWhole PROVE Read \in Documents
  OBVIOUS
<1>1. CASE scheduleFile.kind = "whole"
  BY <1>1 DEF EntriesAreWhole, Read, NoFile, Torn
<1>2. CASE scheduleFile.kind # "whole"
  BY <1>2, UnsetIsAnEntry DEF Read
<1> QED  BY <1>1, <1>2

(* The scheduler is a writer and none of the threads that serve a save.    *)
LEMMA WritersAre == Scheduler \in Writers /\ Savers \subseteq Writers /\ Scheduler \notin Savers
BY ScheduleAssumption DEF ScheduleAssumption, Writers, Scheduler

(* Without a file and with every writer idle.                              *)
LEMMA SchedulesStart == SchedulesInit => ScheduleInv
<1> SUFFICES ASSUME SchedulesInit PROVE ScheduleInv
  OBVIOUS
<1>1. EntriesAreWhole
  BY UnsetIsAnEntry DEF SchedulesInit, EntriesAreWhole
<1>2. CursorUpdateIsAlone
  BY WritersAre DEF SchedulesInit, CursorUpdateIsAlone
<1> QED  BY <1>1, <1>2 DEF ScheduleInv

(* Moving a torn file aside leaves a whole one, and who has it open, alone. *)
LEMMA AsideKeeps == EntriesAreWhole /\ MoveAsideIfTorn =>
  /\ scheduleFile' \in FileContents /\ fd' \in [Writers -> HandleNames]
  /\ scheduleFile.kind = "whole" => scheduleFile' = scheduleFile /\ fd' = fd
<1> SUFFICES ASSUME EntriesAreWhole, MoveAsideIfTorn PROVE
      /\ scheduleFile' \in FileContents /\ fd' \in [Writers -> HandleNames]
      /\ scheduleFile.kind = "whole" => scheduleFile' = scheduleFile /\ fd' = fd
  OBVIOUS
<1>1. scheduleFile' \in FileContents
  BY DEF EntriesAreWhole, MoveAsideIfTorn, FileContents
<1>2. fd' \in [Writers -> HandleNames]
  BY DEF EntriesAreWhole, MoveAsideIfTorn, HandleNames
<1>3. ASSUME scheduleFile.kind = "whole" PROVE scheduleFile' = scheduleFile /\ fd' = fd
  <2>1. scheduleFile # Torn  BY <1>3 DEF Torn
  <2>2. fd' = [w \in Writers |-> fd[w]]  BY <2>1 DEF MoveAsideIfTorn
  <2> QED  BY <2>1, <2>2 DEF MoveAsideIfTorn, EntriesAreWhole
<1> QED  BY <1>1, <1>2, <1>3

(* A writer that ends disturbs no other one.                               *)
LEMMA EndsKeeps ==
  ASSUME EntriesAreWhole, NEW w \in Writers, Ends(w)
  PROVE  /\ at' \in [Writers -> Places] /\ at'[w] = "idle"
         /\ \A v \in Writers \ {w} : at'[v] = at[v]
         /\ whose' \in [Writers -> Installs]
         /\ mine' \in [Writers -> Entry]
         /\ document' \in [Writers -> Documents]
         /\ \A v \in Writers \ {w} : document'[v] = document[v]
<1>1. at' \in [Writers -> Places] /\ at'[w] = "idle" /\ \A v \in Writers \ {w} : at'[v] = at[v]
  BY DEF EntriesAreWhole, Ends, MovesTo, Places
<1>2. whose' \in [Writers -> Installs]
  BY UnsetIsAnEntry DEF EntriesAreWhole, Ends
<1>3. mine' \in [Writers -> Entry]
  BY UnsetIsAnEntry DEF EntriesAreWhole, Ends
<1>4. document' \in [Writers -> Documents] /\ \A v \in Writers \ {w} : document'[v] = document[v]
  BY UnsetIsAnEntry DEF EntriesAreWhole, Ends
<1> QED  BY <1>1, <1>2, <1>3, <1>4

(* Files, documents and entries keep their shape, action by action.        *)
LEMMA StepKeepsEntries == EntriesAreWhole /\ ScheduleStep => EntriesAreWhole'
<1> SUFFICES ASSUME EntriesAreWhole, ScheduleStep PROVE EntriesAreWhole'
  OBVIOUS
<1> USE WritersAre
<1>1. ASSUME NEW w \in Savers, NEW i \in Installs, NEW enabled \in BOOLEAN, NEW n \in Intervals,
             BeginSave(w, i, enabled, n)
      PROVE  EntriesAreWhole'
  <2>1. [enabled |-> enabled, interval |-> n,
         next |-> IF enabled THEN clock + n ELSE Never] \in Entry
    BY ScheduleAssumption DEF Entry, ScheduleAssumption, EntriesAreWhole, Never
  <2>2. mine' \in [Writers -> Entry]
    BY <1>1, <2>1 DEF BeginSave, EntriesAreWhole
  <2>3. whose' \in [Writers -> Installs]
    BY <1>1 DEF BeginSave, EntriesAreWhole
  <2>4. at' \in [Writers -> Places]
    BY <1>1 DEF BeginSave, EntriesAreWhole, MovesTo, Places
  <2> QED  BY <1>1, <2>2, <2>3, <2>4 DEF BeginSave, EntriesAreWhole, Places
<1>2. ASSUME NEW w \in Writers, LoadCurrent(w) PROVE EntriesAreWhole'
  <2>1. at' \in [Writers -> Places]
    BY <1>2 DEF LoadCurrent, EntriesAreWhole, MovesTo, Places
  <2> QED
    BY <1>2, <2>1, AsideKeeps
    DEF LoadCurrent, EntriesAreWhole, Places, HandleNames, FileContents
<1>3. ASSUME NEW w \in Writers, ReadForSave(w) PROVE EntriesAreWhole'
  <2>1. at' \in [Writers -> Places]
    BY <1>3 DEF ReadForSave, EntriesAreWhole, MovesTo, Places
  <2>2. [Read EXCEPT ![whose[w]] = mine[w]] \in Documents
    BY ReadIsADocument DEF EntriesAreWhole, Documents
  <2>3. document' \in [Writers -> Documents]
    BY <1>3, <2>2 DEF ReadForSave, EntriesAreWhole
  <2> QED
    BY <1>3, <2>1, <2>3, AsideKeeps
    DEF ReadForSave, EntriesAreWhole, Places, HandleNames, FileContents
<1>4. ASSUME ReadForCursor PROVE EntriesAreWhole'
  <2>1. CASE Read[whose[Scheduler]] = Unset
    <3>1. Ends(Scheduler)  BY <1>4, <2>1 DEF ReadForCursor
    <3> QED
      BY <1>4, <3>1, AsideKeeps, EndsKeeps
      DEF ReadForCursor, EntriesAreWhole, Places, HandleNames, FileContents
  <2>2. CASE Read[whose[Scheduler]] # Unset
    <3>1. at' \in [Writers -> Places]
      BY <1>4, <2>2 DEF ReadForCursor, EntriesAreWhole, MovesTo, Places
    <3>2. Read \in [Installs -> Entry] /\ whose[Scheduler] \in Installs /\ mine[Scheduler].next \in Int
      BY ReadIsADocument DEF EntriesAreWhole, Documents, Entry
    <3>3. [Read[whose[Scheduler]] EXCEPT !.next = mine[Scheduler].next] \in Entry
      BY <3>2 DEF Entry
    <3>4. [Read EXCEPT ![whose[Scheduler]].next = mine[Scheduler].next] \in Documents
      BY <3>2, <3>3 DEF Documents
    <3>5. document' \in [Writers -> Documents]
      BY <1>4, <2>2, <3>4 DEF ReadForCursor, EntriesAreWhole
    <3> QED
      BY <1>4, <2>2, <3>1, <3>5, AsideKeeps
      DEF ReadForCursor, EntriesAreWhole, Places, HandleNames, FileContents
  <2> QED  BY <2>1, <2>2
<1>5. ASSUME NEW w \in Writers, OpenTmp(w) PROVE EntriesAreWhole'
  <2>1. at' \in [Writers -> Places]
    BY <1>5 DEF OpenTmp, EntriesAreWhole, MovesTo, Places
  <2>2. fd' \in [Writers -> HandleNames]
    BY <1>5 DEF OpenTmp, EntriesAreWhole, HandleNames
  <2> QED  BY <1>5, <2>1, <2>2 DEF OpenTmp, EntriesAreWhole, Places, HandleNames
<1>6. ASSUME NEW w \in Writers, WriteTmp(w) PROVE EntriesAreWhole'
  <2>1. at' \in [Writers -> Places]
    BY <1>6 DEF WriteTmp, EntriesAreWhole, MovesTo, Places
  <2>2. fd' \in [Writers -> HandleNames]
    BY <1>6 DEF WriteTmp, EntriesAreWhole, HandleNames
  <2>3. Whole(document[w]) \in FileContents
    BY DEF Whole, EntriesAreWhole, FileContents
  <2>4. scheduleFile' \in FileContents /\ tmp' \in FileContents
    BY <1>6, <2>3 DEF WriteTmp, EntriesAreWhole, FileContents
  <2> QED
    BY <1>6, <2>1, <2>2, <2>4
    DEF WriteTmp, EntriesAreWhole, Places, HandleNames, FileContents
<1>7. ASSUME NEW w \in Writers, Replace(w) PROVE EntriesAreWhole'
  <2>1. Ends(w)  BY <1>7 DEF Replace
  <2>2. fd' \in [Writers -> HandleNames]
    BY <1>7 DEF Replace, EntriesAreWhole, HandleNames
  <2>4. scheduleFile' \in FileContents /\ tmp' \in FileContents
    BY <1>7 DEF Replace, EntriesAreWhole, FileContents
  <2> QED
    BY <1>7, <2>1, EndsKeeps, <2>2, <2>4
    DEF Replace, EntriesAreWhole, Places, HandleNames, FileContents
<1>8. ASSUME Tick PROVE EntriesAreWhole'
  <2>1. due' \in Documents
    BY <1>8, ReadIsADocument, UnsetIsAnEntry DEF Tick, Documents
  <2>2. tickTime' \in Nat
    BY <1>8 DEF Tick, EntriesAreWhole
  <2> QED
    BY <1>8, <2>1, <2>2, AsideKeeps
    DEF Tick, EntriesAreWhole, Places, HandleNames, FileContents
<1>9. ASSUME NEW i \in Installs, Fire(i) PROVE EntriesAreWhole'
  <2>1. at' \in [Writers -> Places]
    BY <1>9 DEF Fire, EntriesAreWhole, MovesTo, Places
  <2>2. whose' \in [Writers -> Installs]
    BY <1>9 DEF Fire, EntriesAreWhole
  <2> QED  BY <1>9, <2>1, <2>2 DEF Fire, EntriesAreWhole, Places
<1>10. ASSUME TickGoesOn PROVE due' \in Documents /\ tickTime' \in Nat
  BY <1>10, UnsetIsAnEntry DEF TickGoesOn, EntriesAreWhole, Documents
<1>11. ASSUME BackupSucceeds PROVE EntriesAreWhole'
  <2>1. at' \in [Writers -> Places]
    BY <1>11 DEF BackupSucceeds, EntriesAreWhole, MovesTo, Places
  <2>2. due[whose[Scheduler]] \in Entry
    BY DEF EntriesAreWhole, Documents
  <2>3. [due[whose[Scheduler]] EXCEPT !.next = tickTime + due[whose[Scheduler]].interval] \in Entry
    BY <2>2 DEF Entry, EntriesAreWhole
  <2>4. mine' \in [Writers -> Entry]
    BY <1>11, <2>3 DEF BackupSucceeds, EntriesAreWhole
  <2> QED  BY <1>11, <1>10, <2>1, <2>4 DEF BackupSucceeds, EntriesAreWhole, Places
<1>12. ASSUME BackupFails PROVE EntriesAreWhole'
  BY <1>12, <1>10, EndsKeeps DEF BackupFails, EntriesAreWhole, Places
<1>13. ASSUME Hour PROVE EntriesAreWhole'
  BY <1>13 DEF Hour, writerVars, EntriesAreWhole
<1>14. ASSUME ScheduleRestart PROVE EntriesAreWhole'
  BY <1>14, UnsetIsAnEntry DEF ScheduleRestart, EntriesAreWhole
<1> QED
  BY <1>1, <1>2, <1>3, <1>4, <1>5, <1>6, <1>7, <1>8, <1>9, <1>11, <1>12, <1>13, <1>14
  DEF ScheduleStep, SchedulerStep, WriterStep


(* The heart of the argument: the history is false once a save holds a     *)
(* file during the cursor update, so only the scheduler and requests that  *)
(* do not write yet are left to go by, and each keeps what has been        *)
(* prepared - the document, then the open file, then the temporary one.    *)
LEMMA CursorStaysAlone == ScheduleInv /\ ScheduleStep /\ History => CursorUpdateIsAlone'
<1> SUFFICES ASSUME ScheduleInv, ScheduleStep, History,
                    serial', at'[Scheduler] \in {"open", "write", "replace"}
             PROVE  /\ \A w \in Savers : ~Writing(w)'
                    /\ scheduleFile'.kind = "whole"
                    /\ \A i \in Installs :
                         Settings(document'[Scheduler][i]) = Settings(scheduleFile'.schedules[i])
                    /\ at'[Scheduler] = "write" => fd'[Scheduler] = "tmp"
                    /\ at'[Scheduler] = "replace" => tmp' = Whole(document'[Scheduler])
  BY DEF CursorUpdateIsAlone
<1> DEFINE Held == /\ scheduleFile.kind = "whole"
                   /\ \A i \in Installs :
                        Settings(document[Scheduler][i]) = Settings(scheduleFile.schedules[i])
                   /\ at[Scheduler] = "write" => fd[Scheduler] = "tmp"
                   /\ at[Scheduler] = "replace" => tmp = Whole(document[Scheduler])
           Holds == /\ scheduleFile'.kind = "whole"
                    /\ \A i \in Installs :
                         Settings(document'[Scheduler][i]) = Settings(scheduleFile'.schedules[i])
                    /\ at'[Scheduler] = "write" => fd'[Scheduler] = "tmp"
                    /\ at'[Scheduler] = "replace" => tmp' = Whole(document'[Scheduler])
<1> USE WritersAre
<1>1. serial /\ \A w \in Savers : ~Writing(w) /\ ~Writing(w)'
  BY DEF History
<1>2. EntriesAreWhole  BY DEF ScheduleInv
<1>3. at[Scheduler] \in {"open", "write", "replace"} => Held
  BY <1>1 DEF ScheduleInv, CursorUpdateIsAlone
<1>4. ASSUME UNCHANGED <<scheduleFile, tmp, document>>, at'[Scheduler] = at[Scheduler],
             fd'[Scheduler] = fd[Scheduler]
      PROVE  Holds
  BY <1>3, <1>4
<1>5. ASSUME NEW w \in Savers, NEW i \in Installs, NEW enabled \in BOOLEAN, NEW n \in Intervals,
             BeginSave(w, i, enabled, n)
      PROVE  Holds
  <2>1. at'[Scheduler] = at[Scheduler]
    BY <1>2, <1>5 DEF BeginSave, MovesTo, EntriesAreWhole
  <2> QED  BY <1>4, <1>5, <2>1 DEF BeginSave
<1>6. ASSUME NEW w \in Savers, LoadCurrent(w) PROVE Holds
  <2>1. at'[w] = "read"
    BY <1>2, <1>6 DEF LoadCurrent, MovesTo, EntriesAreWhole
  <2> QED  BY <1>1, <2>1 DEF Writing
<1>7. ASSUME NEW w \in Savers, ReadForSave(w) \/ OpenTmp(w) \/ WriteTmp(w) \/ Replace(w)
      PROVE  Holds
  <2>1. Writing(w)
    BY <1>7 DEF ReadForSave, OpenTmp, WriteTmp, Replace, Writing
  <2> QED  BY <1>1, <2>1
<1>8. ASSUME ReadForCursor PROVE Holds
  <2> DEFINE i == whose[Scheduler]
  <2>1. Read[i] # Unset /\ at'[Scheduler] = "open"
    BY <1>2, <1>8 DEF ReadForCursor, Ends, MovesTo, EntriesAreWhole
  <2>2. scheduleFile.kind = "whole" /\ Read = scheduleFile.schedules
    BY <1>2, <2>1 DEF Read, Empty, EntriesAreWhole
  <2>3. scheduleFile' = scheduleFile
    BY <1>2, <1>8, <2>2, AsideKeeps DEF ReadForCursor
  <2>4. document'[Scheduler] = [Read EXCEPT ![i].next = mine[Scheduler].next]
    BY <1>2, <1>8, <2>1 DEF ReadForCursor, EntriesAreWhole
  <2>5. Read \in [Installs -> Entry]  BY <1>2, ReadIsADocument DEF Documents
  <2>6. \A j \in Installs : Settings(document'[Scheduler][j]) = Settings(Read[j])
    BY <2>4, <2>5 DEF Settings, Entry
  <2> QED  BY <2>1, <2>2, <2>3, <2>6
<1>9. ASSUME OpenTmp(Scheduler) PROVE Holds
  <2>1. at[Scheduler] = "open" /\ at'[Scheduler] = "write" /\ fd'[Scheduler] = "tmp"
    BY <1>2, <1>9 DEF OpenTmp, MovesTo, EntriesAreWhole
  <2> QED  BY <1>3, <1>9, <2>1 DEF OpenTmp
<1>10. ASSUME WriteTmp(Scheduler) PROVE Holds
  <2>1. at[Scheduler] = "write" /\ at'[Scheduler] = "replace"
    BY <1>2, <1>10 DEF WriteTmp, MovesTo, EntriesAreWhole
  <2>2. fd[Scheduler] = "tmp"  BY <1>3, <2>1
  <2>3. scheduleFile' = scheduleFile /\ tmp' = Whole(document[Scheduler]) /\ document' = document
    BY <1>10, <2>2 DEF WriteTmp
  <2> QED  BY <1>3, <2>1, <2>3
<1>11. ASSUME at'[Scheduler] \notin {"open", "write", "replace"} PROVE Holds
  BY <1>11
<1>12. ASSUME Replace(Scheduler) \/ BackupFails PROVE Holds
  <2>1. at'[Scheduler] = "idle"
    BY <1>2, <1>12 DEF Replace, BackupFails, Ends, MovesTo, EntriesAreWhole
  <2> QED  BY <1>11, <2>1
<1>13. ASSUME Tick \/ (\E i \in Installs : Fire(i)) \/ BackupSucceeds \/ LoadCurrent(Scheduler)
              \/ ScheduleRestart
       PROVE  Holds
  <2>1. at'[Scheduler] \in {"idle", "backup", "read"}
    BY <1>2, <1>13
    DEF Tick, Fire, BackupSucceeds, LoadCurrent, ScheduleRestart, MovesTo,
        EntriesAreWhole
  <2> QED  BY <1>11, <2>1
<1>14. ASSUME Hour PROVE Holds
  BY <1>4, <1>14 DEF Hour, writerVars
<1>15. ~ReadForSave(Scheduler)
  BY DEF ReadForSave
<1>16. Holds
  <2> HIDE DEF Holds, Held
  <2> QED
    BY <1>5, <1>6, <1>7, <1>8, <1>9, <1>10, <1>12, <1>13, <1>14, <1>15
    DEF ScheduleStep, SchedulerStep, WriterStep
<1> QED  BY <1>1, <1>16

(* Both parts together, steps that change nothing included.                *)
LEMMA StepKeepsScheduleInv == ScheduleInv /\ [SchedulesNext]_scheduleVars => ScheduleInv'
<1> SUFFICES ASSUME ScheduleInv, [SchedulesNext]_scheduleVars PROVE ScheduleInv'
  OBVIOUS
<1>1. CASE SchedulesNext
  BY <1>1, StepKeepsEntries, CursorStaysAlone DEF SchedulesNext, ScheduleInv
<1>2. CASE UNCHANGED scheduleVars
  <2>1. EntriesAreWhole'
    BY <1>2 DEF scheduleVars, writerVars, ScheduleInv, EntriesAreWhole
  <2>2. CursorUpdateIsAlone'
    BY <1>2 DEF scheduleVars, writerVars, ScheduleInv, CursorUpdateIsAlone, Writing
  <2> QED  BY <2>1, <2>2 DEF ScheduleInv
<1> QED  BY <1>1, <1>2

(* Without a loss of the server, a scheduler that stood before os.replace  *)
(* has left it only by doing it.                                           *)
LEMMA OnlyReplaceEnds ==
  ASSUME ScheduleInv, SchedulesNext, at[Scheduler] = "replace", at'[Scheduler] = "idle",
         outages' = outages
  PROVE  Replace(Scheduler)
<1> USE WritersAre
<1>1. EntriesAreWhole  BY DEF ScheduleInv
<1>2. ASSUME NEW w \in Savers, WriterStep(w) PROVE at'[Scheduler] = at[Scheduler]
  <2>1. Scheduler \in Writers \ {w} /\ w \in Writers  OBVIOUS
  <2>2. CASE LoadCurrent(w) \/ ReadForSave(w) \/ OpenTmp(w) \/ WriteTmp(w)
    BY <1>1, <2>1, <2>2
    DEF LoadCurrent, ReadForSave, OpenTmp, WriteTmp, MovesTo, EntriesAreWhole
  <2>3. CASE Replace(w)
    BY <1>1, <2>1, <2>3, EndsKeeps DEF Replace
  <2> QED  BY <1>2, <2>2, <2>3 DEF WriterStep
<1>3. ASSUME NEW w \in Savers, NEW i \in Installs, NEW enabled \in BOOLEAN, NEW n \in Intervals,
             BeginSave(w, i, enabled, n)
      PROVE  at'[Scheduler] = at[Scheduler]
  BY <1>1, <1>3 DEF BeginSave, MovesTo, EntriesAreWhole
<1>4. ~ScheduleRestart
  <2>1. ASSUME ScheduleRestart PROVE FALSE
    BY <1>1, <2>1 DEF ScheduleRestart, EntriesAreWhole
  <2> QED  BY <2>1
<1>5. ~Hour
  BY DEF Hour, writerVars
<1>6. CASE SchedulerStep
  BY <1>6
  DEF SchedulerStep, WriterStep, Tick, BackupSucceeds, BackupFails,
      ReadForCursor,
     LoadCurrent, ReadForSave, OpenTmp, WriteTmp, Fire
<1> QED  BY <1>2, <1>3, <1>4, <1>5, <1>6 DEF SchedulesNext, ScheduleStep

(* A cursor update that no save overlaps changes no switch and no interval *)
(* (_persist_run_update), for any installs, intervals, number of threads   *)
(* that save, and any losses of the server.                                *)
THEOREM CursorsKeepSettings == SchedulesSpec => CursorKeepsSettings
<1>1. ASSUME ScheduleInv, [SchedulesNext]_scheduleVars,
             at[Scheduler] = "replace", at'[Scheduler] = "idle", serial,
             outages' = outages, scheduleFile'.kind = "whole"
      PROVE  \A i \in Installs :
               Settings(scheduleFile'.schedules[i]) = Settings(scheduleFile.schedules[i])
  <2>1. SchedulesNext  BY <1>1 DEF scheduleVars, writerVars
  <2>2. Replace(Scheduler)  BY <1>1, <2>1, OnlyReplaceEnds
  <2>3. tmp = Whole(document[Scheduler])
        /\ \A i \in Installs :
             Settings(document[Scheduler][i]) = Settings(scheduleFile.schedules[i])
    BY <1>1 DEF ScheduleInv, CursorUpdateIsAlone
  <2>4. scheduleFile' = Whole(document[Scheduler])
    BY <2>2, <2>3 DEF Replace, Whole, NoFile
  <2> QED  BY <2>3, <2>4 DEF Whole
<1>2. ScheduleInv /\ [SchedulesNext]_scheduleVars =>
        [(/\ at[Scheduler] = "replace" /\ at'[Scheduler] = "idle" /\ serial
          /\ outages' = outages /\ scheduleFile'.kind = "whole")
           => \/ scheduleFile.kind # "whole"
              \/ \A i \in Installs :
                   Settings(scheduleFile'.schedules[i])
                     = Settings(scheduleFile.schedules[i])]_scheduleVars
  BY <1>1
<1> QED
  BY SchedulesStart, StepKeepsScheduleInv, <1>2, PTL
  DEF SchedulesSpec, CursorKeepsSettings
=============================================================================
