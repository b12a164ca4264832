-------------------------- MODULE BackgroundProofs --------------------------
(***************************************************************************)
(* What runs behind the requests: the AI provisioner, the notification     *)
(* dispatcher, the audit trail, the backups and the two ingest pipelines   *)
(* of the Hadoop stack, for any number of streams, keys, events, backups,  *)
(* runs, files and tables.                                                 *)
(***************************************************************************)
EXTENDS AiProvisioning, Notifications, AuditLog, Backups, HadoopIngests,
        WellFoundedInduction, TLAPS

-----------------------------------------------------------------------------
(* The AI provisioner *)

(* The job is in phase p: those before it are done, those behind it wait.  *)
InPhase(p) ==
  /\ phases["research"] = IF p = "research" THEN "active" ELSE "done"
  /\ phases["gen_config"] =
       CASE p = "research" -> "pending" [] p = "gen_config" -> "active" [] OTHER -> "done"
  /\ phases["install"] =
       CASE p \in {"research", "gen_config"} -> "pending" [] p = "install" -> "active"
         [] OTHER -> "done"
  /\ phases["post_cfg"] =
       CASE p \in {"research", "gen_config", "install"} -> "pending" [] p = "post_cfg" -> "active"
         [] OTHER -> "done"
  /\ phases["verify"] =
       CASE p = "verify" -> "active" [] p = "summary" -> "done" [] OTHER -> "pending"
  /\ phases["summary"] = IF p = "summary" THEN "active" ELSE "pending"

ProvisionInv ==
  /\ phases \in [Phases -> {"pending", "active", "done", "failed"}]
  /\ unread \in Nat
  /\ state \in {"pending", "running", "lost"} \cup Over
  /\ state = "pending" => phases = [p \in Phases |-> "pending"]
  /\ state = "running" => \E p \in Phases : InPhase(p)
  /\ ProvisionTellsOneStory

(* A job that is under way is in the phase that is active. *)
LEMMA ActiveIsThePhase ==
  ASSUME ProvisionInv, NEW p \in Phases, Active(p)
  PROVE  InPhase(p)
BY DEF ProvisionInv, Active, InPhase, Phases

(* The story, phase by phase.                                              *)
Story ==
  /\ state = "done" => \A p \in Phases : phases[p] = "done"
  /\ state \in Over =>
       /\ phases["research"] # "done" =>
            /\ phases["gen_config"] = "pending" /\ phases["install"] = "pending"
            /\ phases["post_cfg"] = "pending" /\ phases["verify"] = "pending"
            /\ phases["summary"] = "pending"
       /\ phases["gen_config"] # "done" =>
            /\ phases["install"] = "pending" /\ phases["post_cfg"] = "pending"
            /\ phases["verify"] = "pending" /\ phases["summary"] = "pending"
       /\ phases["install"] # "done" =>
            /\ phases["post_cfg"] = "pending" /\ phases["verify"] = "pending"
            /\ phases["summary"] = "pending"
       /\ phases["post_cfg"] # "done" =>
            phases["verify"] = "pending" /\ phases["summary"] = "pending"
       /\ phases["verify"] # "done" => phases["summary"] = "pending"
  /\ state # "lost" => (complete # "no" <=> state \in Over)

(* What a job looks like in each phase says what its status tells. *)
LEMMA StoryByPhase == ProvisionTellsOneStory <=> Story
<1>1. /\ Order[1] = "research" /\ Order[2] = "gen_config" /\ Order[3] = "install"
      /\ Order[4] = "post_cfg" /\ Order[5] = "verify" /\ Order[6] = "summary"
  BY DEF Order
<1>2. 1..6 = {1, 2, 3, 4, 5, 6}
  OBVIOUS
<1> QED BY <1>1, <1>2 DEF ProvisionTellsOneStory, Story

(* A job that has not been begun has no phase. *)
LEMMA ProvisionInvInit == ProvisionInit => ProvisionInv
<1> SUFFICES ASSUME ProvisionInit
             PROVE  ProvisionInv
  OBVIOUS
<1>1. ProvisionTellsOneStory
  BY DEF ProvisionInit, ProvisionTellsOneStory, Over
<1> QED BY <1>1 DEF ProvisionInit, ProvisionInv

(* Going from one phase to the next one. *)
LEMMA PassesKeeps ==
  ASSUME ProvisionInv,
         NEW p \in Phases, NEW q \in Phases, Active(p), Passes(p, q),
         \/ p = "research" /\ q = "gen_config"
         \/ p = "gen_config" /\ q = "install"
         \/ p = "install" /\ q = "post_cfg"
         \/ p = "post_cfg" /\ q = "verify"
         \/ p = "verify" /\ q = "summary"
  PROVE  ProvisionInv'
<1>1. InPhase(p)
  BY ActiveIsThePhase
<1>2. /\ state = "running" /\ state' = "running" /\ unread' \in Nat /\ complete' = complete
      /\ phases' = [phases EXCEPT ![p] = "done", ![q] = "active"]
      /\ phases' \in [Phases -> {"pending", "active", "done", "failed"}]
  BY DEF Active, Passes, Emits, ProvisionInv
<1>3. InPhase(q)'
  BY <1>1, <1>2 DEF InPhase, ProvisionInv, Phases
<1>4. ProvisionTellsOneStory'
  BY <1>2 DEF ProvisionInv, ProvisionTellsOneStory, Over
<1> QED BY <1>2, <1>3, <1>4 DEF ProvisionInv

(* The end of a job that is in phase p: the phases behind p wait, and the  *)
(* job is done only when p was the last one and is done itself.            *)
LEMMA EndsKeeps ==
  ASSUME ProvisionInv, NEW p \in Phases, Active(p), NEW to \in Over, Ends(to),
         NEW mark \in {"active", "done", "failed"}, phases' = [phases EXCEPT ![p] = mark],
         to = "done" => p = "summary" /\ mark = "done"
  PROVE  ProvisionInv'
<1>1. InPhase(p)
  BY ActiveIsThePhase
<1>2. /\ state' \in Over /\ unread' \in Nat /\ complete' = "queued"
      /\ phases' \in [Phases -> {"pending", "active", "done", "failed"}]
  BY DEF Ends, ProvisionInv
<1>3. state' \notin {"pending", "running", "lost"}
  BY <1>2 DEF Over
<1>4. state' = "done" => \A q \in Phases : phases'[q] = "done"
  BY <1>1 DEF Ends, InPhase, ProvisionInv, Phases
<1>5. Story'
  BY <1>1, <1>2, <1>3, <1>4 DEF InPhase, ProvisionInv, Phases, Story, Over
<1>6. ProvisionTellsOneStory' <=> Story'
  BY StoryByPhase, PTL
<1> QED BY <1>2, <1>3, <1>5, <1>6 DEF ProvisionInv

(* Each step of the job, from the first phase to the end of the last. *)
LEMMA JobKeeps == ProvisionInv /\ JobNext => ProvisionInv'
<1> SUFFICES ASSUME ProvisionInv, JobNext
             PROVE  ProvisionInv'
  OBVIOUS
<1>1. CASE Begin
  <2>1. /\ phases' = [phases EXCEPT !["research"] = "active"] /\ state' = "running"
        /\ phases = [p \in Phases |-> "pending"] /\ unread' \in Nat /\ complete' = complete
        /\ state = "pending"
    BY <1>1 DEF Begin, Emits, ProvisionInv
  <2>2. InPhase("research")'
    BY <2>1 DEF InPhase, Phases
  <2>3. phases' \in [Phases -> {"pending", "active", "done", "failed"}]
    BY <2>1 DEF Phases
  <2>4. ProvisionTellsOneStory'
    BY <2>1 DEF ProvisionInv, ProvisionTellsOneStory, Over
  <2> QED BY <2>1, <2>2, <2>3, <2>4 DEF ProvisionInv, Phases
<1>2. CASE Research
  BY <1>2, PassesKeeps DEF Research, Phases
<1>3. CASE GenConfig
  BY <1>3, PassesKeeps DEF GenConfig, Phases
<1>4. CASE Install
  BY <1>4, PassesKeeps DEF Install, Phases
<1>5. CASE PostCfg
  BY <1>5, PassesKeeps DEF PostCfg, Phases
<1>6. CASE Verify
  BY <1>6, PassesKeeps DEF Verify, Phases
<1>7. CASE NoConfig
  <2>1. PICK mark \in {"done", "failed"} : phases' = [phases EXCEPT !["gen_config"] = mark]
    BY <1>7 DEF NoConfig
  <2> QED BY <1>7, <2>1, EndsKeeps DEF NoConfig, Phases, Over
<1>8. CASE InstallRaises
  BY <1>8, EndsKeeps DEF InstallRaises, Phases, Over
<1>9. CASE Summary
  BY <1>9, EndsKeeps DEF Summary, Phases, Over
<1>10. CASE Raises
  <2>1. PICK p \in {"verify", "summary"} : Active(p)
    BY <1>10 DEF Raises
  <2>2. phases' = [phases EXCEPT ![p] = "active"] /\ p \in Phases /\ Ends("failed")
    BY <1>10, <2>1 DEF Raises, Active, ProvisionInv, Phases
  <2> QED BY <2>1, <2>2, EndsKeeps DEF Over
<1> QED BY <1>1, <1>2, <1>3, <1>4, <1>5, <1>6, <1>7, <1>8, <1>9, <1>10 DEF JobNext

(* Neither the job nor its streams break it. *)
LEMMA ProvisionInvNext == ProvisionInv /\ [ProvisionNext]_provisionVars => ProvisionInv'
<1> SUFFICES ASSUME ProvisionInv, [ProvisionNext]_provisionVars
             PROVE  ProvisionInv'
  OBVIOUS
<1>1. CASE JobNext
  BY <1>1, JobKeeps
<1>2. CASE ServerLost
  BY <1>2 DEF ServerLost, ProvisionInv, ProvisionTellsOneStory, Over
<1>3. ASSUME NEW v \in Viewers, OpenStream(v) \/ Leave(v) \/ Take(v) \/ Heartbeat(v)
      PROVE  ProvisionInv'
  <2>1. UNCHANGED <<state, phases>> /\ unread' \in Nat /\ (complete' = "no" <=> complete = "no")
    BY <1>3 DEF OpenStream, Leave, Left, Take, Heartbeat, ProvisionInv
  <2>2. ProvisionTellsOneStory'
    BY <2>1 DEF ProvisionInv, ProvisionTellsOneStory
  <2> QED BY <2>1, <2>2 DEF ProvisionInv, InPhase
<1>4. CASE UNCHANGED provisionVars
  BY <1>4 DEF provisionVars, ProvisionInv, ProvisionTellsOneStory, InPhase
<1> QED BY <1>1, <1>2, <1>3, <1>4 DEF ProvisionNext

(* The status of a provisioning job tells one story: a phase that fails    *)
(* (_phase_end with "failed", or an exception caught by run) is the last   *)
(* one that was begun, a job that is done has all six phases done, and     *)
(* provision_complete is sent when, and only when, the job is over.        *)
THEOREM StatusFitsTogether == ProvisionSpec => []ProvisionTellsOneStory
<1>1. ProvisionInv => ProvisionTellsOneStory
  BY DEF ProvisionInv
<1> QED BY <1>1, ProvisionInvInit, ProvisionInvNext, PTL DEF ProvisionSpec

-----------------------------------------------------------------------------
(* Notifications *)

(* No severity looks back further than the time after which an entry is    *)
(* forgotten.                                                              *)
LEMMA LongestIsTheLongest ==
  Longest \in Nat /\ \A s \in Severities : DedupTTL[s] \in Nat /\ DedupTTL[s] <= Longest
<1> DEFINE Ttls == {DedupTTL[s] : s \in Severities}
           IsLongest(t) == \A s \in Severities : DedupTTL[s] <= t
<1>1. /\ DedupTTL["critical"] \in Nat /\ DedupTTL["warn"] \in Nat /\ DedupTTL["info"] \in Nat
  BY NotifyAssumption DEF Severities
<1>2. \A s \in Severities : s = "critical" \/ s = "warn" \/ s = "info"
  BY DEF Severities
<1>3. \E s \in Severities : IsLongest(DedupTTL[s])
  <2>1. CASE DedupTTL["warn"] <= DedupTTL["critical"] /\ DedupTTL["info"] <= DedupTTL["critical"]
    BY <1>1, <1>2, <2>1 DEF Severities
  <2>2. CASE DedupTTL["critical"] <= DedupTTL["warn"] /\ DedupTTL["info"] <= DedupTTL["warn"]
    BY <1>1, <1>2, <2>2 DEF Severities
  <2>3. CASE DedupTTL["critical"] <= DedupTTL["info"] /\ DedupTTL["warn"] <= DedupTTL["info"]
    BY <1>1, <1>2, <2>3 DEF Severities
  <2> QED BY <1>1, <2>1, <2>2, <2>3
<1>4. \E t \in Ttls : IsLongest(t)
  BY <1>3
<1>5. Longest \in Ttls /\ IsLongest(Longest)
  BY <1>4 DEF Longest
<1> QED BY <1>1, <1>2, <1>5

(* The dispatcher begins with an empty table and the default               *)
(* configuration.                                                          *)
LEMMA NotifyInvInit == NotifyInit => NotifyInv
<1> SUFFICES ASSUME NotifyInit
             PROVE  NotifyInv
  OBVIOUS
<1>1. ToastOnly \in Configs
  BY DEF ToastOnly, Configs
<1>2. 0 \in 0..MaxEdits /\ 0 \in 0..MaxTime
  BY NotifyAssumption
<1>3. Absent \in [kind : {"absent", "valid", "invalid"}, mtime : 0..MaxEdits, config : Configs]
  BY <1>1, <1>2 DEF Absent
<1>4. clock \in 0..MaxTime
  BY LongestIsTheLongest, NotifyAssumption DEF NotifyInit
<1>5. NotifyTypeOK
  BY <1>1, <1>2, <1>3, <1>4 DEF NotifyInit, NotifyTypeOK
<1>6. FileMoves /\ ReadIsTheFile /\ ConfigIsOfItsTime /\ ForgottenIsOld
  BY DEF NotifyInit, FileMoves, ReadIsTheFile, ConfigIsOfItsTime, ForgottenIsOld, Absent
<1> QED BY <1>5, <1>6 DEF NotifyInit, NotifyInv

(* An edit is never taken for one that was seen.                           *)
LEMMA EditKeeps ==
  ASSUME NotifyInv, Edit
  PROVE  NotifyInv'
<1> USE DEF NotifyInv
<1> DEFINE FileType ==
             [kind : {"absent", "valid", "invalid"}, mtime : 0..MaxEdits, config : Configs]
<1>1. edits' = edits + 1 /\ edits' \in 0..MaxEdits /\ edits \in Nat /\ mtime \in Nat
  BY NotifyAssumption DEF Edit, NotifyTypeOK
<1>2. ToastOnly \in Configs
  BY DEF ToastOnly, Configs
<1>3. \/ /\ configFile' \in FileType /\ configFile'.mtime = edits' /\ configFile'.kind # "absent"
      \/ configFile' = Absent
  <2>1. CASE \E c \in Configs : configFile' = [kind |-> "valid", mtime |-> edits', config |-> c]
    BY <1>1, <2>1
  <2>2. CASE configFile' = [kind |-> "invalid", mtime |-> edits', config |-> ToastOnly]
    BY <1>1, <1>2, <2>2
  <2> QED BY <2>1, <2>2 DEF Edit
<1>4. Absent \in FileType /\ Absent.mtime = 0 /\ Absent.kind = "absent"
  BY <1>2, NotifyAssumption DEF Absent
<1>5. NotifyTypeOK' /\ \A e \in event' : e.ts <= clock'
  BY <1>1, <1>3, <1>4 DEF Edit, NotifyTypeOK
<1>6. FileMoves'
  BY <1>1, <1>3, <1>4 DEF Edit, FileMoves
<1>7. ReadIsTheFile'
  <2>1. phase \in {"reading", "read"} => stat \in 1..edits' /\ stat # configFile'.mtime
    BY <1>1, <1>3, <1>4 DEF ReadIsTheFile
  <2> QED BY <2>1 DEF Edit, ReadIsTheFile
<1>8. ConfigIsOfItsTime'
  <2>1. configFile'.kind = "valid" => configFile'.mtime # mtime
    BY <1>1, <1>3, <1>4 DEF FileMoves
  <2> QED BY <2>1 DEF Edit, ConfigIsOfItsTime
<1>9. ForgottenIsOld'
  BY DEF Edit, ForgottenIsOld
<1> QED BY <1>5, <1>6, <1>7, <1>8, <1>9

(* _maybe_reload up to the stat: a file whose time is known is not read. *)
LEMMA BeginReloadKeeps ==
  ASSUME NotifyInv, NEW who \in SUBSET Event, \A e \in who : e.ts = clock,
         \A e, f \in who : e = f, BeginReload(who)
  PROVE  NotifyInv'
<1> USE DEF NotifyInv
<1>1. ToastOnly \in Configs /\ 0 \in 0..MaxEdits
  BY NotifyAssumption DEF ToastOnly, Configs
<1>2. configFile.mtime \in 0..MaxEdits /\ configFile.mtime <= edits /\ mtime \in 0..MaxEdits
      /\ edits \in Nat /\ clock \in Nat
  BY DEF NotifyTypeOK, FileMoves
<1>3. config' \in Configs /\ mtime' \in 0..MaxEdits
      /\ phase' \in {"idle", "reading", "read", "reloaded"}
  BY <1>1, <1>2 DEF BeginReload, NotifyTypeOK
<1>4. NotifyTypeOK' /\ \A e \in event' : e.ts <= clock'
  BY <1>2, <1>3 DEF BeginReload, NotifyTypeOK
<1>5. FileMoves'
  BY <1>2 DEF BeginReload, FileMoves
<1>6. ReadIsTheFile'
  BY <1>2 DEF BeginReload, ReadIsTheFile, FileMoves
<1>7. ConfigIsOfItsTime'
  <2>1. CASE configFile = Absent
    BY <2>1 DEF BeginReload, ConfigIsOfItsTime, FileMoves
  <2>2. CASE configFile # Absent
    BY <2>2 DEF BeginReload, ConfigIsOfItsTime
  <2> QED BY <2>1, <2>2
<1>8. ForgottenIsOld'
  <2>1. UNCHANGED <<clock, dedup, sent>> /\ event' = who
    BY DEF BeginReload
  <2> QED BY <2>1 DEF ForgottenIsOld
<1> QED BY <1>4, <1>5, <1>6, <1>7, <1>8

(* The read: it sees the file as it is then, which the stat may precede. *)
LEMMA ReadKeeps ==
  ASSUME NotifyInv, ReadConfig
  PROVE  NotifyInv'
<1> USE DEF NotifyInv
<1>1. NotifyTypeOK' /\ \A e \in event' : e.ts <= clock'
  BY DEF ReadConfig, NotifyTypeOK
<1>2. FileMoves' /\ ReadIsTheFile' /\ ConfigIsOfItsTime' /\ ForgottenIsOld'
  BY DEF ReadConfig, FileMoves, ReadIsTheFile, ConfigIsOfItsTime, ForgottenIsOld
<1> QED BY <1>1, <1>2

(* What is applied is the file, or the time that is kept is not its own.   *)
LEMMA ApplyKeeps ==
  ASSUME NotifyInv, Apply
  PROVE  NotifyInv'
<1> USE DEF NotifyInv
<1>1. stat \in 1..edits /\ stat \in 0..MaxEdits /\ edits \in Nat
  BY DEF Apply, ReadIsTheFile, NotifyTypeOK
<1>2. config' \in Configs
  BY DEF Apply, NotifyTypeOK
<1>3. NotifyTypeOK' /\ \A e \in event' : e.ts <= clock'
  BY <1>1, <1>2 DEF Apply, Stamped, NotifyTypeOK
<1>4. FileMoves' /\ ReadIsTheFile'
  BY <1>1 DEF Apply, Stamped, FileMoves, ReadIsTheFile
<1>5. ConfigIsOfItsTime'
  <2>1. mtime' # 0 /\ configFile' = configFile
    BY <1>1 DEF Apply, Stamped
  <2>2. ASSUME mtime' = configFile.mtime, configFile.kind = "valid"
        PROVE  config' = configFile.config
    BY <2>2 DEF Apply, Stamped, ReadIsTheFile
  <2> QED BY <2>1, <2>2 DEF ConfigIsOfItsTime
<1>6. ForgottenIsOld'
  BY DEF Apply, ForgottenIsOld
<1> QED BY <1>3, <1>4, <1>5, <1>6

(* What is forgotten is older than any severity looks back from now on.    *)
LEMMA SendKeeps ==
  ASSUME NotifyInv, NEW e \in event, Finish, GoesOut(e),
         dedup' = Pruned([dedup EXCEPT ![e.key] = e.ts], e),
         sent' = [sent EXCEPT ![e.key] = e.ts]
  PROVE  ForgottenIsOld' /\ dedup' \in [EventKeys -> 0..MaxTime] /\ sent' \in [EventKeys -> 0..MaxTime]
<1> USE DEF NotifyInv
<1>1. /\ e.key \in EventKeys /\ e.ts \in 0..MaxTime /\ e.ts <= clock /\ clock \in Nat
      /\ e.ts \in Nat /\ 0 \in 0..MaxTime /\ Longest \in Nat
  BY LongestIsTheLongest, NotifyAssumption DEF NotifyTypeOK, Event
<1>2. sent' \in [EventKeys -> 0..MaxTime]
  BY <1>1 DEF NotifyTypeOK
<1>3. ASSUME NEW k \in EventKeys
      PROVE  /\ dedup'[k] \in 0..MaxTime
             /\ dedup'[k] = sent'[k] \/ (dedup'[k] = 0 /\ sent'[k] + Longest < clock)
  <2>1. dedup[k] \in Nat /\ sent[k] \in Nat /\ dedup[k] \in 0..MaxTime
    BY DEF NotifyTypeOK
  <2>2. dedup[k] = sent[k] \/ (dedup[k] = 0 /\ sent[k] + Longest < clock)
    BY DEF ForgottenIsOld
  <2>3. CASE k = e.key
    <3>1. sent'[k] = e.ts
      BY <1>1, <2>3 DEF NotifyTypeOK
    <3>2. [dedup EXCEPT ![e.key] = e.ts][k] = e.ts
      BY <1>1, <2>3 DEF NotifyTypeOK
    <3>3. ~(e.ts + Longest < e.ts)
      BY <1>1
    <3>4. dedup'[k] = e.ts
      BY <3>2, <3>3 DEF Pruned
    <3> QED BY <1>1, <3>1, <3>4
  <2>4. CASE k # e.key
    <3>1. sent'[k] = sent[k]
      BY <2>4 DEF NotifyTypeOK
    <3>2. [dedup EXCEPT ![e.key] = e.ts][k] = dedup[k]
      BY <2>4 DEF NotifyTypeOK
    <3>3. dedup'[k] = IF dedup[k] + Longest < e.ts THEN 0 ELSE dedup[k]
      BY <3>2 DEF Pruned
    <3> QED BY <1>1, <2>1, <2>2, <3>1, <3>3
  <2> QED BY <2>3, <2>4
<1>4. dedup' \in [EventKeys -> 0..MaxTime]
  BY <1>3 DEF Pruned
<1>5. ForgottenIsOld'
  BY <1>3 DEF Finish, ForgottenIsOld
<1> QED BY <1>2, <1>4, <1>5

(* The event goes out or not, and old entries are forgotten. *)
LEMMA FinishKeeps ==
  ASSUME NotifyInv, Finish
  PROVE  NotifyInv'
<1> USE DEF NotifyInv
<1>1. /\ ForgottenIsOld'
      /\ dedup' \in [EventKeys -> 0..MaxTime] /\ sent' \in [EventKeys -> 0..MaxTime]
  <2>1. ASSUME NEW e \in event, GoesOut(e),
               dedup' = Pruned([dedup EXCEPT ![e.key] = e.ts], e),
               sent' = [sent EXCEPT ![e.key] = e.ts]
        PROVE  /\ ForgottenIsOld'
               /\ dedup' \in [EventKeys -> 0..MaxTime] /\ sent' \in [EventKeys -> 0..MaxTime]
    BY <2>1, SendKeeps
  <2>2. CASE UNCHANGED <<dedup, sent>>
    BY <2>2 DEF Finish, ForgottenIsOld, NotifyTypeOK
  <2> QED BY <2>1, <2>2 DEF Finish
<1>2. NotifyTypeOK' /\ \A e \in event' : e.ts <= clock'
  BY <1>1 DEF Finish, NotifyTypeOK
<1>3. FileMoves' /\ ReadIsTheFile' /\ ConfigIsOfItsTime'
  BY DEF Finish, FileMoves, ReadIsTheFile, ConfigIsOfItsTime
<1> QED BY <1>1, <1>2, <1>3

(* Time, edits, reloads and dispatches, in any order. *)
LEMMA NotifyInvNext == NotifyInv /\ [NotifyNext]_notifyVars => NotifyInv'
<1> SUFFICES ASSUME NotifyInv, [NotifyNext]_notifyVars
             PROVE  NotifyInv'
  OBVIOUS
<1>1. CASE Edit
  BY <1>1, EditKeeps
<1>2. CASE Wait
  <2>1. clock' = clock + 1 /\ clock' \in 0..MaxTime /\ clock \in Nat
    BY <1>2, NotifyAssumption DEF Wait, NotifyInv, NotifyTypeOK
  <2>2. \A e \in event' : e.ts <= clock'
    BY <1>2, <2>1 DEF Wait, NotifyInv, NotifyTypeOK, Event
  <2>3. ForgottenIsOld'
    <3>1. \A k \in EventKeys : sent[k] + Longest \in Nat
      BY LongestIsTheLongest DEF NotifyInv, NotifyTypeOK
    <3> QED BY <1>2, <2>1, <3>1 DEF Wait, NotifyInv, ForgottenIsOld
  <2>4. NotifyTypeOK' /\ FileMoves' /\ ReadIsTheFile' /\ ConfigIsOfItsTime'
    BY <1>2, <2>1 DEF Wait, NotifyInv, NotifyTypeOK, FileMoves, ReadIsTheFile, ConfigIsOfItsTime
  <2> QED BY <2>2, <2>3, <2>4 DEF NotifyInv
<1>3. CASE Poll
  BY <1>3, BeginReloadKeeps DEF Poll
<1>4. ASSUME NEW k \in EventKeys, NEW s \in Severities, Dispatch(k, s)
      PROVE  NotifyInv'
  <2> DEFINE e == [key |-> k, severity |-> s, ts |-> clock]
  <2>1. {e} \in SUBSET Event /\ \A f \in {e} : f.ts = clock
    BY DEF Event, NotifyInv, NotifyTypeOK
  <2>2. BeginReload({e})
    BY <1>4 DEF Dispatch
  <2> QED BY <2>1, <2>2, BeginReloadKeeps
<1>5. CASE ReadConfig
  BY <1>5, ReadKeeps
<1>6. CASE Apply
  BY <1>6, ApplyKeeps
<1>7. CASE Finish
  BY <1>7, FinishKeeps
<1>8. CASE UNCHANGED notifyVars
  BY <1>8 DEF notifyVars, NotifyInv, NotifyTypeOK, FileMoves, ReadIsTheFile,
              ConfigIsOfItsTime, ForgottenIsOld
<1> QED BY <1>1, <1>2, <1>3, <1>4, <1>5, <1>6, <1>7, <1>8 DEF NotifyNext

(* The dispatcher and its file keep the invariant, for any number of       *)
(* edits, keys and ticks (_maybe_reload, dispatch).                        *)
THEOREM NotifyInvHolds == NotifySpec => []NotifyInv
<1>1. NotifyInit => NotifyInv
  BY NotifyInvInit
<1>2. NotifyInv /\ [NotifyNext]_notifyVars => NotifyInv'
  BY NotifyInvNext
<1> QED BY <1>1, <1>2, PTL DEF NotifySpec

(* A dispatcher that sees no change of the file uses what is in it,        *)
(* wherever the operator edits, removes or restores it between the stat    *)
(* and the read (_maybe_reload keeps the time of before the read).         *)
THEOREM DispatcherFollowsTheFile == NotifySpec => []SettledOnTheFile
<1>1. NotifyInv => SettledOnTheFile
  BY DEF NotifyInv, FileMoves, ConfigIsOfItsTime, SettledOnTheFile, Absent
<1> QED BY <1>1, NotifyInvHolds, PTL

(* No event goes out within the time its severity allows after the last    *)
(* one of its key went out, whatever dispatch forgot in between.           *)
THEOREM NothingRepeatsEarly == NotifySpec => NoEarlyRepeat
<1>1. ASSUME NotifyInv, [NotifyNext]_notifyVars
      PROVE  [NoEarlySend]_notifyVars
  <2> SUFFICES ASSUME NEW e \in event, sent'[e.key] # sent[e.key]
               PROVE  sent'[e.key] - sent[e.key] >= DedupTTL[e.severity]
    BY DEF NoEarlySend
  <2>1. sent' # sent
    OBVIOUS
  <2>2. Finish
    BY <1>1, <2>1 DEF NotifyNext, Edit, Wait, Poll, Dispatch, BeginReload, ReadConfig, Apply, notifyVars
  <2>3. PICK f \in event : GoesOut(f) /\ sent' = [sent EXCEPT ![f.key] = f.ts]
    BY <2>1, <2>2 DEF Finish
  <2>4. f = e /\ e \in Event
    BY <1>1, <2>3 DEF NotifyInv, NotifyTypeOK
  <2>5. /\ e.key \in EventKeys /\ e.ts \in Nat /\ sent[e.key] \in Nat /\ dedup[e.key] \in Nat
        /\ DedupTTL[e.severity] \in Nat /\ Longest \in Nat /\ DedupTTL[e.severity] <= Longest
    BY <1>1, <2>4, LongestIsTheLongest DEF NotifyInv, NotifyTypeOK, Event
  <2>6. sent'[e.key] = e.ts
    BY <1>1, <2>3, <2>4, <2>5 DEF NotifyInv, NotifyTypeOK
  <2>7. e.ts - dedup[e.key] >= DedupTTL[e.severity]
    BY <2>3, <2>4 DEF GoesOut
  <2>8. dedup[e.key] = sent[e.key] \/ sent[e.key] + Longest < e.ts
    BY <1>1, <2>5 DEF NotifyInv, ForgottenIsOld
  <2> QED BY <2>5, <2>6, <2>7, <2>8
<1>2. NotifySpec => []NotifyInv
  BY NotifyInvHolds
<1> QED BY <1>1, <1>2, PTL DEF NotifySpec, NoEarlyRepeat

-----------------------------------------------------------------------------
(* The audit trail *)

(* An event is in one place, spelt out.                                    *)
InOnePlace(e) ==
  \/ e \in Queued /\ e \notin hand /\ e \notin Rows /\ e \notin pruned /\ e \notin excused
  \/ e \notin Queued /\ e \in hand /\ e \notin Rows /\ e \notin pruned /\ e \notin excused
  \/ e \notin Queued /\ e \notin hand /\ e \in Rows /\ e \notin pruned /\ e \notin excused
  \/ e \notin Queued /\ e \notin hand /\ e \notin Rows /\ e \in pruned /\ e \notin excused
  \/ e \notin Queued /\ e \notin hand /\ e \notin Rows /\ e \notin pruned /\ e \in excused

RowsInOrder == \A r, s \in DOMAIN table : r < s => table[r].n < table[s].n

OnceEach == RowsInOrder /\ \A e \in audited : InOnePlace(e)

(* That an event is in exactly one place, written as pairs of places. *)
LEMMA OnePlace == EachEventOnce <=> OnceEach
<1>1. ASSUME NEW e
      PROVE  (\E p \in Places : \A q \in Places : IsIn(e, q) <=> q = p) <=> InOnePlace(e)
  <2>1. /\ IsIn(e, "queue") <=> e \in Queued
        /\ IsIn(e, "hand") <=> e \in hand
        /\ IsIn(e, "table") <=> e \in Rows
        /\ IsIn(e, "pruned") <=> e \in pruned
        /\ IsIn(e, "excused") <=> e \in excused
    BY DEF IsIn
  <2> QED BY <2>1 DEF Places, InOnePlace
<1> QED BY <1>1 DEF EachEventOnce, RowsInOrder, OnceEach

(* The invariant with the one place spelt out.                             *)
TrailInv ==
  /\ AuditTypeOK /\ audited = Audited(audited)
  /\ InsertsAreAlone /\ InOrder /\ OnceEach

(* The invariant with that form is the invariant of the module. *)
LEMMA TrailIsAudit == TrailInv <=> AuditInv
BY OnePlace DEF TrailInv, AuditInv

(* Taking the head of the queue leaves the events behind it.               *)
LEMMA TailOfQueue ==
  ASSUME AuditTypeOK, InOrder, queue # <<>>, queue' = Tail(queue)
  PROVE  /\ Head(queue) \in Queued /\ Head(queue) \in Events
         /\ Queued' = Queued \ {Head(queue)}
         /\ \A p, q \in 1..Len(queue') : p < q => queue'[p].n < queue'[q].n
         /\ \A f \in Queued' : Head(queue).n < f.n
         /\ queue' \in Seq(Events) /\ Len(queue') <= QueueCap
<1>1. /\ queue \in Seq(Events) /\ Len(queue) \in Nat \ {0} /\ Head(queue) = queue[1]
      /\ Len(queue') = Len(queue) - 1 /\ \A p \in 1..Len(queue') : queue'[p] = queue[p + 1]
      /\ queue' \in Seq(Events)
  BY DEF AuditTypeOK
<1>2. \A p, q \in 1..Len(queue) : p < q => queue[p].n < queue[q].n
  BY DEF InOrder
<1>3. 1 \in 1..Len(queue) /\ Head(queue) \in Events
  BY <1>1
<1>4. \A p \in 1..Len(queue) : queue[p] \in Events /\ queue[p].n \in Nat
  <2>1. \A p \in 1..Len(queue) : queue[p] \in Events
    BY <1>1
  <2>2. \A e \in Events : e.n \in Nat
    BY AuditAssumption DEF Events
  <2> QED BY <2>1, <2>2
<1>5. \A p \in 1..Len(queue') : p + 1 \in 1..Len(queue) /\ 1 < p + 1
  BY <1>1
<1>6. \A f \in Queued' : Head(queue).n < f.n
  BY <1>1, <1>2, <1>3, <1>5 DEF Queued
<1>7. Queued' \subseteq Queued
  BY <1>1, <1>5 DEF Queued
<1>8. Queued \subseteq Queued' \cup {Head(queue)}
  <2> SUFFICES ASSUME NEW p \in 1..Len(queue), p # 1
               PROVE  queue[p] \in Queued'
    BY <1>1 DEF Queued
  <2>1. p - 1 \in 1..Len(queue') /\ (p - 1) + 1 = p
    BY <1>1
  <2>2. queue'[p - 1] = queue[p]
    BY <1>1, <2>1
  <2> QED BY <2>1, <2>2 DEF Queued
<1>9. Head(queue) \notin Queued'
  <2>1. Head(queue).n \in Nat
    BY <1>1, <1>3, <1>4
  <2> QED BY <1>6, <2>1
<1>10. \A p, q \in 1..Len(queue') : p < q => queue'[p].n < queue'[q].n
  BY <1>1, <1>2, <1>5
<1>11. Len(queue') <= QueueCap
  <2>1. Len(queue) <= QueueCap
    BY DEF AuditTypeOK
  <2> QED BY <1>1, <2>1, AuditAssumption
<1>12. Head(queue) \in Queued
  BY <1>1, <1>3 DEF Queued
<1> QED BY <1>1, <1>3, <1>6, <1>7, <1>8, <1>9, <1>10, <1>11, <1>12

(* Where the queue and the trail stay, so does what is in them.            *)
LEMMA QueueStays ==
  ASSUME UNCHANGED queue
  PROVE  Queued' = Queued
BY DEF Queued

(* Rows that stay are the rows there were. *)
LEMMA TableStays ==
  ASSUME UNCHANGED table
  PROVE  Rows' = Rows
BY DEF Rows

(* A queue that is dropped holds nothing. *)
LEMMA QueueIsDropped ==
  ASSUME queue' = <<>>
  PROVE  Queued' = {} /\ Len(queue') = 0 /\ queue' \in Seq(Events)
BY DEF Queued

(* A day passes. *)
LEMMA DayKeeps ==
  ASSUME TrailInv, Day
  PROVE  TrailInv'
<1> USE DEF TrailInv, Day
<1>1. Queued' = Queued /\ Rows' = Rows
  BY QueueStays, TableStays
<1>2. AuditTypeOK'
  BY AuditAssumption DEF AuditTypeOK
<1>3. InOrder'
  BY <1>1 DEF InOrder
<1>4. OnceEach'
  BY <1>1 DEF OnceEach, InOnePlace, RowsInOrder
<1>5. (audited = Audited(audited))' /\ InsertsAreAlone'
  BY DEF Audited, InsertsAreAlone
<1> QED BY <1>2, <1>3, <1>4, <1>5

(* start: a tap with an empty queue. *)
LEMMA StartKeeps ==
  ASSUME TrailInv, NEW opens \in BOOLEAN, StartTap(opens)
  PROVE  TrailInv'
<1> USE DEF TrailInv, StartTap
<1>1. Queued' = Queued /\ Rows' = Rows
  <2>1. queue = <<>>
    BY DEF InsertsAreAlone
  <2> QED BY <2>1, QueueStays, TableStays
<1>2. AuditTypeOK'
  <2>1. Len(queue') = 0 /\ queue' \in Seq(Events)
    BY QueueIsDropped
  <2>2. taps' \in 0..MaxTaps
    BY AuditAssumption DEF AuditTypeOK
  <2>3. task' \in {"none", "waiting", "writing"} /\ tapped' \in BOOLEAN
    BY DEF AuditTypeOK
  <2>4. Len(queue') <= QueueCap
    BY <2>1, AuditAssumption
  <2> HIDE DEF StartTap
  <2>5. UNCHANGED <<now, published, hand, table, lastId, audited, excused, pruned>>
    BY DEF StartTap
  <2> QED BY <2>1, <2>2, <2>3, <2>4, <2>5 DEF AuditTypeOK
<1>3. InOrder'
  BY <1>1, QueueIsDropped DEF InOrder
<1>4. OnceEach'
  BY <1>1 DEF OnceEach, InOnePlace, RowsInOrder
<1>5. (audited = Audited(audited))' /\ InsertsAreAlone'
  BY DEF Audited, InsertsAreAlone
<1> QED BY <1>2, <1>3, <1>4, <1>5

(* An event that is published behind all others, and finds room.           *)
LEMMA QueuedBehind ==
  ASSUME TrailInv, NEW e \in Events, e.n = published + 1,
         queue' = Append(queue, e)
  PROVE  /\ Queued' = Queued \cup {e}
         /\ \A p, q \in 1..Len(queue') : p < q => queue'[p].n < queue'[q].n
         /\ queue' \in Seq(Events) /\ Len(queue') = Len(queue) + 1
<1>1. queue \in Seq(Events) /\ Len(queue) \in Nat
  BY DEF TrailInv, AuditTypeOK
<1>2. /\ Len(queue') = Len(queue) + 1 /\ queue'[Len(queue) + 1] = e
      /\ \A p \in 1..Len(queue) : queue'[p] = queue[p]
      /\ queue' \in Seq(Events)
  BY <1>1
<1>3. 1..Len(queue') = 1..Len(queue) \cup {Len(queue) + 1}
  BY <1>1, <1>2
<1>4. \A p, q \in 1..Len(queue') : p < q => queue'[p].n < queue'[q].n
  <2>1. \A p, q \in 1..Len(queue) : p < q => queue[p].n < queue[q].n
    BY DEF TrailInv, InOrder
  <2>2. \A p \in 1..Len(queue) : queue[p].n < e.n
    <3> SUFFICES ASSUME NEW p \in 1..Len(queue)
                 PROVE  queue[p].n < e.n
      OBVIOUS
    <3>1. queue[p] \in Queued /\ queue[p] \in Events
      BY <1>1 DEF Queued
    <3>2. queue[p].n <= published
      BY <3>1 DEF TrailInv, InOrder
    <3>3. queue[p].n \in Nat /\ published \in Nat
      BY <3>1, AuditAssumption DEF TrailInv, AuditTypeOK, Events
    <3> QED BY <3>2, <3>3
  <2>3. ASSUME NEW p \in 1..Len(queue'), NEW q \in 1..Len(queue'), p < q
        PROVE  queue'[p].n < queue'[q].n
    <3>1. p \in 1..Len(queue)
      BY <1>1, <1>2, <2>3
    <3> QED BY <1>2, <1>3, <2>1, <2>2, <2>3, <3>1
  <2> QED BY <2>3
<1>5. Queued' = Queued \cup {e}
  BY <1>1, <1>2, <1>3 DEF Queued
<1> QED BY <1>2, <1>4, <1>5

(* _tap_event: the newest event goes behind the others, or is dropped with *)
(* a full queue or without a tap.                                          *)
LEMMA PublishKeeps ==
  ASSUME TrailInv, NEW k \in Kinds, Publish(k)
  PROVE  TrailInv'
<1> DEFINE room == Len(queue) < QueueCap
<1> USE DEF TrailInv
<1>1. PICK e \in Events :
        /\ published \in Nat /\ published' = published + 1 /\ published' \in 0..MaxEvents
        /\ e = [n |-> published', kind |-> k, ts |-> now]
        /\ e.n = published + 1
  <2> DEFINE new == [n |-> published + 1, kind |-> k, ts |-> now]
  <2>1. /\ published \in Nat /\ published' = published + 1 /\ published' \in 0..MaxEvents
        /\ published + 1 \in 1..MaxEvents /\ now \in 0..MaxDays
    BY AuditAssumption DEF AuditTypeOK, Publish
  <2>2. new \in Events
    BY <2>1 DEF Events
  <2> QED BY <2>1, <2>2
<1>2. UNCHANGED <<now, task, tapped, hand, table, lastId, pruned, taps>>
  BY DEF Publish
<1>3. \A f \in Queued \cup hand \cup Rows \cup audited \cup pruned \cup excused : f.n < e.n
  <2>1. \A f \in Queued \cup hand \cup Rows \cup audited \cup pruned \cup excused :
          f.n <= published /\ f \in Events
    BY DEF InOrder, AuditTypeOK, Queued, Rows
  <2>2. \A f \in Events : f.n \in Nat
    BY AuditAssumption DEF Events
  <2> QED BY <1>1, <2>1, <2>2
<1>4. \A f \in Queued \cup hand \cup Rows \cup audited \cup pruned \cup excused \cup {e} :
        f.n <= published'
  <2>1. \A f \in Events : f.n \in Nat
    BY AuditAssumption DEF Events
  <2>2. \A f \in Queued \cup hand \cup Rows \cup audited \cup pruned \cup excused :
          f \in Events /\ f.n <= published
    BY DEF InOrder, AuditTypeOK, Queued, Rows
  <2> QED BY <1>1, <2>1, <2>2
<1>5. Rows' = Rows
  BY <1>2, TableStays
<1>6. CASE ~tapped
  <2>1. UNCHANGED <<queue, audited, excused>>
    BY <1>6 DEF Publish
  <2>2. Queued' = Queued
    BY <2>1, QueueStays
  <2>3. AuditTypeOK' /\ InsertsAreAlone' /\ (audited = Audited(audited))'
    BY <1>1, <1>2, <2>1 DEF AuditTypeOK, InsertsAreAlone, Audited
  <2>4. OnceEach'
    BY <1>2, <1>5, <2>1, <2>2 DEF OnceEach, InOnePlace, RowsInOrder
  <2>5. InOrder'
    BY <1>2, <1>5, <1>4, <2>1, <2>2 DEF InOrder
  <2> QED BY <2>3, <2>4, <2>5
<1>7. CASE tapped /\ room
  <2>1. queue' = Append(queue, e) /\ audited' = audited \cup Audited({e}) /\ UNCHANGED excused
    BY <1>1, <1>7 DEF Publish
  <2>2. /\ Queued' = Queued \cup {e}
        /\ \A p, q \in 1..Len(queue') : p < q => queue'[p].n < queue'[q].n
        /\ queue' \in Seq(Events) /\ Len(queue') = Len(queue) + 1
    BY <1>1, <2>1, QueuedBehind
  <2>3. Len(queue') <= QueueCap /\ tapped' = TRUE
    <3>1. Len(queue) \in Nat
      BY DEF AuditTypeOK
    <3> QED BY <1>2, <1>7, <2>2, <3>1, AuditAssumption
  <2>4. Audited({e}) \subseteq {e}
    BY DEF Audited
  <2>5. AuditTypeOK'
    BY <1>1, <1>2, <2>1, <2>2, <2>3, <2>4 DEF AuditTypeOK
  <2>6. InsertsAreAlone' /\ (audited = Audited(audited))'
    BY <1>2, <1>7, <2>1 DEF InsertsAreAlone, Audited
  <2>7. OnceEach'
    <3>1. RowsInOrder'
      BY <1>2 DEF RowsInOrder, OnceEach
    <3>2. e \notin hand \cup Rows \cup pruned \cup excused
      BY <1>1, <1>3
    <3>3. InOnePlace(e)'
      BY <1>2, <1>5, <2>1, <2>2, <3>2 DEF InOnePlace
    <3>4. ASSUME NEW f \in audited, f # e
          PROVE  InOnePlace(f)'
      BY <1>2, <1>5, <2>1, <2>2, <3>4 DEF InOnePlace, OnceEach
    <3>5. audited' \subseteq audited \cup {e}
      BY <2>1, <2>4
    <3> QED BY <3>1, <3>3, <3>4, <3>5 DEF OnceEach
  <2>8. InOrder'
    <3>1. \A r \in DOMAIN table' : \A f \in hand' \cup Queued' : table'[r].n < f.n
      <4>1. \A r \in DOMAIN table : table[r].n < e.n
        BY <1>3 DEF Rows
      <4> QED BY <1>2, <2>2, <4>1 DEF InOrder
    <3>2. \A f \in hand', g \in Queued' : f.n < g.n
      BY <1>2, <1>3, <2>2 DEF InOrder
    <3>3. \A f \in Rows' \cup hand' \cup Queued' \cup audited' \cup pruned' \cup excused' :
             f.n <= published'
      BY <1>2, <1>5, <1>4, <2>1, <2>2, <2>4
    <3> QED BY <2>2, <3>1, <3>2, <3>3 DEF InOrder
  <2> QED BY <2>5, <2>6, <2>7, <2>8
<1>8. CASE tapped /\ ~room
  <2>1. /\ UNCHANGED queue /\ audited' = audited \cup Audited({e})
        /\ excused' = excused \cup Audited({e})
    BY <1>1, <1>8 DEF Publish
  <2>2. Queued' = Queued
    BY <2>1, QueueStays
  <2>4. Audited({e}) \subseteq {e}
    BY DEF Audited
  <2>5. AuditTypeOK'
    BY <1>1, <1>2, <2>1, <2>4 DEF AuditTypeOK
  <2>6. InsertsAreAlone' /\ (audited = Audited(audited))'
    BY <1>2, <1>8, <2>1 DEF InsertsAreAlone, Audited
  <2>7. OnceEach'
    <3>1. RowsInOrder'
      BY <1>2 DEF RowsInOrder, OnceEach
    <3>2. e \notin hand \cup Rows \cup pruned \cup Queued \cup audited
      BY <1>1, <1>3
    <3>3. ASSUME e \in audited'
          PROVE  InOnePlace(e)'
      <4>1. e \in excused'
        BY <2>1, <3>2, <3>3
      <4> QED BY <1>2, <1>5, <2>2, <3>2, <4>1 DEF InOnePlace
    <3>4. ASSUME NEW f \in audited, f # e
          PROVE  InOnePlace(f)'
      <4>1. f \in excused' <=> f \in excused
        BY <2>1, <2>4, <3>4
      <4>2. InOnePlace(f)
        BY DEF OnceEach
      <4> QED BY <1>2, <1>5, <2>2, <4>1, <4>2 DEF InOnePlace
    <3>5. audited' \subseteq audited \cup {e}
      BY <2>1, <2>4
    <3> QED BY <3>1, <3>3, <3>4, <3>5 DEF OnceEach
  <2>8. InOrder'
    <3>3. \A f \in Rows' \cup hand' \cup Queued' \cup audited' \cup pruned' \cup excused' :
             f.n <= published'
      BY <1>2, <1>5, <1>4, <2>1, <2>2, <2>4
    <3> QED BY <1>2, <2>1, <2>2, <3>3 DEF InOrder
  <2> QED BY <2>5, <2>6, <2>7, <2>8
<1> QED BY <1>6, <1>7, <1>8

(* The task takes the oldest event in hand. *)
LEMMA TakeEventKeeps ==
  ASSUME TrailInv, TakeEvent
  PROVE  TrailInv'
<1> USE DEF TrailInv
<1>1. PICK h \in Queued :
      /\ h \in Events /\ h = Head(queue)
      /\ Queued' = Queued \ {h}
      /\ \A p, q \in 1..Len(queue') : p < q => queue'[p].n < queue'[q].n
      /\ \A f \in Queued' : h.n < f.n
      /\ queue' \in Seq(Events) /\ Len(queue') <= QueueCap
  BY TailOfQueue DEF TakeEvent, Remaining
<1>2. /\ task = "waiting" /\ hand = {}
      /\ UNCHANGED <<now, published, tapped, table, lastId, audited, excused, pruned, taps>>
  BY DEF TakeEvent, InsertsAreAlone
<1>3. Rows' = Rows
  BY <1>2, TableStays
<1>4. IF h.kind \in AuditedKinds THEN task' = "writing" /\ hand' = {h}
      ELSE task' = "waiting" /\ hand' = {}
  BY <1>1, <1>2 DEF TakeEvent
<1>5. hand' \subseteq {h} /\ task' \in {"waiting", "writing"}
  BY <1>4
<1>6. AuditTypeOK'
  BY <1>1, <1>2, <1>5 DEF AuditTypeOK
<1>7. InsertsAreAlone' /\ (audited = Audited(audited))'
  BY <1>2, <1>4, <1>5 DEF InsertsAreAlone, Audited
<1>8. InOrder'
  <2>1. \A r \in DOMAIN table' : \A f \in hand' \cup Queued' : table'[r].n < f.n
    BY <1>1, <1>2, <1>5 DEF InOrder
  <2>2. \A f \in hand', g \in Queued' : f.n < g.n
    BY <1>1, <1>5
  <2>3. \A f \in Rows' \cup hand' \cup Queued' \cup audited' \cup pruned' \cup excused' :
          f.n <= published'
    BY <1>1, <1>2, <1>3, <1>5 DEF InOrder
  <2> QED BY <1>1, <2>1, <2>2, <2>3 DEF InOrder
<1>9. OnceEach'
  <2>1. RowsInOrder'
    BY <1>2 DEF OnceEach, RowsInOrder
  <2>2. ASSUME NEW f \in audited, f # h
        PROVE  InOnePlace(f)'
    <3>1. f \notin hand' /\ (f \in Queued' <=> f \in Queued)
      BY <1>1, <1>5, <2>2
    <3>2. InOnePlace(f)
      BY DEF OnceEach
    <3> QED BY <1>2, <1>3, <3>1, <3>2 DEF InOnePlace
  <2>3. ASSUME h \in audited
        PROVE  InOnePlace(h)'
    <3>1. h \in hand' /\ h \notin Queued'
      BY <1>1, <1>4, <2>3 DEF Audited
    <3>2. InOnePlace(h)
      BY <2>3 DEF OnceEach
    <3> QED BY <1>1, <1>2, <1>3, <3>1, <3>2 DEF InOnePlace
  <2> QED BY <1>2, <2>1, <2>2, <2>3 DEF OnceEach
<1> QED BY <1>6, <1>7, <1>8, <1>9

(* An insert, in time or late, comes after every row there is. *)
LEMMA CommitKeeps ==
  ASSUME TrailInv, NEW e \in hand, Commit(e)
  PROVE  TrailInv'
<1> USE DEF TrailInv
<1>1. /\ lastId \in Nat /\ lastId' = lastId + 1 /\ hand = {e} /\ e \in Events
      /\ DOMAIN table \subseteq 1..lastId /\ task # "waiting"
  BY DEF AuditTypeOK, InsertsAreAlone, Commit
<1>2. /\ DOMAIN table' = DOMAIN table \cup {lastId'} /\ table'[lastId'] = e
      /\ \A r \in DOMAIN table : r # lastId' /\ table'[r] = table[r]
      /\ hand' = {} /\ task' = IF task = "writing" THEN "waiting" ELSE task
      /\ UNCHANGED <<now, published, tapped, queue, audited, excused, pruned, taps>>
  BY <1>1 DEF Commit
<1>3. Rows' = Rows \cup {e}
  BY <1>2 DEF Rows
<1>4. Queued' = Queued
  BY <1>2, QueueStays
<1>5. AuditTypeOK'
  <2>1. DOMAIN table' \subseteq 1..lastId' /\ \A r \in DOMAIN table' : table'[r] \in Events
    BY <1>1, <1>2 DEF AuditTypeOK
  <2>2. task' \in {"none", "waiting", "writing"} /\ lastId' \in Nat
    BY <1>1, <1>2 DEF AuditTypeOK
  <2> QED BY <1>2, <2>1, <2>2 DEF AuditTypeOK
<1>6. InsertsAreAlone' /\ (audited = Audited(audited))'
  BY <1>2 DEF InsertsAreAlone, Audited
<1>7. InOrder'
  BY <1>1, <1>2, <1>3, <1>4 DEF InOrder
<1>8. OnceEach'
  <2>1. RowsInOrder'
    <3>1. \A r \in DOMAIN table : table[r].n < e.n /\ r < lastId'
      BY <1>1 DEF InOrder
    <3> QED BY <1>1, <1>2, <3>1 DEF OnceEach, RowsInOrder
  <2>2. ASSUME NEW f \in audited
        PROVE  InOnePlace(f)'
    <3>1. InOnePlace(f)
      BY DEF OnceEach
    <3> QED BY <1>1, <1>2, <1>3, <1>4, <3>1 DEF InOnePlace
  <2> QED BY <1>2, <2>1, <2>2 DEF OnceEach
<1> QED BY <1>5, <1>6, <1>7, <1>8

(* An insert that raises drops its event. *)
LEMMA InsertFailsKeeps ==
  ASSUME TrailInv, NEW e \in hand, InsertFails(e)
  PROVE  TrailInv'
<1> USE DEF TrailInv
<1>1. /\ hand = {e} /\ e \in Events /\ task # "waiting"
      /\ hand' = {} /\ task' = IF task = "writing" THEN "waiting" ELSE task
      /\ excused' = excused \cup {e}
      /\ UNCHANGED <<now, published, tapped, queue, table, lastId, audited, pruned, taps>>
  BY DEF AuditTypeOK, InsertsAreAlone, InsertFails
<1>2. Queued' = Queued /\ Rows' = Rows
  BY <1>1, QueueStays, TableStays
<1>3. AuditTypeOK'
  BY <1>1 DEF AuditTypeOK
<1>4. InsertsAreAlone' /\ (audited = Audited(audited))'
  BY <1>1 DEF InsertsAreAlone, Audited
<1>5. InOrder'
  BY <1>1, <1>2 DEF InOrder
<1>6. OnceEach'
  <2>1. RowsInOrder'
    BY <1>1 DEF OnceEach, RowsInOrder
  <2>2. ASSUME NEW f \in audited
        PROVE  InOnePlace(f)'
    <3>1. InOnePlace(f)
      BY DEF OnceEach
    <3> QED BY <1>1, <1>2, <3>1 DEF InOnePlace
  <2> QED BY <1>1, <2>1, <2>2 DEF OnceEach
<1> QED BY <1>3, <1>4, <1>5, <1>6

(* retention_prune moves rows to the pruned ones. *)
LEMMA PruneKeeps ==
  ASSUME TrailInv, Prune
  PROVE  TrailInv'
<1> USE DEF TrailInv
<1>1. /\ DOMAIN table' = {s \in DOMAIN table : ~Old(table[s])}
      /\ \A r \in DOMAIN table' : table'[r] = table[r]
      /\ pruned' = pruned \cup {e \in Rows : Old(e)}
      /\ UNCHANGED <<now, published, task, tapped, queue, hand, lastId, audited, excused, taps>>
  BY DEF Prune
<1>2. Queued' = Queued
  BY <1>1, QueueStays
<1>3. Rows' = {e \in Rows : ~Old(e)}
  BY <1>1 DEF Rows
<1>4. Rows \subseteq Events
  BY DEF Rows, AuditTypeOK
<1>5. AuditTypeOK'
  BY <1>1, <1>4 DEF AuditTypeOK
<1>6. InsertsAreAlone' /\ (audited = Audited(audited))'
  BY <1>1 DEF InsertsAreAlone, Audited
<1>7. InOrder'
  BY <1>1, <1>2, <1>3 DEF InOrder
<1>8. OnceEach'
  <2>1. RowsInOrder'
    BY <1>1 DEF OnceEach, RowsInOrder
  <2>2. ASSUME NEW f \in audited
        PROVE  InOnePlace(f)'
    <3>1. InOnePlace(f)
      BY DEF OnceEach
    <3> QED BY <1>1, <1>2, <1>3, <3>1 DEF InOnePlace
  <2> QED BY <1>1, <2>1, <2>2 DEF OnceEach
<1> QED BY <1>5, <1>6, <1>7, <1>8

(* Stop, and a loss of the process, which loses what is being inserted.    *)
LEMMA EndKeeps ==
  ASSUME TrailInv, Stop \/ Crash
  PROVE  TrailInv'
<1> USE DEF TrailInv
<1>1. /\ queue' = <<>> /\ tapped' = FALSE /\ task' = "none"
      /\ \/ hand' = hand /\ excused' = excused \cup Audited(Queued)
         \/ hand' = {} /\ excused' = excused \cup Audited(Queued) \cup hand
      /\ UNCHANGED <<now, published, table, lastId, audited, pruned, taps>>
  BY DEF Stop, Crash
<1>2. Queued' = {} /\ Len(queue') = 0 /\ queue' \in Seq(Events)
  BY <1>1, QueueIsDropped
<1>3. Rows' = Rows
  BY <1>1, TableStays
<1>4. /\ excused' \subseteq excused \cup Queued \cup hand
      /\ hand' \subseteq hand
  BY <1>1 DEF Audited
<1>5. AuditTypeOK'
  <2>1. Queued \subseteq Events
    BY DEF Queued, AuditTypeOK
  <2>2. excused' \subseteq Events /\ hand' \subseteq Events
    BY <1>4, <2>1 DEF AuditTypeOK
  <2>3. Len(queue') <= QueueCap
    BY <1>2, AuditAssumption
  <2> QED BY <1>1, <1>2, <2>2, <2>3 DEF AuditTypeOK
<1>6. InsertsAreAlone' /\ (audited = Audited(audited))'
  BY <1>1, <1>4 DEF InsertsAreAlone, Audited
<1>7. InOrder'
  BY <1>1, <1>2, <1>3, <1>4 DEF InOrder
<1>8. OnceEach'
  <2>1. RowsInOrder'
    BY <1>1 DEF OnceEach, RowsInOrder
  <2>2. ASSUME NEW f \in audited
        PROVE  InOnePlace(f)'
    <3>1. InOnePlace(f)
      BY DEF OnceEach
    <3>2. f \in Queued <=> f \in Audited(Queued)
      BY DEF Audited
    <3> QED BY <1>1, <1>2, <1>3, <3>1, <3>2 DEF InOnePlace
  <2> QED BY <1>1, <2>1, <2>2 DEF OnceEach
<1> QED BY <1>5, <1>6, <1>7, <1>8

(* The audit log keeps its invariant through every step. *)
LEMMA AuditInvHolds ==
  AuditSpec => []AuditInv
<1>1. AuditInit => TrailInv
  <2> SUFFICES ASSUME AuditInit
               PROVE  TrailInv
    OBVIOUS
  <2> USE DEF AuditInit
  <2>1. Queued = {} /\ Rows = {} /\ DOMAIN table = {} /\ Len(queue) = 0 /\ queue \in Seq(Events)
    BY DEF Queued, Rows
  <2>2. AuditTypeOK
    <3>1. 0 \in 0..MaxDays /\ 0 \in 0..MaxEvents /\ 0 \in 0..MaxTaps /\ 0 <= QueueCap
      BY AuditAssumption
    <3>2. DOMAIN table \subseteq 1..lastId /\ \A r \in DOMAIN table : table[r] \in Events
      BY <2>1
    <3> QED BY <2>1, <3>1, <3>2 DEF AuditTypeOK
  <2>3. InsertsAreAlone /\ InOrder /\ OnceEach /\ audited = Audited(audited)
    BY <2>1 DEF InsertsAreAlone, InOrder, OnceEach, RowsInOrder, Audited
  <2> QED BY <2>2, <2>3 DEF TrailInv
<1>2. TrailInv /\ [AuditNext]_auditVars => TrailInv'
  <2> SUFFICES ASSUME TrailInv, [AuditNext]_auditVars
               PROVE  TrailInv'
    OBVIOUS
  <2>1. CASE AuditNext
    BY <2>1, DayKeeps, StartKeeps, PublishKeeps, TakeEventKeeps, CommitKeeps, InsertFailsKeeps,
       PruneKeeps, EndKeeps DEF AuditNext
  <2>2. CASE UNCHANGED auditVars
    <3>1. Queued' = Queued /\ Rows' = Rows
      BY <2>2, QueueStays, TableStays DEF auditVars
    <3> USE <2>2 DEF auditVars, TrailInv
    <3>2. AuditTypeOK' /\ InsertsAreAlone' /\ (audited = Audited(audited))'
      BY DEF AuditTypeOK, InsertsAreAlone, Audited
    <3>3. InOrder' /\ OnceEach'
      BY <3>1 DEF InOrder, OnceEach, InOnePlace, RowsInOrder
    <3> QED BY <3>2, <3>3
  <2> QED BY <2>1, <2>2
<1>3. TrailInv => AuditInv
  BY TrailIsAudit
<1> QED BY <1>1, <1>2, <1>3, PTL DEF AuditSpec

(* The trail holds each audited event once and in the order of their       *)
(* publication, whatever is stopped, lost, pruned or inserted late; and an *)
(* event the tap saw is in one place: queued, being inserted, in the       *)
(* trail, deleted after its retention, or dropped for a reason the code    *)
(* names (_tap_event, _run, _handle, stop and retention_prune).            *)
THEOREM TrailHasEachEventOnce ==
  AuditSpec => []EachEventOnce
<1>1. AuditInv => EachEventOnce
  BY DEF AuditInv
<1> QED BY <1>1, AuditInvHolds, PTL

-----------------------------------------------------------------------------
(* Backups *)

(* A set of naturals has a least element, and one that is bounded a        *)
(* greatest one.                                                           *)
LEMMA LeastOf ==
  ASSUME NEW S, S \subseteq Nat, S # {}
  PROVE  \E n \in S : \A m \in S : n <= m
<1> DEFINE Less == OpToRel(<, Nat)
<1>1. IsWellFoundedOn(Less, Nat)
  BY NatLessThanWellFounded
<1>2. \A m, n \in Nat : m < n => <<m, n>> \in Less
  BY DEF OpToRel
<1> HIDE DEF Less
<1>3. PICK n \in S : \A m \in S : <<m, n>> \notin Less
  BY <1>1, WFMin
<1>4. ASSUME NEW m \in S
      PROVE  n <= m
  <2>1. m \in Nat /\ n \in Nat /\ ~(m < n)
    BY <1>2, <1>3
  <2> QED BY <2>1
<1> QED BY <1>4

(* A bounded set of numbers that is not empty has a greatest one. *)
LEMMA GreatestOf ==
  ASSUME NEW N \in Nat, NEW S, S \subseteq 0..N, S # {}
  PROVE  \E n \in S : \A m \in S : m <= n
<1> DEFINE T == {N - m : m \in S}
<1>1. \A m \in S : N - m \in Nat
  OBVIOUS
<1>2. PICK t \in T : \A u \in T : t <= u
  <2>1. T \subseteq Nat /\ T # {}
    BY <1>1
  <2> HIDE DEF T
  <2> QED BY <2>1, LeastOf
<1>3. PICK n \in S : t = N - n
  OBVIOUS
<1>4. ASSUME NEW m \in S
      PROVE  m <= n
  <2>1. N - n <= N - m
    BY <1>2, <1>3
  <2>2. m \in Nat /\ n \in Nat
    OBVIOUS
  <2> HIDE DEF T
  <2> QED BY <2>1, <2>2
<1> QED BY <1>4

(* A backup begins. *)
LEMMA CreateBackupKeeps ==
  ASSUME BackupsInv, NEW b \in BackupIds, NEW k \in {"metadata", "full"}, CreateBackup(b, k)
  PROVE  BackupsInv'
<1> USE DEF BackupsInv
<1>1. BackupsTypeOK'
  BY DEF CreateBackup, Goto, containerVars, drillVars, BackupsTypeOK, BackupPhases, Contents
<1>2. SidecarFollowsTar'
  BY DEF CreateBackup, Goto, containerVars, drillVars, BackupsTypeOK, SidecarFollowsTar
<1>3. DrillLooksAtAKnown'
  BY DEF CreateBackup, Goto, containerVars, drillVars, BackupsTypeOK, DrillLooksAtAKnown, SidecarFollowsTar
<1>4. AloneFindsItsOwn'
  BY DEF CreateBackup, Goto, containerVars, drillVars, BackupsTypeOK, AloneFindsItsOwn, InDirectory, SidecarFollowsTar
<1>5. AlarmHasReason'
  BY DEF CreateBackup, Goto, containerVars, drillVars, BackupsTypeOK, AlarmHasReason, DrillLooksAtAKnown, SidecarFollowsTar, AloneFindsItsOwn
<1>6. SilenceMeansData'
  BY DEF CreateBackup, Goto, containerVars, drillVars, BackupsTypeOK, SilenceMeansData, DrillLooksAtAKnown, SidecarFollowsTar, AloneFindsItsOwn
<1>7. ClaimedDataIsWhole'
  BY <1>4 DEF AloneFindsItsOwn, ClaimedDataIsWhole, Known
<1> QED BY <1>1, <1>2, <1>3, <1>4, <1>5, <1>6, <1>7

(* Without a running minio-client container the lake is left out. *)
LEMMA NotRunningKeeps ==
  ASSUME BackupsInv, NEW b \in BackupIds, NotRunning(b)
  PROVE  BackupsInv'
<1> USE DEF BackupsInv
<1>1. BackupsTypeOK'
  BY DEF NotRunning, Goto, containerVars, drillVars, BackupsTypeOK, BackupPhases, Contents
<1>2. SidecarFollowsTar'
  BY DEF NotRunning, Goto, containerVars, drillVars, BackupsTypeOK, SidecarFollowsTar
<1>3. DrillLooksAtAKnown'
  BY DEF NotRunning, Goto, containerVars, drillVars, BackupsTypeOK, DrillLooksAtAKnown, SidecarFollowsTar
<1>4. AloneFindsItsOwn'
  BY DEF NotRunning, Goto, containerVars, drillVars, BackupsTypeOK, AloneFindsItsOwn, InDirectory, SidecarFollowsTar
<1>5. AlarmHasReason'
  BY DEF NotRunning, Goto, containerVars, drillVars, BackupsTypeOK, AlarmHasReason, DrillLooksAtAKnown, SidecarFollowsTar, AloneFindsItsOwn
<1>6. SilenceMeansData'
  BY DEF NotRunning, Goto, containerVars, drillVars, BackupsTypeOK, SilenceMeansData, DrillLooksAtAKnown, SidecarFollowsTar, AloneFindsItsOwn
<1>7. ClaimedDataIsWhole'
  BY <1>4 DEF AloneFindsItsOwn, ClaimedDataIsWhole, Known
<1> QED BY <1>1, <1>2, <1>3, <1>4, <1>5, <1>6, <1>7

(* The command that empties and fills the shared directory begins. *)
LEMMA BeginMirrorKeeps ==
  ASSUME BackupsInv, NEW b \in BackupIds, BeginMirror(b)
  PROVE  BackupsInv'
<1> USE DEF BackupsInv
<1>1. BackupsTypeOK'
  BY DEF BeginMirror, Goto, Inside, Others, containerVars, drillVars, BackupsTypeOK, BackupPhases, Contents
<1>2. SidecarFollowsTar'
  BY DEF BeginMirror, Goto, Inside, Others, containerVars, drillVars, BackupsTypeOK, SidecarFollowsTar
<1>3. DrillLooksAtAKnown'
  BY DEF BeginMirror, Goto, Inside, Others, containerVars, drillVars, BackupsTypeOK, DrillLooksAtAKnown, SidecarFollowsTar
<1>4. AloneFindsItsOwn'
  BY DEF BeginMirror, Goto, Inside, Others, containerVars, drillVars, BackupsTypeOK, AloneFindsItsOwn, InDirectory, SidecarFollowsTar
<1>5. AlarmHasReason'
  BY DEF BeginMirror, Goto, Inside, Others, containerVars, drillVars, BackupsTypeOK, AlarmHasReason, DrillLooksAtAKnown, SidecarFollowsTar, AloneFindsItsOwn
<1>6. SilenceMeansData'
  BY DEF BeginMirror, Goto, Inside, Others, containerVars, drillVars, BackupsTypeOK, SilenceMeansData, DrillLooksAtAKnown, SidecarFollowsTar, AloneFindsItsOwn
<1>7. ClaimedDataIsWhole'
  BY <1>4 DEF AloneFindsItsOwn, ClaimedDataIsWhole, Known
<1> QED BY <1>1, <1>2, <1>3, <1>4, <1>5, <1>6, <1>7

(* The shared directory is emptied, also under another backup. *)
LEMMA EmptiedKeeps ==
  ASSUME BackupsInv, NEW b \in BackupIds, Emptied(b)
  PROVE  BackupsInv'
<1> USE DEF BackupsInv
<1>1. BackupsTypeOK'
  BY DEF Emptied, Inside, CopiesTorn, Torn, containerVars, drillVars, BackupsTypeOK, BackupPhases, Contents
<1>2. SidecarFollowsTar'
  BY DEF Emptied, Inside, CopiesTorn, Torn, containerVars, drillVars, BackupsTypeOK, SidecarFollowsTar
<1>3. DrillLooksAtAKnown'
  BY DEF Emptied, Inside, CopiesTorn, Torn, containerVars, drillVars, BackupsTypeOK, DrillLooksAtAKnown, SidecarFollowsTar
<1>4. AloneFindsItsOwn'
  BY DEF Emptied, Inside, CopiesTorn, Torn, containerVars, drillVars, BackupsTypeOK, AloneFindsItsOwn, InDirectory, SidecarFollowsTar
<1>5. AlarmHasReason'
  BY DEF Emptied, Inside, CopiesTorn, Torn, containerVars, drillVars, BackupsTypeOK, AlarmHasReason, DrillLooksAtAKnown, SidecarFollowsTar, AloneFindsItsOwn
<1>6. SilenceMeansData'
  BY DEF Emptied, Inside, CopiesTorn, Torn, containerVars, drillVars, BackupsTypeOK, SilenceMeansData, DrillLooksAtAKnown, SidecarFollowsTar, AloneFindsItsOwn
<1>7. ClaimedDataIsWhole'
  BY <1>4 DEF AloneFindsItsOwn, ClaimedDataIsWhole, Known
<1> QED BY <1>1, <1>2, <1>3, <1>4, <1>5, <1>6, <1>7

(* mc mirror ends, whether or not its client waits for it. *)
LEMMA MirroredKeeps ==
  ASSUME BackupsInv, NEW b \in BackupIds, NEW ok \in BOOLEAN, Mirrored(b, ok)
  PROVE  BackupsInv'
<1> USE DEF BackupsInv
<1>1. BackupsTypeOK'
  BY DEF Mirrored, Goto, Inside, MirrorFailed, Torn, containerVars, drillVars, BackupsTypeOK, BackupPhases, Contents
<1>2. SidecarFollowsTar'
  BY DEF Mirrored, Goto, Inside, MirrorFailed, Torn, containerVars, drillVars, BackupsTypeOK, SidecarFollowsTar
<1>3. DrillLooksAtAKnown'
  BY DEF Mirrored, Goto, Inside, MirrorFailed, Torn, containerVars, drillVars, BackupsTypeOK, DrillLooksAtAKnown, SidecarFollowsTar
<1>4. AloneFindsItsOwn'
  BY DEF Mirrored, Goto, Inside, MirrorFailed, Torn, containerVars, drillVars, BackupsTypeOK, AloneFindsItsOwn, InDirectory, SidecarFollowsTar
<1>5. AlarmHasReason'
  BY DEF Mirrored, Goto, Inside, MirrorFailed, Torn, containerVars, drillVars, BackupsTypeOK, AlarmHasReason, DrillLooksAtAKnown, SidecarFollowsTar, AloneFindsItsOwn
<1>6. SilenceMeansData'
  BY DEF Mirrored, Goto, Inside, MirrorFailed, Torn, containerVars, drillVars, BackupsTypeOK, SilenceMeansData, DrillLooksAtAKnown, SidecarFollowsTar, AloneFindsItsOwn
<1>7. ClaimedDataIsWhole'
  BY <1>4 DEF AloneFindsItsOwn, ClaimedDataIsWhole, Known
<1> QED BY <1>1, <1>2, <1>3, <1>4, <1>5, <1>6, <1>7

(* The client of a mirror is killed. *)
LEMMA MirrorTimesOutKeeps ==
  ASSUME BackupsInv, NEW b \in BackupIds, MirrorTimesOut(b)
  PROVE  BackupsInv'
<1> USE DEF BackupsInv
<1>1. BackupsTypeOK'
  BY DEF MirrorTimesOut, Goto, MirrorFailed, containerVars, drillVars, BackupsTypeOK, BackupPhases, Contents
<1>2. SidecarFollowsTar'
  BY DEF MirrorTimesOut, Goto, MirrorFailed, containerVars, drillVars, BackupsTypeOK, SidecarFollowsTar
<1>3. DrillLooksAtAKnown'
  BY DEF MirrorTimesOut, Goto, MirrorFailed, containerVars, drillVars, BackupsTypeOK, DrillLooksAtAKnown, SidecarFollowsTar
<1>4. AloneFindsItsOwn'
  BY DEF MirrorTimesOut, Goto, MirrorFailed, containerVars, drillVars, BackupsTypeOK, AloneFindsItsOwn, InDirectory, SidecarFollowsTar
<1>5. AlarmHasReason'
  BY DEF MirrorTimesOut, Goto, MirrorFailed, containerVars, drillVars, BackupsTypeOK, AlarmHasReason, DrillLooksAtAKnown, SidecarFollowsTar, AloneFindsItsOwn
<1>6. SilenceMeansData'
  BY DEF MirrorTimesOut, Goto, MirrorFailed, containerVars, drillVars, BackupsTypeOK, SilenceMeansData, DrillLooksAtAKnown, SidecarFollowsTar, AloneFindsItsOwn
<1>7. ClaimedDataIsWhole'
  BY <1>4 DEF AloneFindsItsOwn, ClaimedDataIsWhole, Known
<1> QED BY <1>1, <1>2, <1>3, <1>4, <1>5, <1>6, <1>7

(* docker cp begins with what is in the shared directory. *)
LEMMA BeginCopyKeeps ==
  ASSUME BackupsInv, NEW b \in BackupIds, BeginCopy(b)
  PROVE  BackupsInv'
<1> USE DEF BackupsInv
<1>1. BackupsTypeOK'
  BY DEF BeginCopy, Goto, containerVars, drillVars, BackupsTypeOK, BackupPhases, Contents
<1>2. SidecarFollowsTar'
  BY DEF BeginCopy, Goto, containerVars, drillVars, BackupsTypeOK, SidecarFollowsTar
<1>3. DrillLooksAtAKnown'
  BY DEF BeginCopy, Goto, containerVars, drillVars, BackupsTypeOK, DrillLooksAtAKnown, SidecarFollowsTar
<1>4. AloneFindsItsOwn'
  BY DEF BeginCopy, Goto, containerVars, drillVars, BackupsTypeOK, AloneFindsItsOwn, InDirectory, SidecarFollowsTar
<1>5. AlarmHasReason'
  BY DEF BeginCopy, Goto, containerVars, drillVars, BackupsTypeOK, AlarmHasReason, DrillLooksAtAKnown, SidecarFollowsTar, AloneFindsItsOwn
<1>6. SilenceMeansData'
  BY DEF BeginCopy, Goto, containerVars, drillVars, BackupsTypeOK, SilenceMeansData, DrillLooksAtAKnown, SidecarFollowsTar, AloneFindsItsOwn
<1>7. ClaimedDataIsWhole'
  BY <1>4 DEF AloneFindsItsOwn, ClaimedDataIsWhole, Known
<1> QED BY <1>1, <1>2, <1>3, <1>4, <1>5, <1>6, <1>7

(* docker cp ends. *)
LEMMA CopiedKeeps ==
  ASSUME BackupsInv, NEW b \in BackupIds, NEW ok \in BOOLEAN, Copied(b, ok)
  PROVE  BackupsInv'
<1> USE DEF BackupsInv
<1>1. BackupsTypeOK'
  BY DEF Copied, Goto, Inside, containerVars, drillVars, BackupsTypeOK, BackupPhases, Contents
<1>2. SidecarFollowsTar'
  BY DEF Copied, Goto, Inside, containerVars, drillVars, BackupsTypeOK, SidecarFollowsTar
<1>3. DrillLooksAtAKnown'
  BY DEF Copied, Goto, Inside, containerVars, drillVars, BackupsTypeOK, DrillLooksAtAKnown, SidecarFollowsTar
<1>4. AloneFindsItsOwn'
  BY DEF Copied, Goto, Inside, containerVars, drillVars, BackupsTypeOK, AloneFindsItsOwn, InDirectory, SidecarFollowsTar
<1>5. AlarmHasReason'
  BY DEF Copied, Goto, Inside, containerVars, drillVars, BackupsTypeOK, AlarmHasReason, DrillLooksAtAKnown, SidecarFollowsTar, AloneFindsItsOwn
<1>6. SilenceMeansData'
  BY DEF Copied, Goto, Inside, containerVars, drillVars, BackupsTypeOK, SilenceMeansData, DrillLooksAtAKnown, SidecarFollowsTar, AloneFindsItsOwn
<1>7. ClaimedDataIsWhole'
  BY <1>4 DEF AloneFindsItsOwn, ClaimedDataIsWhole, Known
<1> QED BY <1>1, <1>2, <1>3, <1>4, <1>5, <1>6, <1>7

(* The shared directory is removed. *)
LEMMA RemovedKeeps ==
  ASSUME BackupsInv, NEW b \in BackupIds, Removed(b)
  PROVE  BackupsInv'
<1> USE DEF BackupsInv
<1>1. BackupsTypeOK'
  BY DEF Removed, Inside, CopiesTorn, Torn, Others, containerVars, drillVars, BackupsTypeOK, BackupPhases, Contents
<1>2. SidecarFollowsTar'
  BY DEF Removed, Inside, CopiesTorn, Torn, Others, containerVars, drillVars, BackupsTypeOK, SidecarFollowsTar
<1>3. DrillLooksAtAKnown'
  BY DEF Removed, Inside, CopiesTorn, Torn, Others, containerVars, drillVars, BackupsTypeOK, DrillLooksAtAKnown, SidecarFollowsTar
<1>4. AloneFindsItsOwn'
  BY DEF Removed, Inside, CopiesTorn, Torn, Others, containerVars, drillVars, BackupsTypeOK, AloneFindsItsOwn, InDirectory, SidecarFollowsTar
<1>5. AlarmHasReason'
  BY DEF Removed, Inside, CopiesTorn, Torn, Others, containerVars, drillVars, BackupsTypeOK, AlarmHasReason, DrillLooksAtAKnown, SidecarFollowsTar, AloneFindsItsOwn
<1>6. SilenceMeansData'
  BY DEF Removed, Inside, CopiesTorn, Torn, Others, containerVars, drillVars, BackupsTypeOK, SilenceMeansData, DrillLooksAtAKnown, SidecarFollowsTar, AloneFindsItsOwn
<1>7. ClaimedDataIsWhole'
  BY <1>4 DEF AloneFindsItsOwn, ClaimedDataIsWhole, Known
<1> QED BY <1>1, <1>2, <1>3, <1>4, <1>5, <1>6, <1>7

(* It is not removed. *)
LEMMA NotRemovedKeeps ==
  ASSUME BackupsInv, NEW b \in BackupIds, NotRemoved(b)
  PROVE  BackupsInv'
<1> USE DEF BackupsInv
<1>1. BackupsTypeOK'
  BY DEF NotRemoved, Inside, containerVars, drillVars, BackupsTypeOK, BackupPhases, Contents
<1>2. SidecarFollowsTar'
  BY DEF NotRemoved, Inside, containerVars, drillVars, BackupsTypeOK, SidecarFollowsTar
<1>3. DrillLooksAtAKnown'
  BY DEF NotRemoved, Inside, containerVars, drillVars, BackupsTypeOK, DrillLooksAtAKnown, SidecarFollowsTar
<1>4. AloneFindsItsOwn'
  BY DEF NotRemoved, Inside, containerVars, drillVars, BackupsTypeOK, AloneFindsItsOwn, InDirectory, SidecarFollowsTar
<1>5. AlarmHasReason'
  BY DEF NotRemoved, Inside, containerVars, drillVars, BackupsTypeOK, AlarmHasReason, DrillLooksAtAKnown, SidecarFollowsTar, AloneFindsItsOwn
<1>6. SilenceMeansData'
  BY DEF NotRemoved, Inside, containerVars, drillVars, BackupsTypeOK, SilenceMeansData, DrillLooksAtAKnown, SidecarFollowsTar, AloneFindsItsOwn
<1>7. ClaimedDataIsWhole'
  BY <1>4 DEF AloneFindsItsOwn, ClaimedDataIsWhole, Known
<1> QED BY <1>1, <1>2, <1>3, <1>4, <1>5, <1>6, <1>7

(* The clean-up is over, whatever came of it. *)
LEMMA CleanUpKeeps ==
  ASSUME BackupsInv, NEW b \in BackupIds, CleanUp(b)
  PROVE  BackupsInv'
<1> USE DEF BackupsInv
<1>1. BackupsTypeOK'
  BY DEF CleanUp, Goto, containerVars, drillVars, BackupsTypeOK, BackupPhases, Contents
<1>2. SidecarFollowsTar'
  BY DEF CleanUp, Goto, containerVars, drillVars, BackupsTypeOK, SidecarFollowsTar
<1>3. DrillLooksAtAKnown'
  BY DEF CleanUp, Goto, containerVars, drillVars, BackupsTypeOK, DrillLooksAtAKnown, SidecarFollowsTar
<1>4. AloneFindsItsOwn'
  BY DEF CleanUp, Goto, containerVars, drillVars, BackupsTypeOK, AloneFindsItsOwn, InDirectory, SidecarFollowsTar
<1>5. AlarmHasReason'
  BY DEF CleanUp, Goto, containerVars, drillVars, BackupsTypeOK, AlarmHasReason, DrillLooksAtAKnown, SidecarFollowsTar, AloneFindsItsOwn
<1>6. SilenceMeansData'
  BY DEF CleanUp, Goto, containerVars, drillVars, BackupsTypeOK, SilenceMeansData, DrillLooksAtAKnown, SidecarFollowsTar, AloneFindsItsOwn
<1>7. ClaimedDataIsWhole'
  BY <1>4 DEF AloneFindsItsOwn, ClaimedDataIsWhole, Known
<1> QED BY <1>1, <1>2, <1>3, <1>4, <1>5, <1>6, <1>7

(* The tarball is closed. *)
LEMMA CloseKeeps ==
  ASSUME BackupsInv, NEW b \in BackupIds, Close(b)
  PROVE  BackupsInv'
<1> USE DEF BackupsInv
<1>1. BackupsTypeOK'
  BY DEF Close, Goto, CloseTar, containerVars, drillVars, BackupsTypeOK, BackupPhases, Contents
<1>2. SidecarFollowsTar'
  BY DEF Close, Goto, CloseTar, containerVars, drillVars, BackupsTypeOK, SidecarFollowsTar
<1>3. DrillLooksAtAKnown'
  BY DEF Close, Goto, CloseTar, containerVars, drillVars, BackupsTypeOK, DrillLooksAtAKnown, SidecarFollowsTar
<1>4. AloneFindsItsOwn'
  BY DEF Close, Goto, CloseTar, containerVars, drillVars, BackupsTypeOK, AloneFindsItsOwn, InDirectory, SidecarFollowsTar
<1>5. AlarmHasReason'
  BY DEF Close, Goto, CloseTar, containerVars, drillVars, BackupsTypeOK, AlarmHasReason, DrillLooksAtAKnown, SidecarFollowsTar, AloneFindsItsOwn
<1>6. SilenceMeansData'
  BY DEF Close, Goto, CloseTar, containerVars, drillVars, BackupsTypeOK, SilenceMeansData, DrillLooksAtAKnown, SidecarFollowsTar, AloneFindsItsOwn
<1>7. ClaimedDataIsWhole'
  BY <1>4 DEF AloneFindsItsOwn, ClaimedDataIsWhole, Known
<1> QED BY <1>1, <1>2, <1>3, <1>4, <1>5, <1>6, <1>7

(* A backup that raises leaves what it has written. *)
LEMMA CreateRaisesKeeps ==
  ASSUME BackupsInv, NEW b \in BackupIds, CreateRaises(b)
  PROVE  BackupsInv'
<1> USE DEF BackupsInv
<1>1. BackupsTypeOK'
  BY DEF CreateRaises, Goto, containerVars, drillVars, BackupsTypeOK, BackupPhases, Contents
<1>2. SidecarFollowsTar'
  BY DEF CreateRaises, Goto, containerVars, drillVars, BackupsTypeOK, SidecarFollowsTar
<1>3. DrillLooksAtAKnown'
  BY DEF CreateRaises, Goto, containerVars, drillVars, BackupsTypeOK, DrillLooksAtAKnown, SidecarFollowsTar
<1>4. AloneFindsItsOwn'
  BY DEF CreateRaises, Goto, containerVars, drillVars, BackupsTypeOK, AloneFindsItsOwn, InDirectory, SidecarFollowsTar
<1>5. AlarmHasReason'
  BY DEF CreateRaises, Goto, containerVars, drillVars, BackupsTypeOK, AlarmHasReason, DrillLooksAtAKnown, SidecarFollowsTar, AloneFindsItsOwn
<1>6. SilenceMeansData'
  BY DEF CreateRaises, Goto, containerVars, drillVars, BackupsTypeOK, SilenceMeansData, DrillLooksAtAKnown, SidecarFollowsTar, AloneFindsItsOwn
<1>7. ClaimedDataIsWhole'
  BY <1>4 DEF AloneFindsItsOwn, ClaimedDataIsWhole, Known
<1> QED BY <1>1, <1>2, <1>3, <1>4, <1>5, <1>6, <1>7

(* The sidecar is opened, behind a tarball that is whole. *)
LEMMA OpenSidecarKeeps ==
  ASSUME BackupsInv, NEW b \in BackupIds, OpenSidecar(b)
  PROVE  BackupsInv'
<1> USE DEF BackupsInv
<1>1. BackupsTypeOK'
  BY DEF OpenSidecar, Goto, containerVars, drillVars, BackupsTypeOK, BackupPhases, Contents
<1>2. SidecarFollowsTar'
  BY DEF OpenSidecar, Goto, containerVars, drillVars, BackupsTypeOK, SidecarFollowsTar
<1>3. DrillLooksAtAKnown'
  BY DEF OpenSidecar, Goto, containerVars, drillVars, BackupsTypeOK, DrillLooksAtAKnown, SidecarFollowsTar
<1>4. AloneFindsItsOwn'
  BY DEF OpenSidecar, Goto, containerVars, drillVars, BackupsTypeOK, AloneFindsItsOwn, InDirectory, SidecarFollowsTar
<1>5. AlarmHasReason'
  BY DEF OpenSidecar, Goto, containerVars, drillVars, BackupsTypeOK, AlarmHasReason, DrillLooksAtAKnown, SidecarFollowsTar, AloneFindsItsOwn
<1>6. SilenceMeansData'
  BY DEF OpenSidecar, Goto, containerVars, drillVars, BackupsTypeOK, SilenceMeansData, DrillLooksAtAKnown, SidecarFollowsTar, AloneFindsItsOwn
<1>7. ClaimedDataIsWhole'
  BY <1>4 DEF AloneFindsItsOwn, ClaimedDataIsWhole, Known
<1> QED BY <1>1, <1>2, <1>3, <1>4, <1>5, <1>6, <1>7

(* The sidecar is written: the backup is known. *)
LEMMA WriteSidecarKeeps ==
  ASSUME BackupsInv, NEW b \in BackupIds, WriteSidecar(b)
  PROVE  BackupsInv'
<1> USE DEF BackupsInv
<1>1. BackupsTypeOK'
  BY DEF WriteSidecar, Goto, containerVars, drillVars, BackupsTypeOK, BackupPhases, Contents
<1>2. SidecarFollowsTar'
  BY DEF WriteSidecar, Goto, containerVars, drillVars, BackupsTypeOK, SidecarFollowsTar
<1>3. DrillLooksAtAKnown'
  BY DEF WriteSidecar, Goto, containerVars, drillVars, BackupsTypeOK, DrillLooksAtAKnown, SidecarFollowsTar
<1>4. AloneFindsItsOwn'
  BY DEF WriteSidecar, Goto, containerVars, drillVars, BackupsTypeOK, AloneFindsItsOwn, InDirectory, SidecarFollowsTar
<1>5. AlarmHasReason'
  BY DEF WriteSidecar, Goto, containerVars, drillVars, BackupsTypeOK, AlarmHasReason, DrillLooksAtAKnown, SidecarFollowsTar, AloneFindsItsOwn
<1>6. SilenceMeansData'
  BY DEF WriteSidecar, Goto, containerVars, drillVars, BackupsTypeOK, SilenceMeansData, DrillLooksAtAKnown, SidecarFollowsTar, AloneFindsItsOwn
<1>7. ClaimedDataIsWhole'
  BY <1>4 DEF AloneFindsItsOwn, ClaimedDataIsWhole, Known
<1> QED BY <1>1, <1>2, <1>3, <1>4, <1>5, <1>6, <1>7

(* A deletion removes the tarball first. *)
LEMMA DeleteTarKeeps ==
  ASSUME BackupsInv, NEW b \in BackupIds, DeleteTar(b)
  PROVE  BackupsInv'
<1> USE DEF BackupsInv
<1>1. BackupsTypeOK'
  BY DEF DeleteTar, Goto, Known, containerVars, drillVars, BackupsTypeOK, BackupPhases, Contents
<1>2. SidecarFollowsTar'
  BY DEF DeleteTar, Goto, Known, containerVars, drillVars, BackupsTypeOK, SidecarFollowsTar
<1>3. DrillLooksAtAKnown'
  BY DEF DeleteTar, Goto, Known, containerVars, drillVars, BackupsTypeOK, DrillLooksAtAKnown, SidecarFollowsTar
<1>4. AloneFindsItsOwn'
  BY DEF DeleteTar, Goto, Known, containerVars, drillVars, BackupsTypeOK, AloneFindsItsOwn, InDirectory, SidecarFollowsTar
<1>5. AlarmHasReason'
  BY DEF DeleteTar, Goto, Known, containerVars, drillVars, BackupsTypeOK, AlarmHasReason, DrillLooksAtAKnown, SidecarFollowsTar, AloneFindsItsOwn
<1>6. SilenceMeansData'
  BY DEF DeleteTar, Goto, Known, containerVars, drillVars, BackupsTypeOK, SilenceMeansData, DrillLooksAtAKnown, SidecarFollowsTar, AloneFindsItsOwn
<1>7. ClaimedDataIsWhole'
  BY <1>4 DEF AloneFindsItsOwn, ClaimedDataIsWhole, Known
<1> QED BY <1>1, <1>2, <1>3, <1>4, <1>5, <1>6, <1>7

(* And then the sidecar. *)
LEMMA DeleteSidecarKeeps ==
  ASSUME BackupsInv, NEW b \in BackupIds, DeleteSidecar(b)
  PROVE  BackupsInv'
<1> USE DEF BackupsInv
<1>1. BackupsTypeOK'
  BY DEF DeleteSidecar, Goto, containerVars, drillVars, BackupsTypeOK, BackupPhases, Contents
<1>2. SidecarFollowsTar'
  BY DEF DeleteSidecar, Goto, containerVars, drillVars, BackupsTypeOK, SidecarFollowsTar
<1>3. DrillLooksAtAKnown'
  BY DEF DeleteSidecar, Goto, containerVars, drillVars, BackupsTypeOK, DrillLooksAtAKnown, SidecarFollowsTar
<1>4. AloneFindsItsOwn'
  BY DEF DeleteSidecar, Goto, containerVars, drillVars, BackupsTypeOK, AloneFindsItsOwn, InDirectory, SidecarFollowsTar
<1>5. AlarmHasReason'
  BY DEF DeleteSidecar, Goto, containerVars, drillVars, BackupsTypeOK, AlarmHasReason, DrillLooksAtAKnown, SidecarFollowsTar, AloneFindsItsOwn
<1>6. SilenceMeansData'
  BY DEF DeleteSidecar, Goto, containerVars, drillVars, BackupsTypeOK, SilenceMeansData, DrillLooksAtAKnown, SidecarFollowsTar, AloneFindsItsOwn
<1>7. ClaimedDataIsWhole'
  BY <1>4 DEF AloneFindsItsOwn, ClaimedDataIsWhole, Known
<1> QED BY <1>1, <1>2, <1>3, <1>4, <1>5, <1>6, <1>7

(* The drill picks the newest backup that is known. *)
LEMMA PickLatestKeeps ==
  ASSUME BackupsInv, PickLatest
  PROVE  BackupsInv'
<1> USE DEF BackupsInv
<1>0. Newest \in Known /\ Known \subseteq BackupIds
  <2>1. Known \subseteq 0..MaxBackups /\ Known # {} /\ MaxBackups \in Nat
    BY BackupsAssumption DEF PickLatest, Known, BackupIds
  <2>2. \E b \in Known : \A c \in Known : c <= b
    BY <2>1, GreatestOf
  <2> QED BY <2>2 DEF Newest, Known
<1>1. BackupsTypeOK'
  BY <1>0, BackupsAssumption DEF PickLatest, containerVars, drillVars, BackupsTypeOK, BackupPhases, Contents
<1>2. SidecarFollowsTar'
  BY <1>0 DEF PickLatest, containerVars, drillVars, BackupsTypeOK, SidecarFollowsTar
<1>3. DrillLooksAtAKnown'
  BY <1>0 DEF PickLatest, containerVars, drillVars, Known, BackupsTypeOK, DrillLooksAtAKnown, SidecarFollowsTar
<1>4. AloneFindsItsOwn'
  BY <1>0 DEF PickLatest, containerVars, drillVars, BackupsTypeOK, AloneFindsItsOwn, InDirectory, SidecarFollowsTar
<1>5. AlarmHasReason'
  BY <1>0 DEF PickLatest, containerVars, drillVars, BackupsTypeOK, AlarmHasReason, DrillLooksAtAKnown, SidecarFollowsTar, AloneFindsItsOwn
<1>6. SilenceMeansData'
  BY <1>0 DEF PickLatest, containerVars, drillVars, BackupsTypeOK, SilenceMeansData, DrillLooksAtAKnown, SidecarFollowsTar, AloneFindsItsOwn
<1>7. ClaimedDataIsWhole'
  BY <1>4 DEF AloneFindsItsOwn, ClaimedDataIsWhole, Known
<1> QED BY <1>1, <1>2, <1>3, <1>4, <1>5, <1>6, <1>7

(* The drill reads the sidecar. *)
LEMMA VerifySidecarKeeps ==
  ASSUME BackupsInv, VerifySidecar
  PROVE  BackupsInv'
<1> USE DEF BackupsInv
<1>1. BackupsTypeOK'
  BY DEF VerifySidecar, containerVars, drillVars, BackupsTypeOK, BackupPhases, Contents
<1>2. SidecarFollowsTar'
  BY DEF VerifySidecar, containerVars, drillVars, BackupsTypeOK, SidecarFollowsTar
<1>3. DrillLooksAtAKnown'
  BY DEF VerifySidecar, containerVars, drillVars, BackupsTypeOK, DrillLooksAtAKnown, SidecarFollowsTar
<1>4. AloneFindsItsOwn'
  BY DEF VerifySidecar, containerVars, drillVars, BackupsTypeOK, AloneFindsItsOwn, InDirectory, SidecarFollowsTar
<1>5. AlarmHasReason'
  BY DEF VerifySidecar, containerVars, drillVars, BackupsTypeOK, AlarmHasReason, DrillLooksAtAKnown, SidecarFollowsTar, AloneFindsItsOwn
<1>6. SilenceMeansData'
  BY DEF VerifySidecar, containerVars, drillVars, BackupsTypeOK, SilenceMeansData, DrillLooksAtAKnown, SidecarFollowsTar, AloneFindsItsOwn
<1>7. ClaimedDataIsWhole'
  BY <1>4 DEF AloneFindsItsOwn, ClaimedDataIsWhole, Known
<1> QED BY <1>1, <1>2, <1>3, <1>4, <1>5, <1>6, <1>7

(* The drill reads the tarball. *)
LEMMA VerifyTarKeeps ==
  ASSUME BackupsInv, VerifyTar
  PROVE  BackupsInv'
<1> USE DEF BackupsInv
<1>1. BackupsTypeOK'
  BY DEF VerifyTar, containerVars, drillVars, BackupsTypeOK, BackupPhases, Contents
<1>2. SidecarFollowsTar'
  BY DEF VerifyTar, containerVars, drillVars, BackupsTypeOK, SidecarFollowsTar
<1>3. DrillLooksAtAKnown'
  BY DEF VerifyTar, containerVars, drillVars, BackupsTypeOK, DrillLooksAtAKnown, SidecarFollowsTar
<1>4. AloneFindsItsOwn'
  BY DEF VerifyTar, containerVars, drillVars, BackupsTypeOK, AloneFindsItsOwn, InDirectory, SidecarFollowsTar
<1>5. AlarmHasReason'
  BY DEF VerifyTar, containerVars, drillVars, BackupsTypeOK, AlarmHasReason, DrillLooksAtAKnown, SidecarFollowsTar, AloneFindsItsOwn
<1>6. SilenceMeansData'
  BY DEF VerifyTar, containerVars, drillVars, BackupsTypeOK, SilenceMeansData, DrillLooksAtAKnown, SidecarFollowsTar, AloneFindsItsOwn
<1>7. ClaimedDataIsWhole'
  BY <1>4 DEF AloneFindsItsOwn, ClaimedDataIsWhole, Known
<1> QED BY <1>1, <1>2, <1>3, <1>4, <1>5, <1>6, <1>7

(* The drill is over. *)
LEMMA DrillOverKeeps ==
  ASSUME BackupsInv, DrillOver
  PROVE  BackupsInv'
<1> USE DEF BackupsInv
<1>1. BackupsTypeOK'
  BY DEF DrillOver, containerVars, drillVars, BackupsTypeOK, BackupPhases, Contents
<1>2. SidecarFollowsTar'
  BY DEF DrillOver, containerVars, drillVars, BackupsTypeOK, SidecarFollowsTar
<1>3. DrillLooksAtAKnown'
  BY DEF DrillOver, containerVars, drillVars, BackupsTypeOK, DrillLooksAtAKnown, SidecarFollowsTar
<1>4. AloneFindsItsOwn'
  BY DEF DrillOver, containerVars, drillVars, BackupsTypeOK, AloneFindsItsOwn, InDirectory, SidecarFollowsTar
<1>5. AlarmHasReason'
  BY DEF DrillOver, containerVars, drillVars, BackupsTypeOK, AlarmHasReason, DrillLooksAtAKnown, SidecarFollowsTar, AloneFindsItsOwn
<1>6. SilenceMeansData'
  BY DEF DrillOver, containerVars, drillVars, BackupsTypeOK, SilenceMeansData, DrillLooksAtAKnown, SidecarFollowsTar, AloneFindsItsOwn
<1>7. ClaimedDataIsWhole'
  BY <1>4 DEF AloneFindsItsOwn, ClaimedDataIsWhole, Known
<1> QED BY <1>1, <1>2, <1>3, <1>4, <1>5, <1>6, <1>7

(* The process is lost: backups stop where they are, the container goes    *)
(* on.                                                                     *)
LEMMA LostKeeps ==
  ASSUME BackupsInv, Lost
  PROVE  BackupsInv'
<1> USE DEF BackupsInv
<1>1. BackupsTypeOK'
  BY BackupsAssumption DEF Lost, containerVars, drillVars, BackupsTypeOK, BackupPhases, Contents
<1>2. SidecarFollowsTar'
  BY DEF Lost, containerVars, drillVars, BackupsTypeOK, SidecarFollowsTar
<1>3. DrillLooksAtAKnown'
  BY DEF Lost, containerVars, drillVars, BackupsTypeOK, DrillLooksAtAKnown, SidecarFollowsTar
<1>4. AloneFindsItsOwn'
  BY DEF Lost, containerVars, drillVars, BackupsTypeOK, AloneFindsItsOwn, InDirectory, SidecarFollowsTar
<1>5. AlarmHasReason'
  BY DEF Lost, containerVars, drillVars, BackupsTypeOK, AlarmHasReason, DrillLooksAtAKnown, SidecarFollowsTar, AloneFindsItsOwn
<1>6. SilenceMeansData'
  BY DEF Lost, containerVars, drillVars, BackupsTypeOK, SilenceMeansData, DrillLooksAtAKnown, SidecarFollowsTar, AloneFindsItsOwn
<1>7. ClaimedDataIsWhole'
  BY <1>4 DEF AloneFindsItsOwn, ClaimedDataIsWhole, Known
<1> QED BY <1>1, <1>2, <1>3, <1>4, <1>5, <1>6, <1>7

(* Every step keeps the invariant. *)
LEMMA BackupsInvNext ==
  BackupsInv /\ [BackupsNext]_backupVars => BackupsInv'
<1> SUFFICES ASSUME BackupsInv, [BackupsNext]_backupVars
             PROVE  BackupsInv'
  OBVIOUS
<1>1. ASSUME NEW b \in BackupIds, NEW k \in {"metadata", "full"}, CreateBackup(b, k)
      PROVE  BackupsInv'
  BY <1>1, CreateBackupKeeps
<1>2. ASSUME NEW b \in BackupIds, NotRunning(b)
      PROVE  BackupsInv'
  BY <1>2, NotRunningKeeps
<1>3. ASSUME NEW b \in BackupIds, BeginMirror(b)
      PROVE  BackupsInv'
  BY <1>3, BeginMirrorKeeps
<1>4. ASSUME NEW b \in BackupIds, Emptied(b)
      PROVE  BackupsInv'
  BY <1>4, EmptiedKeeps
<1>5. ASSUME NEW b \in BackupIds, NEW ok \in BOOLEAN, Mirrored(b, ok)
      PROVE  BackupsInv'
  BY <1>5, MirroredKeeps
<1>6. ASSUME NEW b \in BackupIds, MirrorTimesOut(b)
      PROVE  BackupsInv'
  BY <1>6, MirrorTimesOutKeeps
<1>7. ASSUME NEW b \in BackupIds, BeginCopy(b)
      PROVE  BackupsInv'
  BY <1>7, BeginCopyKeeps
<1>8. ASSUME NEW b \in BackupIds, NEW ok \in BOOLEAN, Copied(b, ok)
      PROVE  BackupsInv'
  BY <1>8, CopiedKeeps
<1>9. ASSUME NEW b \in BackupIds, Removed(b)
      PROVE  BackupsInv'
  BY <1>9, RemovedKeeps
<1>10. ASSUME NEW b \in BackupIds, NotRemoved(b)
      PROVE  BackupsInv'
  BY <1>10, NotRemovedKeeps
<1>11. ASSUME NEW b \in BackupIds, CleanUp(b)
      PROVE  BackupsInv'
  BY <1>11, CleanUpKeeps
<1>12. ASSUME NEW b \in BackupIds, Close(b)
      PROVE  BackupsInv'
  BY <1>12, CloseKeeps
<1>13. ASSUME NEW b \in BackupIds, CreateRaises(b)
      PROVE  BackupsInv'
  BY <1>13, CreateRaisesKeeps
<1>14. ASSUME NEW b \in BackupIds, OpenSidecar(b)
      PROVE  BackupsInv'
  BY <1>14, OpenSidecarKeeps
<1>15. ASSUME NEW b \in BackupIds, WriteSidecar(b)
      PROVE  BackupsInv'
  BY <1>15, WriteSidecarKeeps
<1>16. ASSUME NEW b \in BackupIds, DeleteTar(b)
      PROVE  BackupsInv'
  BY <1>16, DeleteTarKeeps
<1>17. ASSUME NEW b \in BackupIds, DeleteSidecar(b)
      PROVE  BackupsInv'
  BY <1>17, DeleteSidecarKeeps
<1>18. CASE PickLatest
  BY <1>18, PickLatestKeeps
<1>19. CASE VerifySidecar
  BY <1>19, VerifySidecarKeeps
<1>20. CASE VerifyTar
  BY <1>20, VerifyTarKeeps
<1>21. CASE DrillOver
  BY <1>21, DrillOverKeeps
<1>22. CASE Lost
  BY <1>22, LostKeeps
<1>23. CASE UNCHANGED backupVars
  BY <1>23 DEF backupVars, containerVars, drillVars, BackupsInv, BackupsTypeOK, SidecarFollowsTar,
       DrillLooksAtAKnown, AlarmHasReason, SilenceMeansData, AloneFindsItsOwn, InDirectory,
       ClaimedDataIsWhole, Known
<1> QED
  BY <1>1, <1>2, <1>3, <1>4, <1>5, <1>6, <1>7, <1>8, <1>9, <1>10, <1>11, <1>12,
     <1>13, <1>14, <1>15, <1>16, <1>17, <1>18, <1>19, <1>20, <1>21, <1>22, <1>23
  DEF BackupsNext

(* Backups, deletions, drills and losses keep it for ever. *)
LEMMA BackupsInvHolds == BackupsSpec => []BackupsInv
<1>1. ASSUME BackupsInit
      PROVE  BackupsInv
  <2>1. 0 \in 0..MaxDrills /\ 0 \in 0..MaxLosses
    BY BackupsAssumption
  <2>2. BackupsTypeOK
    BY <1>1, <2>1 DEF BackupsInit, BackupsTypeOK, BackupPhases, Contents, NoBackup
  <2>3. SidecarFollowsTar /\ DrillLooksAtAKnown /\ AlarmHasReason /\ SilenceMeansData
    BY <1>1 DEF BackupsInit, SidecarFollowsTar, DrillLooksAtAKnown, AlarmHasReason,
         SilenceMeansData
  <2>4. AloneFindsItsOwn /\ ClaimedDataIsWhole
    BY <1>1 DEF BackupsInit, AloneFindsItsOwn, InDirectory, ClaimedDataIsWhole, Known
  <2> QED BY <2>2, <2>3, <2>4 DEF BackupsInv
<1>2. BackupsInv /\ [BackupsNext]_backupVars => BackupsInv'
  BY BackupsInvNext
<1> QED BY <1>1, <1>2, PTL DEF BackupsSpec

(* However many backups share the directory of the minio-client container, *)
(* whatever runs on there behind a client that was killed or lost, and     *)
(* wherever one fails: the drill raises the alarm for a reason, never for  *)
(* a backup in the making, and a full backup it passes, like one that says *)
(* it has the lake, has all of it, unless a command of another ran in the  *)
(* shared directory at the same time.                                      *)
THEOREM BackupsAreWhatTheySay ==
  BackupsSpec => []BackupsAreTrue
<1>1. BackupsInv => BackupsAreTrue
  BY DEF BackupsInv, BackupsAreTrue
<1> QED BY <1>1, BackupsInvHolds, PTL

-----------------------------------------------------------------------------
(* The orders pipeline of the Hadoop stack *)

(* Before the first run there is no batch to promise, write or lose.       *)
LEMMA OrdersStart == OrdersInit => OrdersInv
<1> SUFFICES ASSUME OrdersInit PROVE OrdersInv
  OBVIOUS
<1> USE HadoopAssumption DEF HadoopAssumption, Nobody
<1>1. HadoopTypeOK
  <2>1. (CHOOSE g \in Regions : TRUE) \in Regions
    OBVIOUS
  <2>2. batch \in [Runs -> [region : Regions, stamp : 0..MaxClock]]
    BY <2>1 DEF OrdersInit
  <2>3. second \in 1..MaxClock /\ csv \in [Runs -> 1..MaxClock]
    BY DEF OrdersInit
  <2> QED  BY <2>2, <2>3 DEF OrdersInit, HadoopTypeOK
<1>2. FilesAreTheirRuns /\ BatchesAreGenerated /\ PromisesAreCarried
  BY DEF OrdersInit, FilesAreTheirRuns, BatchesAreGenerated, Generated, PromisesAreCarried
<1>3. WritesMeet /\ CommittedStays
  BY DEF OrdersInit, WritesMeet, CommittedStays
<1> QED  BY <1>1, <1>2, <1>3 DEF OrdersInv

(* A script at its end, or before it has found anything, has no promise to *)
(* keep; so what moves only such scripts and the tasks keeps the invariant.*)
LEMMA QuietStepKeeps ==
  ASSUME OrdersInv, HadoopTypeOK', UNCHANGED <<batch, csv, files, whole, orders, crossed>>,
         registered \subseteq registered',
         \A r \in Runs : dag'[r] \in {"none", "land", "put"} => dag'[r] = dag[r],
         \A r \in Runs :
           \/ UNCHANGED <<script[r], listed[r], promised[r], rows[r], base[r]>>
           \/ /\ script'[r] \in {"begun", "errors", "lost"} \/ (script'[r] = "ok" /\ promised'[r] = {})
              /\ promised'[r] \subseteq promised[r] /\ rows'[r] \subseteq rows[r]
              /\ base'[r] = base[r] \/ \A g \in Regions : base'[r][g] = Nobody
  PROVE  OrdersInv'
<1>1. HadoopTypeOK
  BY DEF OrdersInv
<1>2. FilesAreTheirRuns'
  BY <1>1 DEF OrdersInv, FilesAreTheirRuns, HadoopTypeOK
<1>3. BatchesAreGenerated'
  <2>1. \A q \in Runs : dag'[q] = "none" => dag[q] = "none"
    OBVIOUS
  <2>2. \A r \in Runs : \A q \in promised'[r] : q \in Runs /\ dag'[q] \notin {"none", "land", "put"}
    BY DEF OrdersInv, BatchesAreGenerated
  <2>3. \A r \in Runs : \A q \in rows'[r] : dag'[q] # "none"
    <3>1. \A r \in Runs : rows'[r] \subseteq rows[r] /\ rows[r] \subseteq Runs
      BY <1>1 DEF HadoopTypeOK
    <3> QED  BY <2>1, <3>1 DEF OrdersInv, BatchesAreGenerated
  <2>4. \A g \in Regions : orders'[g] # Nobody => dag'[orders'[g]] # "none"
    BY <1>1, <2>1 DEF OrdersInv, BatchesAreGenerated, Generated, HadoopTypeOK
  <2>5. ASSUME NEW r \in Runs, NEW g \in Regions, base'[r][g] # Nobody
        PROVE  dag'[base'[r][g]] # "none"
    <3>1. base'[r][g] = base[r][g]
      BY <2>5
    <3>2. base[r][g] \in Runs /\ dag[base[r][g]] # "none"
      BY <1>1, <2>5, <3>1 DEF OrdersInv, BatchesAreGenerated, Generated, HadoopTypeOK
    <3> QED  BY <2>1, <3>1, <3>2
  <2> QED  BY <2>2, <2>3, <2>4, <2>5 DEF BatchesAreGenerated, Generated
<1>4. PromisesAreCarried'
  BY DEF OrdersInv, PromisesAreCarried, Lies
<1>5. WritesMeet'
  BY DEF OrdersInv, WritesMeet
<1>6. CommittedStays'
  BY DEF OrdersInv, CommittedStays, Keeps, Lies, Covers
<1> QED  BY <1>2, <1>3, <1>4, <1>5, <1>6 DEF OrdersInv

(* What only moves a task, starts a script or changes schema and ACK.      *)
LEMMA TasksKeep ==
  ASSUME OrdersInv,
         \/ Tick \/ StageSchema
         \/ \E r \in Runs : PutAck(r) \/ Submit(r) \/ ClientReturns(r) \/ VerifyTable(r)
                             \/ TaskFails(r) \/ SubmitByHand(r)
  PROVE  OrdersInv'
<1> DEFINE A(r) == PutAck(r) \/ Submit(r) \/ SubmitByHand(r)
           B(r) == ClientReturns(r) \/ VerifyTable(r) \/ TaskFails(r)
           Tasks == {"none", "land", "put", "ack", "submit", "spark", "verify", "success", "failed"}
<1>1. HadoopTypeOK
  BY DEF OrdersInv
<1>2. /\ UNCHANGED <<batch, csv, files, whole, listed, promised, rows, base, orders, registered,
                     crossed>>
      /\ second' \in 1..MaxClock /\ schema' \in {"none", "yaml", "acked"} /\ ack' \in BOOLEAN
      /\ \/ dag' = dag
         \/ \E r \in Runs, t \in Tasks \ {"none", "land", "put"} : dag' = [dag EXCEPT ![r] = t]
      /\ script' = script \/ \E r \in Runs : script' = [script EXCEPT ![r] = "begun"]
      /\ drop' = drop \/ \E r \in Runs, d \in BOOLEAN : drop' = [drop EXCEPT ![r] = d]
  <2>1. CASE Tick \/ StageSchema
    BY <1>1, <2>1, HadoopAssumption DEF HadoopAssumption, HadoopTypeOK, Tick, StageSchema,
                                         dagVars, landVars, scriptVars, tableVars
  <2>2. ASSUME NEW r \in Runs, PutAck(r)
        PROVE  /\ UNCHANGED <<second, schema, batch, csv, files, whole, scriptVars, tableVars>>
               /\ ack' \in BOOLEAN /\ dag' = [dag EXCEPT ![r] = "submit"]
    BY <1>1, <2>2 DEF PutAck, Task, landVars
  <2>4. ASSUME NEW r \in Runs, Submit(r)
        PROVE  /\ UNCHANGED <<second, schema, ack, batch, csv, files, whole, drop, listed,
                              promised, rows, base, tableVars>>
               /\ dag' = [dag EXCEPT ![r] = "spark"] /\ script' = [script EXCEPT ![r] = "begun"]
    BY <2>4 DEF Submit, Task, landVars
  <2>5. ASSUME NEW r \in Runs, SubmitByHand(r)
        PROVE  /\ UNCHANGED <<second, schema, ack, dag, batch, csv, files, whole, listed,
                              promised, rows, base, tableVars>>
               /\ script' = [script EXCEPT ![r] = "begun"]
               /\ \E d \in BOOLEAN : drop' = [drop EXCEPT ![r] = d]
    BY <2>5 DEF SubmitByHand, dagVars, landVars
  <2>6. CASE \E r \in Runs : A(r)
    BY <1>1, <2>2, <2>4, <2>5, <2>6 DEF HadoopTypeOK, scriptVars, tableVars
  <2>3. CASE \E r \in Runs : B(r)
    BY <1>1, <2>3 DEF HadoopTypeOK, ClientReturns, VerifyTable, TaskFails, Task,
                landVars, scriptVars, tableVars
  <2> QED  BY <2>1, <2>3, <2>6
<1>3. HadoopTypeOK'
  <2>1. dag' \in [Runs -> Tasks]
    BY <1>1, <1>2 DEF HadoopTypeOK
  <2>2. script' \in [Runs -> {"none", "begun", "dropping", "found", "writing", "written",
                               "registered", "ok", "errors", "lost"}]
    BY <1>1, <1>2 DEF HadoopTypeOK
  <2>3. drop' \in [Runs -> BOOLEAN]
    BY <1>1, <1>2 DEF HadoopTypeOK
  <2> QED  BY <1>1, <1>2, <2>1, <2>2, <2>3 DEF HadoopTypeOK
<1>4. /\ \A r \in Runs : dag'[r] \in {"none", "land", "put"} => dag'[r] = dag[r]
      /\ \A r \in Runs : script'[r] = script[r] \/ script'[r] = "begun"
  BY <1>1, <1>2 DEF HadoopTypeOK
<1> QED  BY <1>2, <1>3, <1>4, QuietStepKeeps

(* A script that ends without success promises nothing any more.           *)
LEMMA EndingsKeep ==
  ASSUME OrdersInv, NEW r \in Runs, NoFiles(r) \/ Caught(r) \/ ScriptLost(r)
  PROVE  OrdersInv'
<1>1. /\ listed' = [listed EXCEPT ![r] = {}] /\ rows' = [rows EXCEPT ![r] = {}]
      /\ base' = [base EXCEPT ![r] = [g \in Regions |-> Nobody]]
      /\ promised' \in {promised, [promised EXCEPT ![r] = {}]}
      /\ \E s \in {"errors", "lost"} : script' = [script EXCEPT ![r] = s]
  BY DEF NoFiles, Caught, ScriptLost, Forget, Script
<1>2. registered \subseteq registered' /\ registered' \subseteq Regions
  <2>1. CASE registered' = registered
    BY <2>1 DEF OrdersInv, HadoopTypeOK
  <2>2. CASE registered' = registered \cup {batch[q].region : q \in rows[r]}
    BY <2>2 DEF OrdersInv, HadoopTypeOK
  <2> QED  BY <2>1, <2>2 DEF NoFiles, Caught, ScriptLost, tableVars
<1>3. /\ UNCHANGED <<second, schema, dag, batch, csv, files, whole, drop, orders, crossed>>
      /\ ack' \in {FALSE, ack}
  BY DEF NoFiles, Caught, ScriptLost, Forget, dagVars, landVars, tableVars
<1>4. HadoopTypeOK'
  BY <1>1, <1>2, <1>3 DEF OrdersInv, HadoopTypeOK
<1>5. \A q \in Runs :
        \/ UNCHANGED <<script[q], listed[q], promised[q], rows[q], base[q]>>
        \/ /\ script'[q] \in {"begun", "errors", "lost"}
           /\ promised'[q] \subseteq promised[q] /\ rows'[q] \subseteq rows[q]
           /\ base'[q] = base[q] \/ \A g \in Regions : base'[q][g] = Nobody
  BY <1>1 DEF OrdersInv, HadoopTypeOK
<1> QED  BY <1>2, <1>3, <1>4, <1>5, QuietStepKeeps

(* A batch that is generated is promised, read and written nowhere yet.    *)
LEMMA GenerateKeeps ==
  ASSUME OrdersInv, NEW r \in Runs, Generate(r)
  PROVE  OrdersInv'
<1>1. /\ HadoopTypeOK /\ dag[r] = "none" /\ dag' = [dag EXCEPT ![r] = "land"]
      /\ UNCHANGED <<csv, landVars, scriptVars, tableVars>>
  BY DEF OrdersInv, Generate, IsNext, Unused
<1>2. PICK g \in Regions : batch' = [batch EXCEPT ![r] = [region |-> g, stamp |-> second]]
  BY DEF Generate
<1>3. HadoopTypeOK'
  <2>1. batch' \in [Runs -> [region : Regions, stamp : 0..MaxClock]]
    <3>1. [region |-> g, stamp |-> second] \in [region : Regions, stamp : 0..MaxClock]
      BY <1>1, HadoopAssumption DEF HadoopAssumption, HadoopTypeOK
    <3> QED  BY <1>1, <1>2, <3>1 DEF HadoopTypeOK
  <2> QED  BY <1>1, <2>1 DEF Generate, HadoopTypeOK, landVars, scriptVars, tableVars
<1>4. \A q \in Runs : dag[q] # "none" => dag'[q] = dag[q] /\ batch'[q] = batch[q]
  BY <1>1, <1>2 DEF HadoopTypeOK
<1>5. FilesAreTheirRuns'
  BY <1>1, <1>4 DEF OrdersInv, FilesAreTheirRuns, HadoopTypeOK, landVars
<1>6. BatchesAreGenerated'
  BY <1>1, <1>4 DEF OrdersInv, BatchesAreGenerated, Generated, HadoopTypeOK, scriptVars, tableVars
<1>7. PromisesAreCarried'
  BY <1>1, <1>4 DEF OrdersInv, PromisesAreCarried, BatchesAreGenerated, Lies,
                    landVars, scriptVars, tableVars
<1>8. WritesMeet'
  BY <1>1 DEF OrdersInv, WritesMeet, scriptVars, tableVars
<1>9. CommittedStays'
  <2>1. ASSUME NEW t \in [Regions -> Runs \cup {Nobody}], \A k \in Regions : Generated(t[k]),
               NEW p \in Runs, Keeps(t, p)
        PROVE  \A q \in promised[p] : Lies(q) =>
                 LET k == batch'[q].region
                 IN t[k] # Nobody /\ batch'[t[k]].stamp >= batch'[q].stamp
    <3> SUFFICES ASSUME NEW q \in promised[p], Lies(q)
                 PROVE  LET k == batch'[q].region
                        IN t[k] # Nobody /\ batch'[t[k]].stamp >= batch'[q].stamp
      OBVIOUS
    <3>1. q \in Runs /\ batch'[q] = batch[q] /\ batch[q].region \in Regions
      BY <1>1, <1>4 DEF OrdersInv, BatchesAreGenerated, HadoopTypeOK
    <3>2. Covers(t, q)
      BY <2>1 DEF Keeps
    <3>3. t[batch[q].region] \in Runs /\ batch'[t[batch[q].region]] = batch[t[batch[q].region]]
      BY <1>4, <2>1, <3>1, <3>2 DEF Covers, Generated
    <3> QED  BY <3>1, <3>2, <3>3 DEF Covers
  <2>2. /\ orders \in [Regions -> Runs \cup {Nobody}] /\ \A k \in Regions : Generated(orders[k])
        /\ \A p \in Runs : base[p] \in [Regions -> Runs \cup {Nobody}]
                           /\ \A k \in Regions : Generated(base[p][k])
    BY <1>1 DEF OrdersInv, BatchesAreGenerated, HadoopTypeOK
  <2>3. \A p \in Runs \ crossed : script[p] \in {"written", "registered", "ok"} =>
          /\ Keeps(orders, p)
          /\ \A w \in Runs : script[w] = "writing" => Keeps(base[w], p)
    BY DEF OrdersInv, CommittedStays
  <2>4. /\ \A p \in Runs : Keeps(orders, p) => Keeps(orders, p)'
        /\ \A p, w \in Runs : Keeps(base[w], p) => Keeps(base[w], p)'
    BY <1>1, <2>1, <2>2 DEF Keeps, Covers, Lies, landVars, scriptVars, tableVars
  <2> QED  BY <1>1, <2>3, <2>4 DEF CommittedStays, scriptVars, tableVars
<1> QED  BY <1>3, <1>5, <1>6, <1>7, <1>8, <1>9 DEF OrdersInv

(* A run puts its file once, before anybody is promised it; the file it    *)
(* overwrites is owed to nobody any more.                                  *)
LEMMA PutCsvKeeps ==
  ASSUME OrdersInv, NEW r \in Runs, OpenCsv(r) \/ CloseCsv(r)
  PROVE  OrdersInv'
<1>1. /\ HadoopTypeOK /\ UNCHANGED <<second, schema, ack, batch, scriptVars, tableVars>>
  BY DEF OrdersInv, OpenCsv, CloseCsv
<1>2. \/ /\ dag[r] = "land" /\ dag' = [dag EXCEPT ![r] = "put"]
         /\ csv' = [csv EXCEPT ![r] = second] /\ files' = [files EXCEPT ![second] = r]
         /\ whole' = whole \ {second}
      \/ /\ dag[r] = "put" /\ dag' = [dag EXCEPT ![r] = "ack"] /\ files[csv[r]] = r
         /\ csv' = csv /\ files' = files /\ whole' = whole \cup {csv[r]}
  BY DEF OpenCsv, CloseCsv, Task
<1>3. HadoopTypeOK'
  <2>1. /\ files' \in [1..MaxClock -> Runs \cup {Nobody}] /\ whole' \subseteq 1..MaxClock
        /\ csv' \in [Runs -> 1..MaxClock]
    <3>1. second \in 1..MaxClock /\ r \in Runs /\ csv[r] \in 1..MaxClock
      BY <1>1 DEF HadoopTypeOK
    <3>2. CASE OpenCsv(r)
      BY <1>1, <3>1, <3>2 DEF OpenCsv, HadoopTypeOK
    <3>3. CASE CloseCsv(r)
      BY <1>1, <3>1, <3>3 DEF CloseCsv, HadoopTypeOK
    <3> QED  BY <3>2, <3>3
  <2>2. dag' \in [Runs -> {"none", "land", "put", "ack", "submit", "spark", "verify", "success",
                           "failed"}]
    BY <1>1, <1>2 DEF HadoopTypeOK
  <2> QED  BY <1>1, <2>1, <2>2 DEF HadoopTypeOK, scriptVars, tableVars
<1>4. \A q \in Runs \ {r} : dag'[q] = dag[q] /\ csv'[q] = csv[q]
  BY <1>1, <1>2 DEF HadoopTypeOK
<1>5. dag'[r] \notin {"none", "land"} /\ dag[r] \in {"land", "put"}
  BY <1>1, <1>2 DEF HadoopTypeOK
<1>6. FilesAreTheirRuns'
  <2>1. r # Nobody
    BY DEF Runs, Nobody
  <2>2. CASE OpenCsv(r)
    <3>1. dag[r] = "land" /\ csv'[r] = second /\ files'[second] = r /\ second \notin whole'
      BY <1>1, <2>2 DEF OpenCsv, Task, HadoopTypeOK
    <3>2. ASSUME NEW n \in 1..MaxClock \ {second}, files[n] # Nobody
          PROVE  files'[n] = files[n] /\ files[n] \in Runs \ {r} /\ (n \in whole' => n \in whole)
      BY <1>1, <2>2, <3>1, <3>2 DEF OrdersInv, FilesAreTheirRuns, OpenCsv, HadoopTypeOK
    <3>3. ASSUME NEW n \in 1..MaxClock \ {second}, files[n] = Nobody
          PROVE  files'[n] = Nobody /\ n \notin whole'
      BY <1>1, <2>2, <3>3 DEF OrdersInv, FilesAreTheirRuns, OpenCsv, HadoopTypeOK
    <3>4. ASSUME NEW n \in 1..MaxClock
          PROVE  /\ files'[n] # Nobody =>
                      csv'[files'[n]] = n /\ dag'[files'[n]] \notin {"none", "land"}
                 /\ n \in whole' => files'[n] # Nobody /\ dag'[files'[n]] # "put"
      <4>1. CASE n = second
        BY <1>5, <2>1, <3>1, <4>1
      <4>2. CASE n # second /\ files[n] = Nobody
        BY <3>3, <4>2
      <4>3. CASE n # second /\ files[n] # Nobody
        <5>1. files'[n] = files[n] /\ files[n] \in Runs \ {r} /\ (n \in whole' => n \in whole)
          BY <3>2, <4>3
        <5>2. dag'[files[n]] = dag[files[n]] /\ csv'[files[n]] = csv[files[n]]
          BY <1>4, <5>1
        <5>3. /\ csv[files[n]] = n /\ dag[files[n]] \notin {"none", "land"}
              /\ n \in whole => dag[files[n]] # "put"
          BY <4>3 DEF OrdersInv, FilesAreTheirRuns
        <5> QED  BY <4>3, <5>1, <5>2, <5>3
      <4> QED  BY <4>1, <4>2, <4>3
    <3> QED  BY <3>4 DEF FilesAreTheirRuns
  <2>3. CASE CloseCsv(r)
    <3>1. /\ dag'[r] = "ack" /\ files[csv[r]] = r
          /\ files' = files /\ csv' = csv /\ whole' = whole \cup {csv[r]}
      BY <1>1, <2>3 DEF CloseCsv, Task, HadoopTypeOK
    <3>2. ASSUME NEW n \in 1..MaxClock
          PROVE  /\ files[n] # Nobody => csv[files[n]] = n /\ dag'[files[n]] \notin {"none", "land"}
                 /\ n \in whole' => files[n] # Nobody /\ dag'[files[n]] # "put"
      <4>1. /\ files[n] # Nobody => csv[files[n]] = n /\ dag[files[n]] \notin {"none", "land"}
            /\ n \in whole => files[n] # Nobody /\ dag[files[n]] # "put"
        BY DEF OrdersInv, FilesAreTheirRuns
      <4>2. files[n] \in Runs \cup {Nobody}
        BY <1>1 DEF HadoopTypeOK
      <4>3. CASE files[n] = r
        BY <2>1, <3>1, <4>1, <4>3
      <4>4. CASE files[n] = Nobody
        BY <2>1, <3>1, <4>1, <4>4
      <4>5. CASE files[n] \in Runs \ {r}
        <5>1. dag'[files[n]] = dag[files[n]]
          BY <1>4, <4>5
        <5>2. n \in whole' => n \in whole
          BY <3>1, <4>5
        <5>3. files[n] # Nobody
          BY <4>5 DEF Runs, Nobody
        <5> QED  BY <4>1, <5>1, <5>2, <5>3
      <4> QED  BY <4>2, <4>3, <4>4, <4>5
    <3> QED  BY <3>1, <3>2 DEF FilesAreTheirRuns
  <2> QED  BY <2>2, <2>3
<1>7. \A p \in Runs : \A q \in promised[p] : q \in Runs \ {r}
  BY <1>5 DEF OrdersInv, BatchesAreGenerated
<1>8. ASSUME NEW q \in Runs \ {r}, Lies(q)'
      PROVE  Lies(q)
  BY <1>1, <1>2, <1>8 DEF Lies, HadoopTypeOK
<1>9. BatchesAreGenerated'
  BY <1>1, <1>4, <1>5, <1>7 DEF OrdersInv, BatchesAreGenerated, Generated, HadoopTypeOK,
                                  scriptVars, tableVars
<1>10. PromisesAreCarried'
  BY <1>1, <1>4, <1>7, <1>8 DEF OrdersInv, PromisesAreCarried, scriptVars, tableVars
<1>11. WritesMeet' /\ CommittedStays'
  BY <1>1, <1>7, <1>8 DEF OrdersInv, WritesMeet, CommittedStays, Keeps, Covers,
                             scriptVars, tableVars
<1> QED  BY <1>3, <1>6, <1>9, <1>10, <1>11 DEF OrdersInv

(* What lies whole when the directory is listed is on the list.            *)
LEMMA FetchFilesKeeps ==
  ASSUME OrdersInv, NEW r \in Runs, FetchFiles(r)
  PROVE  OrdersInv'
<1>1. /\ HadoopTypeOK
      /\ UNCHANGED <<second, schema, ack, dagVars, landVars, drop, rows, base, tableVars>>
  BY DEF OrdersInv, FetchFiles
<1>2. CASE schema = "acked" /\ ack
  <2>1. /\ \E s \in {"dropping", "found"} : script' = [script EXCEPT ![r] = s]
        /\ listed' = [listed EXCEPT ![r] = {n \in 1..MaxClock : files[n] # Nobody}]
        /\ promised' = [promised EXCEPT ![r] = {files[n] : n \in whole}]
    BY <1>2 DEF FetchFiles, Script
  <2>2. {files[n] : n \in whole} \subseteq Runs
    BY <1>1 DEF OrdersInv, FilesAreTheirRuns, HadoopTypeOK
  <2>3. HadoopTypeOK'
    BY <1>1, <2>1, <2>2 DEF HadoopTypeOK, dagVars, landVars, tableVars
  <2>4. \A n \in whole : /\ files[n] \in Runs /\ csv[files[n]] = n
                         /\ dag[files[n]] \notin {"none", "land", "put"}
    BY <1>1 DEF OrdersInv, FilesAreTheirRuns, HadoopTypeOK
  <2>5. BatchesAreGenerated'
    BY <1>1, <2>1, <2>4 DEF OrdersInv, BatchesAreGenerated, Generated, HadoopTypeOK,
                                   dagVars, tableVars
  <2>6. PromisesAreCarried'
    <3>1. ASSUME NEW q \in promised'[r], Lies(q)
          PROVE  csv[q] \in listed'[r]
      BY <1>1, <2>1, <2>4, <3>1 DEF Lies, HadoopTypeOK, Nobody, Runs
    <3>2. /\ script'[r] \in {"dropping", "found"}
          /\ UNCHANGED <<files, whole, csv, batch, rows, registered>>
      BY <1>1, <2>1 DEF HadoopTypeOK, dagVars, landVars, tableVars
    <3>3. \A p \in Runs \ {r} : UNCHANGED <<script[p], listed[p], promised[p]>>
      BY <1>1, <2>1 DEF HadoopTypeOK
    <3> QED  BY <3>1, <3>2, <3>3 DEF OrdersInv, PromisesAreCarried, Lies
  <2>7. FilesAreTheirRuns' /\ WritesMeet'
    BY <1>1, <2>1 DEF OrdersInv, FilesAreTheirRuns, WritesMeet, HadoopTypeOK,
                        dagVars, landVars, tableVars
  <2>8. CommittedStays'
    <3>1. script'[r] \in {"dropping", "found"}
      BY <1>1, <2>1 DEF HadoopTypeOK
    <3>2. \A p \in Runs \ {r} : UNCHANGED <<script[p], promised[p]>>
      BY <1>1, <2>1 DEF HadoopTypeOK
    <3>3. UNCHANGED <<files, whole, batch, base, orders, crossed>>
      BY <1>1 DEF dagVars, landVars, tableVars
    <3> QED  BY <3>1, <3>2, <3>3 DEF OrdersInv, CommittedStays, Keeps, Covers, Lies
  <2> QED  BY <2>3, <2>5, <2>6, <2>7, <2>8 DEF OrdersInv
<1>3. CASE ~(schema = "acked" /\ ack)
  <2>1. /\ \E o \in {"ok", "errors"} : script' = [script EXCEPT ![r] = o]
        /\ promised' = [promised EXCEPT ![r] = {}] /\ UNCHANGED listed
    BY <1>3 DEF FetchFiles, Script
  <2>2. HadoopTypeOK'
    BY <1>1, <2>1 DEF HadoopTypeOK, dagVars, landVars, tableVars
  <2>3. /\ script'[r] \in {"ok", "errors"} /\ promised'[r] = {}
        /\ UNCHANGED <<listed[r], rows[r], base[r]>>
    BY <1>1, <2>1 DEF HadoopTypeOK
  <2>4. \A q \in Runs \ {r} : UNCHANGED <<script[q], listed[q], promised[q], rows[q], base[q]>>
    BY <1>1, <2>1 DEF HadoopTypeOK
  <2> QED  BY <1>1, <2>2, <2>3, <2>4, QuietStepKeeps DEF dagVars, landVars, tableVars
<1> QED  BY <1>2, <1>3

(* Whoever is writing, or has written, is told that the table was dropped. *)
LEMMA DropTableKeeps ==
  ASSUME OrdersInv, NEW r \in Runs, DropTable(r)
  PROVE  OrdersInv'
<1>1. /\ HadoopTypeOK /\ script[r] = "dropping" /\ script' = [script EXCEPT ![r] = "found"]
      /\ orders' = [g \in Regions |-> Nobody]
      /\ crossed' = crossed \cup
           {q \in Runs \ {r} : script[q] \in {"writing", "written", "registered", "ok"}}
      /\ UNCHANGED <<second, schema, ack, dagVars, landVars, drop, listed, promised, rows, base,
                     registered>>
  BY DEF OrdersInv, DropTable, Script
<1>2. HadoopTypeOK'
  BY <1>1 DEF HadoopTypeOK, dagVars, landVars
<1>3. FilesAreTheirRuns' /\ BatchesAreGenerated'
  BY <1>1 DEF OrdersInv, FilesAreTheirRuns, BatchesAreGenerated, Generated, dagVars, landVars
<1>4. PromisesAreCarried'
  BY <1>1 DEF OrdersInv, PromisesAreCarried, Lies, HadoopTypeOK, dagVars, landVars
<1>5. WritesMeet'
  BY <1>1 DEF OrdersInv, WritesMeet, HadoopTypeOK
<1>6. CommittedStays'
  BY <1>1 DEF CommittedStays, HadoopTypeOK
<1> QED  BY <1>2, <1>3, <1>4, <1>5, <1>6 DEF OrdersInv

(* A write starts from the table as it is, with all it was promised.       *)
LEMMA StartWriteKeeps ==
  ASSUME OrdersInv, NEW r \in Runs, StartWrite(r)
  PROVE  OrdersInv'
<1> DEFINE beside == {q \in Runs : script[q] = "writing"}
<1>1. /\ HadoopTypeOK /\ script[r] = "found" /\ script' = [script EXCEPT ![r] = "writing"]
      /\ rows' = [rows EXCEPT ![r] = {files[n] : n \in listed[r] \cap whole}]
      /\ base' = [base EXCEPT ![r] = orders]
      /\ crossed' = IF beside = {} THEN crossed ELSE crossed \cup beside \cup {r}
      /\ UNCHANGED <<second, schema, ack, dagVars, landVars, drop, listed, promised, orders,
                     registered>>
  BY DEF OrdersInv, StartWrite, Script
<1>2. \A n \in whole : /\ files[n] \in Runs /\ csv[files[n]] = n
                       /\ dag[files[n]] \notin {"none", "land", "put"}
  BY <1>1 DEF OrdersInv, FilesAreTheirRuns, HadoopTypeOK
<1>3. HadoopTypeOK'
  <2>1. rows' \in [Runs -> SUBSET Runs]
    BY <1>1, <1>2 DEF HadoopTypeOK
  <2>2. base' \in [Runs -> [Regions -> Runs \cup {Nobody}]] /\ crossed' \subseteq Runs
    BY <1>1 DEF HadoopTypeOK
  <2> QED  BY <1>1, <2>1, <2>2 DEF HadoopTypeOK, dagVars, landVars
<1>4. FilesAreTheirRuns'
  BY <1>1 DEF OrdersInv, FilesAreTheirRuns, dagVars, landVars
<1>5. BatchesAreGenerated'
  BY <1>1, <1>2 DEF OrdersInv, BatchesAreGenerated, Generated, HadoopTypeOK, dagVars
<1>6. PromisesAreCarried'
  <2>1. ASSUME NEW q \in promised[r], Lies(q)
        PROVE  q \in rows'[r]
    <3>1. csv[q] \in listed[r]
      BY <1>1, <2>1 DEF OrdersInv, PromisesAreCarried
    <3>2. PICK n \in whole : files[n] = q
      BY <2>1 DEF Lies
    <3>3. n = csv[q]
      BY <1>2, <3>2
    <3> QED  BY <1>1, <3>1, <3>2, <3>3 DEF HadoopTypeOK
  <2> QED  BY <1>1, <2>1 DEF OrdersInv, PromisesAreCarried, Lies, HadoopTypeOK, dagVars, landVars
<1>7. WritesMeet'
  BY <1>1 DEF OrdersInv, WritesMeet, HadoopTypeOK
<1>8. CommittedStays'
  <2>1. crossed \subseteq crossed' /\ base'[r] = orders /\ \A p \in Runs \ {r} : base'[p] = base[p]
    BY <1>1 DEF HadoopTypeOK
  <2>2. script'[r] = "writing" /\ \A p \in Runs \ {r} : script'[p] = script[p]
    BY <1>1 DEF HadoopTypeOK
  <2>3. UNCHANGED <<files, whole, batch, promised, orders>>
    BY <1>1 DEF dagVars, landVars
  <2> QED  BY <2>1, <2>2, <2>3 DEF OrdersInv, CommittedStays, Keeps, Covers, Lies
<1> QED  BY <1>3, <1>4, <1>5, <1>6, <1>7, <1>8 DEF OrdersInv

(* An upsert never takes a region back to an older order.                  *)
LEMMA UpsertIsNoStepBack ==
  ASSUME HadoopTypeOK, NEW t \in [Regions -> Runs \cup {Nobody}], NEW in \in SUBSET Runs,
         NEW u \in Upserted(t, in)
  PROVE  /\ u \in [Regions -> Runs \cup {Nobody}]
         /\ \A g \in Regions : u[g] = t[g] \/ u[g] \in in
         /\ \A g \in Regions : t[g] # Nobody =>
              u[g] # Nobody /\ batch[u[g]].stamp >= batch[t[g]].stamp
<1>1. \A p \in Runs : batch[p].stamp \in Nat /\ p # Nobody
  BY HadoopAssumption DEF HadoopAssumption, HadoopTypeOK, Runs, Nobody
<1>2. \A g \in Regions : u[g] = t[g] \/ (u[g] \in in /\ u[g] \in Upsert(t, in, g))
  BY DEF Upserted, Upsert
<1>3. u \in [Regions -> Runs \cup {Nobody}]
  BY DEF Upserted
<1>4. ASSUME NEW g \in Regions, t[g] # Nobody
      PROVE  u[g] # Nobody /\ batch[u[g]].stamp >= batch[t[g]].stamp
  <2>1. t[g] \in Runs
    BY <1>4
  <2> QED  BY <1>1, <1>2, <1>4, <2>1 DEF Upsert
<1> QED  BY <1>2, <1>3, <1>4

(* An upsert leaves, of what it brings in, nothing out but for a newer one.*)
LEMMA UpsertCovers ==
  ASSUME HadoopTypeOK, NEW t \in [Regions -> Runs \cup {Nobody}], NEW in \in SUBSET Runs,
         NEW u \in Upserted(t, in), NEW q \in in
  PROVE  Covers(u, q)
<1> DEFINE g == batch[q].region
           Stamps == {batch[p].stamp : p \in {p \in in : batch[p].region = g}}
<1>1. /\ MaxClock \in Nat
      /\ \A p \in Runs : batch[p].stamp \in 0..MaxClock /\ batch[p].region \in Regions /\ p # Nobody
  BY HadoopAssumption DEF HadoopAssumption, HadoopTypeOK, Runs, Nobody
<1>2. batch[q].stamp \in Stamps /\ Stamps \subseteq 0..MaxClock
  BY <1>1
<1>3. PICK s \in Stamps : \A z \in Stamps : z <= s
  <2> HIDE DEF Stamps
  <2> QED  BY <1>1, <1>2, GreatestOf
<1>4. PICK m \in in : batch[m].region = g /\ batch[m].stamp = s
  OBVIOUS
<1>5. \A p \in in : batch[p].region = g => batch[p].stamp <= batch[m].stamp
  BY <1>3, <1>4
<1>6. g \in Regions
  BY <1>1
<1>7. CASE Upsert(t, in, g) # {}
  <2>1. u[g] \in Upsert(t, in, g)
    BY <1>6, <1>7 DEF Upserted
  <2> QED  BY <1>1, <2>1 DEF Upsert, Covers
<1>8. CASE Upsert(t, in, g) = {}
  <2>1. u[g] = t[g]
    BY <1>6, <1>8 DEF Upserted
  <2>2. t[g] # Nobody /\ ~(batch[t[g]].stamp <= batch[m].stamp)
    BY <1>4, <1>5, <1>8 DEF Upsert
  <2>3. t[g] \in Runs
    BY <1>6, <2>2
  <2> QED  BY <1>1, <1>4, <1>5, <2>1, <2>2, <2>3 DEF Covers
<1> QED  BY <1>7, <1>8

(* A write that met no other one commits to the table it started from; one *)
(* that did may undo what others did, but only what met it, too.           *)
LEMMA CommitWriteKeeps ==
  ASSUME OrdersInv, NEW r \in Runs, CommitWrite(r)
  PROVE  OrdersInv'
<1>1. /\ HadoopTypeOK /\ script[r] = "writing" /\ script' = [script EXCEPT ![r] = "written"]
      /\ UNCHANGED <<second, schema, ack, dagVars, landVars, drop, listed, promised, rows, base,
                     registered, crossed>>
  BY DEF OrdersInv, CommitWrite, Script
<1>2. PICK t \in {orders} \cup (IF r \in crossed THEN {base[r]} ELSE {}) :
        orders' \in Upserted(t, rows[r])
  BY DEF CommitWrite
<1>3. /\ t \in [Regions -> Runs \cup {Nobody}] /\ rows[r] \in SUBSET Runs
      /\ \A g \in Regions : Generated(t[g])
  BY <1>1, <1>2 DEF OrdersInv, BatchesAreGenerated, HadoopTypeOK
<1>4. /\ orders' \in [Regions -> Runs \cup {Nobody}]
      /\ \A g \in Regions : orders'[g] = t[g] \/ orders'[g] \in rows[r]
      /\ \A g \in Regions : t[g] # Nobody =>
           orders'[g] # Nobody /\ batch[orders'[g]].stamp >= batch[t[g]].stamp
  BY <1>1, <1>2, <1>3, UpsertIsNoStepBack
<1>5. HadoopTypeOK'
  BY <1>1, <1>4 DEF HadoopTypeOK, dagVars, landVars
<1>6. FilesAreTheirRuns'
  BY <1>1 DEF OrdersInv, FilesAreTheirRuns, dagVars, landVars
<1>7. BatchesAreGenerated'
  BY <1>1, <1>3, <1>4 DEF OrdersInv, BatchesAreGenerated, Generated, dagVars
<1>8. PromisesAreCarried' /\ WritesMeet'
  BY <1>1 DEF OrdersInv, PromisesAreCarried, WritesMeet, Lies, HadoopTypeOK, dagVars, landVars
<1>9. CommittedStays'
  <2> SUFFICES ASSUME NEW p \in Runs \ crossed, script'[p] \in {"written", "registered", "ok"}
               PROVE  /\ Keeps(orders', p)
                      /\ \A w \in Runs : script'[w] = "writing" => Keeps(base[w], p)
    BY <1>1 DEF CommittedStays, Keeps, Covers, Lies, dagVars, landVars
  <2>1. CASE p # r
    <3>1. Keeps(t, p)
      BY <1>1, <1>2, <2>1 DEF OrdersInv, CommittedStays, HadoopTypeOK
    <3>2. ASSUME NEW q \in promised[p], Lies(q)
          PROVE  Covers(orders', q)
      <4> DEFINE g == batch[q].region
      <4>1. t[g] # Nobody /\ batch[t[g]].stamp >= batch[q].stamp
        BY <3>1, <3>2 DEF Keeps, Covers
      <4>2. q \in Runs /\ g \in Regions
        BY <1>1 DEF OrdersInv, BatchesAreGenerated, HadoopTypeOK
      <4>3. t[g] \in Runs /\ orders'[g] \in Runs /\ batch[orders'[g]].stamp >= batch[t[g]].stamp
        BY <1>3, <1>4, <4>1, <4>2
      <4>4. \A z \in Runs : batch[z].stamp \in Nat
        BY <1>1, HadoopAssumption DEF HadoopAssumption, HadoopTypeOK
      <4> HIDE DEF g
      <4>5. orders'[g] # Nobody /\ batch[orders'[g]].stamp >= batch[q].stamp
        BY <1>4, <4>1, <4>2, <4>3, <4>4
      <4> QED  BY <4>5 DEF Covers, g
    <3>3. \A w \in Runs : script'[w] = "writing" => Keeps(base[w], p)
      BY <1>1, <2>1 DEF OrdersInv, CommittedStays, HadoopTypeOK
    <3> QED  BY <3>2, <3>3 DEF Keeps
  <2>2. CASE p = r
    <3>1. \A w \in Runs : script'[w] # "writing"
      BY <1>1, <2>2 DEF OrdersInv, WritesMeet, HadoopTypeOK
    <3>2. \A q \in promised[p] : Lies(q) => q \in rows[r]
      BY <1>1, <2>2 DEF OrdersInv, PromisesAreCarried
    <3>3. Keeps(orders', p)
      BY <1>1, <1>2, <1>3, <3>2, UpsertCovers DEF Keeps
    <3> QED  BY <3>1, <3>3
  <2> QED  BY <2>1, <2>2
<1> QED  BY <1>5, <1>6, <1>7, <1>8, <1>9 DEF OrdersInv

(* Once registered, the regions of what was written can be queried.        *)
LEMMA RegisterKeeps ==
  ASSUME OrdersInv, NEW r \in Runs, Register(r)
  PROVE  OrdersInv'
<1>1. /\ HadoopTypeOK /\ script[r] = "written" /\ script' = [script EXCEPT ![r] = "registered"]
      /\ registered' = registered \cup {batch[q].region : q \in rows[r]}
      /\ UNCHANGED <<second, schema, ack, dagVars, landVars, drop, listed, promised, rows, base,
                     orders, crossed>>
  BY DEF OrdersInv, Register, Script
<1>2. HadoopTypeOK'
  <2>1. registered' \subseteq Regions
    BY <1>1 DEF HadoopTypeOK
  <2> QED  BY <1>1, <2>1 DEF HadoopTypeOK, dagVars, landVars
<1>3. FilesAreTheirRuns' /\ BatchesAreGenerated'
  BY <1>1 DEF OrdersInv, FilesAreTheirRuns, BatchesAreGenerated, Generated, dagVars, landVars
<1>4. PromisesAreCarried'
  BY <1>1 DEF OrdersInv, PromisesAreCarried, Lies, HadoopTypeOK, dagVars, landVars
<1>5. WritesMeet' /\ CommittedStays'
  <2>1. /\ script[r] = "written" /\ script'[r] = "registered"
        /\ \A p \in Runs \ {r} : script'[p] = script[p]
    BY <1>1 DEF HadoopTypeOK
  <2>2. UNCHANGED <<files, whole, batch, promised, base, orders, crossed>>
    BY <1>1 DEF dagVars, landVars
  <2> QED  BY <2>1, <2>2 DEF OrdersInv, WritesMeet, CommittedStays, Keeps, Covers, Lies
<1> QED  BY <1>2, <1>3, <1>4, <1>5 DEF OrdersInv

(* Success takes from a script only what it had read.                      *)
LEMMA DeleteAckKeeps ==
  ASSUME OrdersInv, NEW r \in Runs, DeleteAck(r)
  PROVE  OrdersInv'
<1>1. /\ HadoopTypeOK /\ script[r] = "registered" /\ script' = [script EXCEPT ![r] = "ok"]
      /\ listed' = [listed EXCEPT ![r] = {}] /\ rows' = [rows EXCEPT ![r] = {}]
      /\ base' = [base EXCEPT ![r] = [g \in Regions |-> Nobody]]
      /\ ack' \in {FALSE, ack}
      /\ UNCHANGED <<second, schema, dagVars, landVars, drop, promised, tableVars>>
  BY DEF OrdersInv, DeleteAck, Forget, Script
<1>2. HadoopTypeOK'
  BY <1>1 DEF HadoopTypeOK, dagVars, landVars, tableVars
<1>3. FilesAreTheirRuns' /\ BatchesAreGenerated'
  BY <1>1 DEF OrdersInv, FilesAreTheirRuns, BatchesAreGenerated, Generated, HadoopTypeOK,
              dagVars, landVars, tableVars
<1>4. PromisesAreCarried'
  BY <1>1 DEF OrdersInv, PromisesAreCarried, Lies, HadoopTypeOK, dagVars, landVars, tableVars
<1>5. WritesMeet' /\ CommittedStays'
  <2>1. /\ script[r] = "registered" /\ script'[r] = "ok"
        /\ \A p \in Runs \ {r} : script'[p] = script[p] /\ base'[p] = base[p]
    BY <1>1 DEF HadoopTypeOK
  <2>2. UNCHANGED <<files, whole, batch, promised, orders, crossed>>
    BY <1>1 DEF dagVars, landVars, tableVars
  <2> QED  BY <2>1, <2>2 DEF OrdersInv, WritesMeet, CommittedStays, Keeps, Covers, Lies
<1> QED  BY <1>2, <1>3, <1>4, <1>5 DEF OrdersInv

(* Every step of the DAG runs and scripts keeps the invariant. *)
LEMMA OrdersNextKeeps == OrdersInv /\ [OrdersNext]_orderVars => OrdersInv'
<1> SUFFICES ASSUME OrdersInv, [OrdersNext]_orderVars
             PROVE  OrdersInv'
  OBVIOUS
<1>1. CASE UNCHANGED orderVars
  BY <1>1 DEF OrdersInv, HadoopTypeOK, FilesAreTheirRuns, BatchesAreGenerated, Generated,
              PromisesAreCarried, WritesMeet, CommittedStays, Keeps, Covers, Lies,
              orderVars, dagVars, landVars, scriptVars, tableVars
<1>2. CASE OrdersNext
  BY <1>2, TasksKeep, EndingsKeep, GenerateKeeps, PutCsvKeeps, FetchFilesKeeps, DropTableKeeps,
     StartWriteKeeps, CommitWriteKeeps, RegisterKeeps, DeleteAckKeeps
  DEF OrdersNext
<1> QED  BY <1>1, <1>2

(* A script that has said that all went well has loaded every batch it     *)
(* found whole, if the file is still there: it can be queried, and no      *)
(* later write that this one did not meet takes it back.                   *)
THEOREM OkLoadsStay == OrdersSpec => []OkIsLoaded
<1>1. OrdersInv => OkIsLoaded
  BY DEF OrdersInv, PromisesAreCarried, CommittedStays, Keeps, OkIsLoaded
<1> QED  BY <1>1, OrdersStart, OrdersNextKeeps, PTL DEF OrdersSpec

-----------------------------------------------------------------------------
(* The raw ingest pipeline of the Hadoop stack *)

(* Nothing is owed before the first load. *)
LEMMA RawStarts == RawInit => RawInv
<1> SUFFICES ASSUME RawInit PROVE RawInv
  OBVIOUS
<1> USE RawAssumption DEF RawAssumption
<1>1. NoVersions \in [Csvs -> 0..MaxVersion] /\ NoVersions \in [Csvs -> 0..MaxStages]
  BY DEF NoVersions
<1>2. RawTypeOK
  BY <1>1 DEF RawInit, RawTypeOK, Stages
<1>3. \A s \in Stages : stage[s] = "none" /\ inHand[s] = {} /\ owed[s] = NoVersions
  BY DEF RawInit
<1>4. OwedIsThere /\ OneInHand
  BY <1>3 DEF OwedIsThere, OneInHand, NoVersions
<1>5. CsvWritesMeet /\ LoadedStays
  BY <1>3 DEF CsvWritesMeet, LoadedStays, HasLoaded, Writers, Loading
<1> QED  BY <1>2, <1>4, <1>5 DEF RawInv

(* An ACK more. *)
LEMMA AcksStay ==
  ASSUME RawTypeOK, NEW t \in Tables
  PROVE  /\ [acks EXCEPT !.schema = @ \cup {t}] \in [schema : SUBSET Tables, parent : SUBSET Tables]
         /\ [acks EXCEPT !.parent = @ \cup {t}] \in [schema : SUBSET Tables, parent : SUBSET Tables]
<1>1. acks \in [schema : SUBSET Tables, parent : SUBSET Tables]
  BY DEF RawTypeOK
<1> QED  BY <1>1

(* Stage 1 as long as it overwrites nothing, production and whoever puts   *)
(* an ACK leave HDFS, the tables and the loads alone.                      *)
LEMMA AsideKeeps ==
  ASSUME RawInv, RawTypeOK', UNCHANGED <<hdfs, owed, loaded, metWrite>>, wholeCsvs \subseteq wholeCsvs',
         \A s \in Stages :
           \/ UNCHANGED <<stage[s], todo[s], inHand[s], edition[s], found[s]>>
           \/ /\ stage[s] \in {"none", "schemas", "csvs", "copying"}
              /\ stage'[s] \in {"schemas", "csvs", "copying", "over"}
              /\ inHand'[s] = {} \/ \E c \in Csvs : inHand'[s] = {c}
  PROVE  RawInv'
<1>1. OwedIsThere'
  BY DEF RawInv, OwedIsThere, Loading
<1>2. OneInHand'
  BY DEF RawInv, OneInHand, Loading
<1>3. \A c \in Csvs : Writers(c)' = Writers(c)
  BY DEF Writers, Loading
<1>4. \A s \in Stages, c \in Csvs : HasLoaded(s, c)' => HasLoaded(s, c)
  BY DEF HasLoaded
<1>5. \A c \in Csvs : \A q \in Writers(c) : UNCHANGED <<inHand[q], edition[q], found[q]>>
  BY DEF Writers, Loading
<1>6. CsvWritesMeet'
  BY <1>3 DEF RawInv, CsvWritesMeet
<1>7. LoadedStays'
  BY <1>3, <1>4, <1>5 DEF RawInv, LoadedStays
<1> QED  BY <1>1, <1>2, <1>6, <1>7 DEF RawInv

LEMMA LandingKeeps ==
  ASSUME RawInv,
         \/ \E c \in Csvs : NewVersion(c)
         \/ \E t \in Tables : PutParentAck(t)
  PROVE  RawInv'
<1> USE RawAssumption DEF RawAssumption
<1>1. RawTypeOK'
  <2>1. CASE \E c \in Csvs : NewVersion(c)
    <3>1. s3' \in [Csvs -> 1..MaxVersion]
      BY <2>1 DEF RawInv, RawTypeOK, NewVersion
    <3> QED  BY <2>1, <3>1 DEF RawInv, RawTypeOK, NewVersion, fileVars, workVars, hudiVars
  <2>2. CASE \E t \in Tables : PutParentAck(t)
    <3>1. acks' \in [schema : SUBSET Tables, parent : SUBSET Tables]
      BY <2>2, AcksStay DEF RawInv, PutParentAck
    <3> QED  BY <2>2, <3>1 DEF RawInv, RawTypeOK, PutParentAck, fileVars, workVars, hudiVars
  <2> QED  BY <2>1, <2>2
<1> QED  BY <1>1, AsideKeeps DEF NewVersion, PutParentAck, fileVars, workVars, hudiVars

LEMMA PushKeeps ==
  ASSUME RawInv, NEW s \in Stages,
         \/ BeginPush(s) \/ EndPush(s)
         \/ \E t \in Tables : PushSchema(s, t)
         \/ \E c \in Csvs : GetCsv(s, c) \/ PushEnds(s, c)
  PROVE  RawInv'
<1> USE RawAssumption DEF RawAssumption
<1>0. RawTypeOK /\ NoVersions \in [Csvs -> 0..MaxVersion]
  BY DEF RawInv, NoVersions
<1>1. CASE BeginPush(s)
  <2>1. RawTypeOK'
    BY <1>0, <1>1 DEF RawTypeOK, BeginPush, fileVars, hudiVars
  <2>2. stage[s] = "none" /\ stage'[s] = "schemas" /\ inHand'[s] = {}
    BY <1>0, <1>1 DEF RawInv, RawTypeOK, OneInHand, BeginPush, NextStage, Stages
  <2>3. \A q \in Stages \ {s} : UNCHANGED <<stage[q], todo[q], inHand[q], edition[q], found[q]>>
    BY <1>0, <1>1 DEF RawTypeOK, BeginPush, hudiVars
  <2> QED  BY <1>1, <2>1, <2>2, <2>3, AsideKeeps DEF BeginPush, fileVars, hudiVars
<1>2. CASE EndPush(s)
  <2>1. RawTypeOK'
    BY <1>0, <1>2 DEF RawTypeOK, EndPush, PutDown, fileVars
  <2>2. stage[s] \in {"schemas", "csvs", "copying"} /\ stage'[s] = "over" /\ inHand'[s] = {}
    BY <1>0, <1>2 DEF RawTypeOK, EndPush, PutDown
  <2>3. \A q \in Stages \ {s} : UNCHANGED <<stage[q], todo[q], inHand[q], edition[q], found[q]>>
    BY <1>0, <1>2 DEF RawTypeOK, EndPush, PutDown
  <2> QED  BY <1>2, <2>1, <2>2, <2>3, AsideKeeps DEF EndPush, fileVars
<1>3. ASSUME NEW t \in Tables, PushSchema(s, t)
      PROVE  RawInv'
  <2>1. RawTypeOK'
    <3>1. acks' \in [schema : SUBSET Tables, parent : SUBSET Tables]
      <4>1. acks \in [schema : SUBSET Tables, parent : SUBSET Tables]
        BY <1>0 DEF RawTypeOK
      <4> QED  BY <1>0, <1>3, <4>1, AcksStay DEF PushSchema
    <3>2. todo' \in [Stages -> SUBSET (Tables \cup Csvs)]
      <4>1. todo[s] \subseteq Tables \cup Csvs /\ todo \in [Stages -> SUBSET (Tables \cup Csvs)]
        BY <1>0 DEF RawTypeOK
      <4>2. \/ todo' = [todo EXCEPT ![s] = Csvs]
            \/ todo' = [todo EXCEPT ![s] = todo[s] \ {t}]
        BY <1>3 DEF PushSchema
      <4> QED  BY <4>1, <4>2
    <3> QED  BY <1>0, <1>3, <3>1, <3>2 DEF RawTypeOK, PushSchema, fileVars, hudiVars
  <2>2. stage[s] = "schemas" /\ stage'[s] \in {"schemas", "csvs"} /\ inHand'[s] = inHand[s]
    BY <1>0, <1>3 DEF RawTypeOK, PushSchema
  <2>3. inHand[s] = {} \/ \E c \in Csvs : inHand[s] = {c}
    BY <1>0 DEF RawInv, RawTypeOK, OneInHand
  <2>4. \A q \in Stages \ {s} : UNCHANGED <<stage[q], todo[q], inHand[q], edition[q], found[q]>>
    BY <1>0, <1>3 DEF RawTypeOK, PushSchema, hudiVars
  <2> QED  BY <1>3, <2>1, <2>2, <2>3, <2>4, AsideKeeps DEF PushSchema, fileVars, hudiVars
<1>4. ASSUME NEW c \in Csvs, GetCsv(s, c)
      PROVE  RawInv'
  <2>1. RawTypeOK'
    BY <1>0, <1>4 DEF RawTypeOK, GetCsv, fileVars, hudiVars
  <2>2. stage[s] = "csvs" /\ stage'[s] = "csvs" /\ inHand'[s] = {c}
    BY <1>0, <1>4 DEF RawTypeOK, GetCsv
  <2>3. \A q \in Stages \ {s} : UNCHANGED <<stage[q], todo[q], inHand[q], edition[q], found[q]>>
    BY <1>0, <1>4 DEF RawTypeOK, GetCsv, hudiVars
  <2> QED  BY <1>4, <2>1, <2>2, <2>3, AsideKeeps DEF GetCsv, fileVars, hudiVars
<1>5. ASSUME NEW c \in Csvs, PushEnds(s, c)
      PROVE  RawInv'
  <2>1. RawTypeOK'
    BY <1>0, <1>5 DEF RawTypeOK, PushEnds, PutDown
  <2>2. stage[s] \in {"csvs", "copying"} /\ stage'[s] = "csvs" /\ inHand'[s] = {}
    BY <1>0, <1>5 DEF RawTypeOK, PushEnds, PutDown
  <2>3. \A q \in Stages \ {s} : UNCHANGED <<stage[q], todo[q], inHand[q], edition[q], found[q]>>
    BY <1>0, <1>5 DEF RawTypeOK, PushEnds, PutDown
  <2> QED  BY <1>5, <2>1, <2>2, <2>3, AsideKeeps DEF PushEnds
<1> QED  BY <1>1, <1>2, <1>3, <1>4, <1>5

(* What stage 1 overwrites is owed no more.                                *)
LEMMA OverwriteCsvKeeps ==
  ASSUME RawInv, NEW s \in Stages, NEW c \in Csvs, OverwriteCsv(s, c)
  PROVE  RawInv'
<1> USE RawAssumption DEF RawAssumption
<1>0. RawTypeOK
  BY DEF RawInv
<1>1. \A l \in Stages : owed'[l] \in [Csvs -> 0..MaxVersion]
  BY <1>0 DEF RawTypeOK, OverwriteCsv
<1>2. RawTypeOK'
  <2>1. owed' \in [Stages -> [Csvs -> 0..MaxVersion]]
    BY <1>1 DEF OverwriteCsv
  <2>2. opener' \in [Csvs -> 0..MaxStages] /\ hdfs' \in [Csvs -> 0..MaxVersion]
    BY <1>0 DEF RawTypeOK, OverwriteCsv, Stages
  <2> QED  BY <1>0, <2>1, <2>2 DEF RawTypeOK, OverwriteCsv, hudiVars
<1>3. \A l \in Stages, d \in Csvs : owed'[l][d] = IF d = c THEN 0 ELSE owed[l][d]
  BY <1>0 DEF RawTypeOK, OverwriteCsv
<1>4. \A d \in Csvs \ {c} : hdfs'[d] = hdfs[d] /\ (d \in wholeCsvs' <=> d \in wholeCsvs)
  BY <1>0 DEF RawTypeOK, OverwriteCsv
<1>5. /\ stage[s] = "csvs" /\ stage'[s] = "copying" /\ \A q \in Stages \ {s} : stage'[q] = stage[q]
      /\ UNCHANGED <<todo, inHand, edition, found, loaded, metWrite>>
  BY <1>0 DEF RawTypeOK, OverwriteCsv, hudiVars
<1>6. OwedIsThere'
  BY <1>3, <1>4, <1>5 DEF RawInv, OwedIsThere, Loading
<1>7. OneInHand'
  BY <1>5 DEF RawInv, OneInHand, Loading
<1>8. \A d \in Csvs : Writers(d)' = Writers(d)
  BY <1>5 DEF Writers, Loading
<1>9. CsvWritesMeet'
  BY <1>5, <1>8 DEF RawInv, CsvWritesMeet
<1>10. LoadedStays'
  <2> SUFFICES ASSUME NEW l \in Stages, NEW d \in Csvs, HasLoaded(l, d)'
               PROVE  /\ loaded'[d] >= owed'[l][d]
                      /\ \A q \in Writers(d)' :
                           /\ found'[q][d] >= owed'[l][d]
                           /\ d \in inHand'[q] => edition'[q] = 0 \/ edition'[q] >= owed'[l][d]
    BY DEF LoadedStays
  <2>1. HasLoaded(l, d)
    BY <1>5 DEF HasLoaded
  <2>2. CASE d # c
    BY <1>3, <1>5, <1>8, <2>1, <2>2 DEF RawInv, LoadedStays
  <2>3. CASE d = c
    <3>1. owed'[l][d] = 0 /\ loaded[d] \in Nat
      BY <1>0, <1>3, <2>3 DEF RawTypeOK
    <3>2. \A q \in Stages : found[q][d] \in Nat /\ edition[q] \in Nat
      BY <1>0 DEF RawTypeOK
    <3>3. \A q \in Writers(d)' : q \in Stages
      BY DEF Writers
    <3> QED  BY <1>5, <3>1, <3>2, <3>3
  <2> QED  BY <2>2, <2>3
<1> QED  BY <1>2, <1>6, <1>7, <1>9, <1>10 DEF RawInv

(* What is owed is what lies whole under an ACK, and all of it is listed.  *)
LEMMA BeginLoadKeeps ==
  ASSUME RawInv, NEW s \in Stages, BeginLoad(s)
  PROVE  RawInv'
<1> USE RawAssumption DEF RawAssumption
<1>0. RawTypeOK
  BY DEF RawInv
<1>1. stage[s] = "none" /\ inHand[s] = {} /\ UNCHANGED <<hdfs, wholeCsvs, inHand, edition, found, loaded, metWrite>>
  BY <1>0 DEF RawInv, OneInHand, BeginLoad, NextStage, Stages, fileVars, hudiVars
<1>2. \A q \in Stages \ {s} : UNCHANGED <<stage[q], todo[q], owed[q]>>
  BY <1>0 DEF RawTypeOK, BeginLoad
<1>3. \A c \in Csvs : owed[s][c] = 0
  BY <1>1 DEF RawInv, OwedIsThere
<1>4. \/ stage'[s] = "over" /\ owed'[s] = owed[s]
      \/ /\ stage'[s] = "loading"
         /\ \A c \in Csvs : owed'[s][c] = IF Ready(c) /\ c \in wholeCsvs THEN hdfs[c] ELSE 0
         /\ \A c \in Csvs : Ready(c) /\ hdfs[c] # 0 => c \in todo'[s]
  BY <1>0 DEF RawTypeOK, BeginLoad
<1>5. RawTypeOK'
  <2>1. [c \in Csvs |-> IF Ready(c) /\ c \in wholeCsvs THEN hdfs[c] ELSE 0] \in [Csvs -> 0..MaxVersion]
    BY <1>0 DEF RawTypeOK
  <2>2. acks.parent \cup {c \in Csvs : Ready(c) /\ hdfs[c] # 0} \subseteq Tables \cup Csvs
    BY <1>0 DEF RawTypeOK
  <2>3. owed' \in [Stages -> [Csvs -> 0..MaxVersion]]
    BY <1>0, <2>1 DEF RawTypeOK, BeginLoad
  <2>4. todo' \in [Stages -> SUBSET (Tables \cup Csvs)]
    <3>1. \E x \in SUBSET (Tables \cup Csvs) : todo' = [todo EXCEPT ![s] = x] \/ todo' = todo
      BY <2>2 DEF BeginLoad
    <3>2. todo \in [Stages -> SUBSET (Tables \cup Csvs)]
      BY <1>0 DEF RawTypeOK
    <3> QED  BY <3>1, <3>2
  <2> QED  BY <1>0, <2>3, <2>4 DEF RawTypeOK, BeginLoad, fileVars, hudiVars
<1>6. OwedIsThere'
  BY <1>1, <1>2, <1>3, <1>4 DEF RawInv, OwedIsThere, Loading
<1>7. OneInHand'
  BY <1>1, <1>2, <1>4 DEF RawInv, OneInHand, Loading
<1>8. \A c \in Csvs : Writers(c)' = Writers(c)
  BY <1>1, <1>2 DEF Writers, Loading
<1>9. CsvWritesMeet'
  BY <1>1, <1>8 DEF RawInv, CsvWritesMeet
<1>10. LoadedStays'
  <2> SUFFICES ASSUME NEW l \in Stages, NEW d \in Csvs, HasLoaded(l, d)'
               PROVE  /\ loaded'[d] >= owed'[l][d]
                      /\ \A q \in Writers(d)' :
                           /\ found'[q][d] >= owed'[l][d]
                           /\ d \in inHand'[q] => edition'[q] = 0 \/ edition'[q] >= owed'[l][d]
    BY DEF LoadedStays
  <2>1. CASE l # s
    <3>1. HasLoaded(l, d) /\ owed'[l] = owed[l]
      BY <1>1, <1>2, <2>1 DEF HasLoaded
    <3> QED  BY <1>1, <1>8, <3>1 DEF RawInv, LoadedStays
  <2>2. CASE l = s
    <3>1. owed'[l][d] = 0
      BY <1>1, <1>3, <1>4, <2>2 DEF HasLoaded
    <3>2. loaded[d] \in Nat /\ \A q \in Stages : found[q][d] \in Nat /\ edition[q] \in Nat
      BY <1>0 DEF RawTypeOK
    <3>3. \A q \in Writers(d)' : q \in Stages
      BY DEF Writers
    <3> QED  BY <1>1, <3>1, <3>2, <3>3
  <2> QED  BY <2>1, <2>2
<1> QED  BY <1>5, <1>6, <1>7, <1>9, <1>10 DEF RawInv

(* What meets another write is told, and reads what lies in HDFS.          *)
LEMMA StartCsvKeeps ==
  ASSUME RawInv, NEW s \in Stages, NEW c \in Csvs, StartCsv(s, c)
  PROVE  RawInv'
<1> USE RawAssumption DEF RawAssumption
<1>0. RawTypeOK
  BY DEF RawInv
<1>1. /\ Loading(s) /\ inHand[s] = {} /\ inHand'[s] = {c} /\ {c, TableOf[c]} \subseteq todo[s]
      /\ edition'[s] = IF c \in wholeCsvs THEN hdfs[c] ELSE 0
      /\ found'[s] = loaded
      /\ UNCHANGED <<hdfs, wholeCsvs, stage, todo, owed, loaded>>
  BY <1>0 DEF RawTypeOK, StartCsv, fileVars
<1>2. \A q \in Stages \ {s} : UNCHANGED <<inHand[q], edition[q], found[q]>>
  BY <1>0 DEF RawTypeOK, StartCsv
<1>3. RawTypeOK'
  <2>1. edition' \in [Stages -> 0..MaxVersion] /\ found' \in [Stages -> [Csvs -> 0..MaxVersion]]
    BY <1>0 DEF RawTypeOK, StartCsv
  <2>2. inHand' \in [Stages -> SUBSET Csvs] /\ metWrite' \subseteq Stages
    BY <1>0 DEF RawTypeOK, StartCsv, Writers
  <2> QED  BY <1>0, <2>1, <2>2 DEF RawTypeOK, StartCsv, fileVars
<1>4. OwedIsThere'
  BY <1>1, <1>2 DEF RawInv, OwedIsThere, Loading
<1>5. OneInHand'
  BY <1>1, <1>2 DEF RawInv, OneInHand, Loading
<1>6. \A d \in Csvs : /\ TableOf[d] = TableOf[c] => Writers(d)' = Writers(c) \cup {s}
                      /\ TableOf[d] # TableOf[c] => Writers(d)' = Writers(d)
  BY <1>1, <1>2 DEF Writers, Loading
<1>7. metWrite \subseteq metWrite' /\ (Writers(c) # {} => Writers(c) \cup {s} \subseteq metWrite')
  BY DEF StartCsv
<1>8. CsvWritesMeet'
  BY <1>6, <1>7 DEF RawInv, CsvWritesMeet
<1>9. LoadedStays'
  <2> SUFFICES ASSUME NEW l \in Stages, NEW d \in Csvs, HasLoaded(l, d)'
               PROVE  /\ loaded'[d] >= owed'[l][d]
                      /\ \A q \in Writers(d)' :
                           /\ found'[q][d] >= owed'[l][d]
                           /\ d \in inHand'[q] => edition'[q] = 0 \/ edition'[q] >= owed'[l][d]
    BY DEF LoadedStays
  <2>1. HasLoaded(l, d)
    BY <1>1, <1>7 DEF HasLoaded
  <2>2. loaded[d] >= owed[l][d]
    BY <2>1 DEF RawInv, LoadedStays
  <2>3. ASSUME NEW q \in Writers(d)', q # s
        PROVE  found'[q][d] >= owed'[l][d] /\ (d \in inHand'[q] => edition'[q] = 0 \/ edition'[q] >= owed'[l][d])
    <3>1. q \in Stages /\ q \in Writers(d)
      BY <1>1, <1>2, <2>3 DEF Writers, Loading
    <3> QED  BY <1>1, <1>2, <2>1, <2>3, <3>1 DEF RawInv, LoadedStays
  <2>4. found'[s][d] >= owed'[l][d]
    BY <1>1, <2>2
  <2>5. d \in inHand'[s] => edition'[s] = 0 \/ edition'[s] >= owed'[l][d]
    <3>1. owed[l][d] \in Nat /\ hdfs[d] \in Nat
      BY <1>0 DEF RawTypeOK
    <3>2. owed[l][d] # 0 => owed[l][d] = hdfs[d]
      BY DEF RawInv, OwedIsThere
    <3> QED  BY <1>1, <3>1, <3>2
  <2> QED  BY <1>1, <2>2, <2>3, <2>4, <2>5
<1> QED  BY <1>3, <1>4, <1>5, <1>8, <1>9 DEF RawInv

(* A write takes back nothing that a load has loaded without meeting it.   *)
LEMMA WrittenKeeps ==
  ASSUME RawInv, NEW s \in Stages, NEW c \in Csvs, Loading(s), inHand[s] = {c}, NEW n \in Written(s, c)
  PROVE  /\ n \in [Csvs -> 0..MaxVersion]
         /\ \A l \in Stages, d \in Csvs : HasLoaded(l, d) => n[d] >= owed[l][d]
         /\ owed[s][c] # 0 => n[c] = owed[s][c]
<1> USE RawAssumption DEF RawAssumption
<1>0. RawTypeOK
  BY DEF RawInv
<1>1. PICK t \in {loaded, found[s]}, v \in {edition[s], 0} :
        /\ n = [d \in Csvs |-> IF TableOf[d] # TableOf[c] THEN loaded[d]
                               ELSE IF d = c /\ v # 0 THEN v ELSE t[d]]
        /\ c \in wholeCsvs /\ hdfs[c] = edition[s] => v = edition[s]
  BY DEF Written
<1>2. t \in [Csvs -> 0..MaxVersion] /\ v \in 0..MaxVersion
  BY <1>0, <1>1 DEF RawTypeOK
<1>3. n \in [Csvs -> 0..MaxVersion]
  BY <1>0, <1>1, <1>2 DEF RawTypeOK
<1>4. ASSUME NEW l \in Stages, NEW d \in Csvs, HasLoaded(l, d)
      PROVE  n[d] >= owed[l][d]
  <2>1. loaded[d] >= owed[l][d]
    BY <1>4 DEF RawInv, LoadedStays
  <2>2. CASE TableOf[d] # TableOf[c]
    BY <1>1, <2>1, <2>2
  <2>3. CASE TableOf[d] = TableOf[c]
    <3>1. s \in Writers(d)
      BY <2>3 DEF Writers
    <3>2. found[s][d] >= owed[l][d] /\ (d = c => edition[s] = 0 \/ edition[s] >= owed[l][d])
      BY <1>4, <3>1 DEF RawInv, LoadedStays
    <3>3. t[d] >= owed[l][d]
      BY <1>1, <2>1, <3>2
    <3> QED  BY <1>1, <2>3, <3>2, <3>3
  <2> QED  BY <2>2, <2>3
<1>5. owed[s][c] # 0 => n[c] = owed[s][c]
  <2>1. owed[s][c] # 0 => c \in wholeCsvs /\ owed[s][c] = hdfs[c] /\ edition[s] = hdfs[c]
    BY DEF RawInv, OwedIsThere
  <2> QED  BY <1>1, <2>1
<1> QED  BY <1>3, <1>4, <1>5

(* A file that is loaded is loaded as it lies in HDFS, and nobody who      *)
(* writes beside it is to be believed.                                     *)
LEMMA CommitCsvKeeps ==
  ASSUME RawInv, NEW s \in Stages, NEW c \in Csvs, CommitCsv(s, c)
  PROVE  RawInv'
<1> USE RawAssumption DEF RawAssumption
<1>0. RawTypeOK
  BY DEF RawInv
<1>1. /\ Loading(s) /\ inHand[s] = {c} /\ loaded' \in Written(s, c) /\ inHand'[s] = {}
      /\ UNCHANGED <<hdfs, wholeCsvs, stage, owed, metWrite>>
  BY <1>0 DEF RawTypeOK, CommitCsv, PutDown, fileVars
<1>2. \A q \in Stages \ {s} : UNCHANGED <<todo[q], inHand[q], edition[q], found[q]>>
  BY <1>0 DEF RawTypeOK, CommitCsv, PutDown
<1>3. /\ loaded' \in [Csvs -> 0..MaxVersion]
      /\ \A l \in Stages, d \in Csvs : HasLoaded(l, d) => loaded'[d] >= owed[l][d]
      /\ owed[s][c] # 0 => loaded'[c] = owed[s][c]
  BY <1>1, WrittenKeeps
<1>4. todo'[s] \subseteq todo[s] /\ \A d \in Csvs \ {c} : d \in todo[s] => d \in todo'[s]
  BY <1>0 DEF RawTypeOK, CommitCsv, After
<1>5. RawTypeOK'
  <2>1. NoVersions \in [Csvs -> 0..MaxVersion] /\ After(s, c) \subseteq Tables \cup Csvs
    BY <1>0 DEF RawTypeOK, NoVersions, After
  <2>2. todo' \in [Stages -> SUBSET (Tables \cup Csvs)] /\ found' \in [Stages -> [Csvs -> 0..MaxVersion]]
    BY <1>0, <2>1 DEF RawTypeOK, CommitCsv, PutDown
  <2> QED  BY <1>0, <1>3, <2>2 DEF RawTypeOK, CommitCsv, PutDown, fileVars
<1>6. OwedIsThere'
  BY <1>1, <1>2 DEF RawInv, OwedIsThere, Loading
<1>7. OneInHand'
  BY <1>1, <1>2 DEF RawInv, OneInHand, Loading
<1>8. \A d \in Csvs : Writers(d)' \subseteq Writers(d) \ {s}
  BY <1>1, <1>2 DEF Writers, Loading
<1>9. CsvWritesMeet'
  BY <1>1, <1>8 DEF RawInv, CsvWritesMeet
<1>10. LoadedStays'
  <2> SUFFICES ASSUME NEW l \in Stages, NEW d \in Csvs, HasLoaded(l, d)'
               PROVE  /\ loaded'[d] >= owed'[l][d]
                      /\ \A q \in Writers(d)' :
                           /\ found'[q][d] >= owed'[l][d]
                           /\ d \in inHand'[q] => edition'[q] = 0 \/ edition'[q] >= owed'[l][d]
    BY DEF LoadedStays
  <2>1. \A q \in Writers(d)' : q \in Stages \ {s} /\ q \in Writers(d)
    BY <1>8 DEF Writers
  <2>2. CASE HasLoaded(l, d)
    BY <1>1, <1>2, <1>3, <2>1, <2>2 DEF RawInv, LoadedStays
  <2>3. CASE ~HasLoaded(l, d)
    <3>1. l = s /\ d = c /\ s \notin metWrite
      BY <1>1, <1>2, <1>4, <2>3 DEF HasLoaded
    <3>2. Writers(d)' = {}
      <4>1. s \in Writers(c)
        BY <1>1 DEF Writers
      <4> QED  BY <2>1, <3>1, <4>1 DEF RawInv, CsvWritesMeet
    <3>3. loaded'[d] >= owed'[l][d]
      BY <1>0, <1>1, <1>3, <3>1 DEF RawTypeOK
    <3> QED  BY <3>2, <3>3
  <2> QED  BY <2>2, <2>3
<1> QED  BY <1>5, <1>6, <1>7, <1>9, <1>10 DEF RawInv

(* After a failed table this run claims nothing any more. *)
LEMMA FailTableKeeps ==
  ASSUME RawInv, NEW s \in Stages, NEW t \in Tables, FailTable(s, t)
  PROVE  RawInv'
<1> USE RawAssumption DEF RawAssumption
<1>0. RawTypeOK
  BY DEF RawInv
<1>1. /\ Loading(s) /\ inHand'[s] = {} /\ stage'[s] = "failing" /\ owed'[s] = NoVersions
      /\ UNCHANGED <<hdfs, wholeCsvs, metWrite>>
  BY <1>0 DEF RawTypeOK, FailTable, PutDown, fileVars
<1>2. \A q \in Stages \ {s} : UNCHANGED <<stage[q], todo[q], inHand[q], edition[q], found[q], owed[q]>>
  BY <1>0 DEF RawTypeOK, FailTable, PutDown
<1>3. /\ loaded' \in [Csvs -> 0..MaxVersion]
      /\ \A l \in Stages, d \in Csvs : HasLoaded(l, d) => loaded'[d] >= owed[l][d]
  <2>1. CASE loaded' = loaded
    BY <1>0, <2>1 DEF RawInv, RawTypeOK, LoadedStays
  <2>2. ASSUME NEW c \in inHand[s], loaded' \in Written(s, c)
        PROVE  /\ loaded' \in [Csvs -> 0..MaxVersion]
               /\ \A l \in Stages, d \in Csvs : HasLoaded(l, d) => loaded'[d] >= owed[l][d]
    <3>1. c \in Csvs /\ inHand[s] = {c}
      BY <1>0 DEF RawInv, RawTypeOK, OneInHand
    <3> QED  BY <1>1, <2>2, <3>1, WrittenKeeps
  <2> QED  BY <2>1, <2>2 DEF FailTable
<1>4. NoVersions \in [Csvs -> 0..MaxVersion] /\ \A c \in Csvs : owed'[s][c] = 0
  BY <1>1 DEF NoVersions
<1>5. RawTypeOK'
  <2>1. /\ todo' \in [Stages -> SUBSET (Tables \cup Csvs)]
        /\ found' \in [Stages -> [Csvs -> 0..MaxVersion]] /\ owed' \in [Stages -> [Csvs -> 0..MaxVersion]]
    BY <1>0, <1>4 DEF RawTypeOK, FailTable, PutDown
  <2> QED  BY <1>0, <1>3, <2>1 DEF RawTypeOK, FailTable, PutDown, fileVars
<1>6. OwedIsThere'
  BY <1>1, <1>2, <1>4 DEF RawInv, OwedIsThere, Loading
<1>7. OneInHand'
  BY <1>1, <1>2 DEF RawInv, OneInHand, Loading
<1>8. \A d \in Csvs : Writers(d)' \subseteq Writers(d) \ {s}
  BY <1>1, <1>2 DEF Writers, Loading
<1>9. CsvWritesMeet'
  BY <1>1, <1>8 DEF RawInv, CsvWritesMeet
<1>10. LoadedStays'
  <2> SUFFICES ASSUME NEW l \in Stages, NEW d \in Csvs, HasLoaded(l, d)'
               PROVE  /\ loaded'[d] >= owed'[l][d]
                      /\ \A q \in Writers(d)' :
                           /\ found'[q][d] >= owed'[l][d]
                           /\ d \in inHand'[q] => edition'[q] = 0 \/ edition'[q] >= owed'[l][d]
    BY DEF LoadedStays
  <2>1. \A q \in Writers(d)' : q \in Stages \ {s} /\ q \in Writers(d)
    BY <1>8 DEF Writers
  <2>2. l # s /\ HasLoaded(l, d)
    BY <1>1, <1>2 DEF HasLoaded
  <2> QED  BY <1>2, <1>3, <2>1, <2>2 DEF RawInv, LoadedStays
<1> QED  BY <1>5, <1>6, <1>7, <1>9, <1>10 DEF RawInv

(* A load is complete only with nothing left and no error.                 *)
LEMMA EndLoadKeeps ==
  ASSUME RawInv, NEW s \in Stages, EndLoad(s)
  PROVE  RawInv'
<1> USE RawAssumption DEF RawAssumption
<1>0. RawTypeOK
  BY DEF RawInv
<1>1. /\ Loading(s) /\ inHand'[s] = {} /\ UNCHANGED <<hdfs, wholeCsvs, loaded, metWrite>>
      /\ \/ stage[s] = "loading" /\ todo[s] = {} /\ stage'[s] = "complete" /\ owed'[s] = owed[s]
         \/ stage'[s] = "over" /\ owed'[s] = NoVersions
  BY <1>0 DEF RawTypeOK, EndLoad, PutDown, fileVars
<1>2. \A q \in Stages \ {s} : UNCHANGED <<stage[q], todo[q], inHand[q], edition[q], found[q], owed[q]>>
  BY <1>0 DEF RawTypeOK, EndLoad, PutDown
<1>3. NoVersions \in [Csvs -> 0..MaxVersion] /\ \A c \in Csvs : NoVersions[c] = 0
  BY DEF NoVersions
<1>4. RawTypeOK'
  <2>1. found' \in [Stages -> [Csvs -> 0..MaxVersion]]
    BY <1>0, <1>3 DEF RawTypeOK, EndLoad, PutDown
  <2>2. owed' \in [Stages -> [Csvs -> 0..MaxVersion]]
    BY <1>0, <1>3 DEF RawTypeOK, EndLoad
  <2>3. \E x \in {"complete", "over"} : stage' = [stage EXCEPT ![s] = x]
    BY DEF EndLoad
  <2>4. /\ stage' \in [Stages -> {"none", "schemas", "csvs", "copying", "over", "loading", "failing",
                                  "complete"}]
        /\ todo' \in [Stages -> SUBSET (Tables \cup Csvs)] /\ inHand' \in [Stages -> SUBSET Csvs]
        /\ edition' \in [Stages -> 0..MaxVersion]
    BY <1>0, <2>3 DEF RawTypeOK, EndLoad, PutDown
  <2>5. UNCHANGED <<s3, hdfs, wholeCsvs, opener, acks, loaded, metWrite>>
    BY DEF EndLoad, fileVars
  <2> QED  BY <1>0, <2>1, <2>2, <2>4, <2>5 DEF RawTypeOK
<1>5. OwedIsThere'
  BY <1>1, <1>2, <1>3 DEF RawInv, OwedIsThere, Loading
<1>6. OneInHand'
  BY <1>1, <1>2 DEF RawInv, OneInHand, Loading
<1>7. \A d \in Csvs : Writers(d)' \subseteq Writers(d) \ {s}
  BY <1>1, <1>2 DEF Writers, Loading
<1>8. CsvWritesMeet'
  BY <1>1, <1>7 DEF RawInv, CsvWritesMeet
<1>9. \A l \in Stages, d \in Csvs : HasLoaded(l, d)' => HasLoaded(l, d) /\ owed'[l] = owed[l]
  BY <1>1, <1>2 DEF HasLoaded
<1>10. \A d \in Csvs : \A q \in Writers(d)' : q \in Stages \ {s} /\ q \in Writers(d)
  BY <1>7 DEF Writers
<1>11. LoadedStays'
  BY <1>1, <1>2, <1>9, <1>10 DEF RawInv, LoadedStays
<1> QED  BY <1>4, <1>5, <1>6, <1>8, <1>11 DEF RawInv

(* Every step of the two stages keeps the invariant. *)
LEMMA RawNextKeeps == RawInv /\ [RawNext]_rawVars => RawInv'
<1> SUFFICES ASSUME RawInv, [RawNext]_rawVars
             PROVE  RawInv'
  OBVIOUS
<1>1. CASE UNCHANGED rawVars
  <2>1. UNCHANGED <<s3, hdfs, wholeCsvs, opener, acks, stage, todo, inHand, edition, owed, found,
                    loaded, metWrite>>
    BY <1>1 DEF rawVars, fileVars, workVars, hudiVars
  <2>2. RawTypeOK'
    BY <2>1 DEF RawInv, RawTypeOK
  <2> QED  BY <2>1, <2>2, AsideKeeps
<1>2. CASE RawNext
  BY <1>2, LandingKeeps, PushKeeps, OverwriteCsvKeeps, BeginLoadKeeps, StartCsvKeeps, CommitCsvKeeps,
     FailTableKeeps, EndLoadKeeps
  DEF RawNext
<1> QED  BY <1>1, <1>2

(* Stage 2 says it is complete only when every file that was whole when it *)
(* began, and that stage 1 has not overwritten since, is loaded, and what  *)
(* a load that met no other write has loaded stays, however any number of  *)
(* runs of both stages, lost copies, failed tables and new versions        *)
(* interleave.                                                             *)
THEOREM CompleteLoadsAreWhole == RawSpec => []CompleteIsLoaded
<1>1. RawInv => CompleteIsLoaded
  BY DEF RawInv, LoadedStays, HasLoaded, CompleteIsLoaded
<1> QED  BY <1>1, RawStarts, RawNextKeeps, PTL DEF RawSpec

(* Both at once, in any interleaving: what one of them calls complete is   *)
(* loaded, and stays.                                                      *)
THEOREM IngestsStayLoaded == OrdersSpec /\ RawSpec => []IngestsAreLoaded
<1>1. OkIsLoaded /\ CompleteIsLoaded => IngestsAreLoaded
  BY DEF IngestsAreLoaded
<1> QED  BY <1>1, OkLoadsStay, CompleteLoadsAreWhole, PTL
=============================================================================
