------------------------------ MODULE MCRecords ------------------------------
(***************************************************************************)
(* The two kinds of records the server mirrors into a file, for model      *)
(* checking: those of the installs, whose ordinary changes are written     *)
(* late, and those of the ingest jobs, written with every change.  They    *)
(* share nothing, and the run follows one of them at a time.               *)
(***************************************************************************)
EXTENDS MCStateStore, IngestJobs

VARIABLE part

recordVars == <<part, storeVars, ingestVars>>

RecordsInit == part \in {"installs", "jobs"} /\ Init /\ IngestInit

RecordsNext ==
  \/ part = "installs" /\ Next /\ UNCHANGED <<part, ingestVars>>
  \/ part = "jobs" /\ IngestNext /\ UNCHANGED <<part, storeVars>>

(* The fairness of the one that is followed.                               *)
RecordsSpec ==
  /\ RecordsInit /\ [][RecordsNext]_recordVars
  /\ WF_storeVars(part = "installs" /\ TimerExpires)
  /\ WF_storeVars(part = "installs" /\ FlushFromTimer)
  /\ WF_storeVars(part = "installs" /\ FlushFromLateTimer)
  /\ \A j \in Jobs : WF_ingestVars(part = "jobs" /\ TaskStep(j))
=============================================================================
