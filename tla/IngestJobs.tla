----------------------------- MODULE IngestJobs -----------------------------
(***************************************************************************)
(* The ingest jobs of one stack (backend/ingest.py): a CSV upload or a     *)
(* table read over JDBC becomes an Iceberg table.  The job is registered,  *)
(* and a task drives it: pending, running, success or failed.  The work is *)
(* done by a spark-submit in the container, which the task reaches through *)
(* a docker client; the two do not end together.                           *)
(*                                                                         *)
(* A table holds the data of one job, and a count of its rows stands for   *)
(* the job whose data was counted.                                         *)
(***************************************************************************)
EXTENDS Naturals

CONSTANTS
  MaxJobs,   \* bound: jobs
  Tables,    \* the target tables
  MaxStarts  \* bound: starts of the server

Jobs == 1..MaxJobs
None == 0

ASSUME IngestAssumption ==
  MaxJobs \in Nat /\ MaxStarts \in Nat \ {0} /\ None \notin Tables

VARIABLES
  jobs,      \* [Jobs -> the record in memory]
  jobFile,      \* [Jobs -> the record in the job file]
  kind,      \* [Jobs -> "csv" or "jdbc"]
  target,    \* [Jobs -> its table, None while the id is unused]
  stage,      \* [Jobs -> where the background task stands]
  result,    \* [Jobs -> what its task knows of the docker client that submitted]
  spark,     \* [Jobs -> its process in the spark container]
  counted,   \* [Jobs -> the job whose rows that process has counted]
  table,     \* [Tables -> the job whose data it holds]
  met,       \* history: jobs whose process ran beside another one of their table
  starts

ingestVars == <<jobs, jobFile, kind, target, stage, result, spark, counted, table, met, starts>>

Absent == [state |-> "absent", rows |-> None]
Ended == {"success", "failed"}
Phases == {"preflight", "staging", "script", "submitting", "submitted", "cleanup"}

IngestInit ==
  /\ jobs = [j \in Jobs |-> Absent] /\ jobFile = jobs
  /\ kind = [j \in Jobs |-> "csv"] /\ target = [j \in Jobs |-> None]
  /\ stage = [j \in Jobs |-> "none"] /\ result = [j \in Jobs |-> "unknown"]
  /\ spark = [j \in Jobs |-> "none"] /\ counted = [j \in Jobs |-> None]
  /\ table = [t \in Tables |-> None] /\ met = {} /\ starts = 1

Proceed(j, phase) == stage' = [stage EXCEPT ![j] = phase]

-----------------------------------------------------------------------------
(* Memory is changed, then the whole file is written by force: written, or *)
(* given up without a word after five attempts.                            *)
Persisted(j, state, rows) ==
  /\ jobs' = [jobs EXCEPT ![j] = [state |-> state, rows |-> rows]]
  /\ jobFile' \in {jobFile, jobs'}

(* The write raises (no room, no directory) when memory is changed.        *)
Raised(j, state) ==
  /\ jobs' = [jobs EXCEPT ![j] = [state |-> state, rows |-> None]]
  /\ UNCHANGED jobFile

Fail(j) == Persisted(j, "failed", None) /\ Proceed(j, "done")

(* kick_off_csv_ingest, kick_off_postgres_ingest, kick_off_mysql_ingest:   *)
(* what is refused leaves nothing behind.                                  *)
Register(j, k, t) ==
  /\ target[j] = None /\ \A i \in 1..(j - 1) : target[i] # None
  /\ kind' = [kind EXCEPT ![j] = k] /\ target' = [target EXCEPT ![j] = t]
  /\ UNCHANGED <<result, spark, counted, table, met, starts>>

KickOff(j, k, t) ==
  /\ Register(j, k, t)
  /\ \/ Persisted(j, "pending", None) /\ Proceed(j, "queued")
     \/ Raised(j, "pending") /\ UNCHANGED stage

(* Without the JDBC drivers the job is registered as failed. *)
KickOffWithoutDrivers(j, t) ==
  /\ Register(j, "jdbc", t)
  /\ Persisted(j, "failed", None) /\ UNCHANGED stage

-----------------------------------------------------------------------------
(* The task, _run_csv_ingest or _run_jdbc_ingest.  Each docker command     *)
(* returns or is killed by its timeout, with or without success.           *)
unmoved == <<kind, target, result, spark, counted, table, met, starts>>

Begin(j) ==
  /\ stage[j] = "queued"
  /\ \/ Persisted(j, "running", None) /\ Proceed(j, "preflight")
     \/ Raised(j, "running") /\ Proceed(j, "dead")
  /\ UNCHANGED unmoved

Following(j) ==
  [preflight |-> IF kind[j] = "csv" THEN "staging" ELSE "script",
   staging |-> "script", script |-> "submitting"]

Command(j) ==
  /\ stage[j] \in DOMAIN Following(j)
  /\ \/ Proceed(j, Following(j)[stage[j]]) /\ UNCHANGED <<jobs, jobFile>>
     \/ Fail(j)
     \/ Raised(j, "failed") /\ Proceed(j, "dead")
  /\ UNCHANGED unmoved

Busy(j) == spark[j] \in {"running", "written"}
Beside(j) == {i \in Jobs \ {j} : Busy(i) /\ target[i] = target[j]}

(* _spark_submit: the docker client cannot be spawned, or the process runs. *)
Submit(j) ==
  /\ stage[j] = "submitting"
  /\ \/ /\ result' = [result EXCEPT ![j] = "error"] /\ Proceed(j, "cleanup")
        /\ UNCHANGED <<spark, met>>
     \/ /\ spark' = [spark EXCEPT ![j] = "running"] /\ Proceed(j, "submitted")
        /\ met' = IF Beside(j) = {} THEN met ELSE met \cup {j} \cup Beside(j)
        /\ UNCHANGED result
  /\ UNCHANGED <<jobs, jobFile, kind, target, counted, table, starts>>

(* The client returns the status of the process, and the line with the     *)
(* count unless the reader of the output gave up on an overlong line.      *)
Returned(j) ==
  /\ spark[j] \in {"exited", "failed"}
  /\ \E r \in IF spark[j] = "exited" THEN {"rows", "silent"} ELSE {"error"} :
       result' = [result EXCEPT ![j] = r]

(* The client is killed at the cap, or loses the daemon; the process in    *)
(* the container goes on.                                                  *)
GaveUp(j) == result' = [result EXCEPT ![j] = "error"]

(* Mutant: the submit has no cap. *)
ClientEnds_NoCap(j) == Returned(j)

ClientEnds(j) == Returned(j) \/ GaveUp(j)

SubmitEnds(j) ==
  /\ stage[j] = "submitted" /\ ClientEnds(j) /\ Proceed(j, "cleanup")
  /\ UNCHANGED <<jobs, jobFile, kind, target, spark, counted, table, met, starts>>

(* Mutant: output without the count is read as success. *)
Reported_Silent(r) == r \in {"rows", "silent"}

Reported(r) == r = "rows"

Finish(j) ==
  /\ stage[j] = "cleanup"
  /\ IF Reported(result[j])
     THEN \/ Persisted(j, "success", IF result[j] = "rows" THEN counted[j] ELSE None)
             /\ Proceed(j, "done")
          \/ /\ jobs' = [jobs EXCEPT ![j] = [state |-> "success", rows |-> counted[j]]]
             /\ UNCHANGED jobFile /\ Proceed(j, "dead")
     ELSE \/ Fail(j)
          \/ Raised(j, "failed") /\ Proceed(j, "dead")
  /\ result' = [result EXCEPT ![j] = "unknown"]
  /\ UNCHANGED <<kind, target, spark, counted, table, met, starts>>

TaskStep(j) == Begin(j) \/ Command(j) \/ Submit(j) \/ SubmitEnds(j) \/ Finish(j)

-----------------------------------------------------------------------------
(* The process in the container: createOrReplace, then a count of the      *)
(* table as it is by then.                                                 *)
Write(j) ==
  /\ spark[j] = "running"
  /\ spark' = [spark EXCEPT ![j] = "written"]
  /\ table' = [table EXCEPT ![target[j]] = j]
  /\ UNCHANGED <<jobs, jobFile, kind, target, stage, result, counted, met, starts>>

Count(j) ==
  /\ spark[j] = "written"
  /\ counted' = [counted EXCEPT ![j] = table[target[j]]]
  /\ spark' = [spark EXCEPT ![j] = "exited"]
  /\ UNCHANGED <<jobs, jobFile, kind, target, stage, result, table, met, starts>>

Die(j) ==
  /\ Busy(j)
  /\ spark' = [spark EXCEPT ![j] = "failed"]
  /\ UNCHANGED <<jobs, jobFile, kind, target, stage, result, counted, table, met, starts>>

(* The server is lost and started again: jobs are what the file says, no   *)
(* task is, and the containers know nothing of it.                         *)
IngestRestart ==
  /\ starts < MaxStarts /\ starts' = starts + 1
  /\ jobs' = jobFile
  /\ stage' = [j \in Jobs |-> "none"] /\ result' = [j \in Jobs |-> "unknown"]
  /\ UNCHANGED <<jobFile, kind, target, spark, counted, table, met>>

IngestNext ==
  \/ \E j \in Jobs, t \in Tables : \/ \E k \in {"csv", "jdbc"} : KickOff(j, k, t)
                                   \/ KickOffWithoutDrivers(j, t)
  \/ \E j \in Jobs : TaskStep(j) \/ Write(j) \/ Count(j) \/ Die(j)
  \/ IngestRestart

IngestSpec == IngestInit /\ [][IngestNext]_ingestVars

(* The event loop runs every task that can go on, and every command of a   *)
(* task comes back, by its timeout if need be.  Nothing is assumed of the  *)
(* process in the container.                                               *)
IngestFairSpec == IngestSpec /\ \A j \in Jobs : WF_ingestVars(TaskStep(j))

-----------------------------------------------------------------------------
IngestTypeOK ==
  /\ LET record == [state : {"absent", "pending", "running"} \cup Ended, rows : Jobs \cup {None}]
     IN jobs \in [Jobs -> record] /\ jobFile \in [Jobs -> record]
  /\ kind \in [Jobs -> {"csv", "jdbc"}] /\ target \in [Jobs -> Tables \cup {None}]
  /\ stage \in [Jobs -> Phases \cup {"none", "queued", "dead", "done"}]
  /\ result \in [Jobs -> {"unknown", "rows", "silent", "error"}]
  /\ spark \in [Jobs -> {"none", "running", "written", "exited", "failed"}]
  /\ counted \in [Jobs -> Jobs \cup {None}] /\ table \in [Tables -> Jobs \cup {None}]
  /\ met \subseteq Jobs /\ starts \in 1..MaxStarts

(* A job is a success only after its data were written and counted, and    *)
(* the rows it reports are its own unless another process of the same      *)
(* table ran beside its own (_parse_rows_written; the count that follows   *)
(* createOrReplace).                                                       *)
RowsAreItsOwn ==
  \A j \in Jobs : jobs[j].state = "success" =>
    /\ jobs[j].rows # None
    /\ j \notin met => jobs[j].rows = j

(* The invariant this rests on.  An id that is not in use, and a task that *)
(* has not submitted yet, have no process; what a client reported is known *)
(* only until the task has recorded it.                                    *)
ProcessFollowsTask ==
  \A j \in Jobs :
    /\ target[j] = None => stage[j] = "none"
    /\ target[j] = None \/ stage[j] \in {"queued", "preflight", "staging", "script", "submitting"}
         => spark[j] = "none"
    /\ result[j] # "unknown" => stage[j] = "cleanup"
    /\ result[j] = "rows" => spark[j] = "exited"

(* Two processes of one table that are under way together have met.        *)
TogetherIsMet ==
  \A i, j \in Jobs :
    i # j /\ Busy(i) /\ Busy(j) /\ target[i] = target[j] => i \in met

(* A process that met no other finds what it wrote, and so did the count   *)
(* of one that is over, and the records that repeat it.                    *)
FindsItsOwn(j, who) == who # None /\ (j \notin met => who = j)

CountsAreItsOwn ==
  \A j \in Jobs :
    /\ spark[j] = "written" => FindsItsOwn(j, table[target[j]])
    /\ spark[j] = "exited" => FindsItsOwn(j, counted[j])

FileRowsAreItsOwn ==
  \A j \in Jobs : jobFile[j].state = "success" => FindsItsOwn(j, jobFile[j].rows)

IngestInv ==
  /\ IngestTypeOK
  /\ ProcessFollowsTask
  /\ TogetherIsMet
  /\ CountsAreItsOwn
  /\ FileRowsAreItsOwn
  /\ RowsAreItsOwn

(* The job file implements the map with whole-file snapshots: a write that *)
(* is given up or raises leaves the file of an earlier moment, whole, and  *)
(* a start takes every record from it as it is.                            *)
JobAsLoaded(d, v) == v = d

JobMap == INSTANCE WriteBackStore WITH
  Keys <- Jobs,
  Blank <- Absent,
  Repair <- JobAsLoaded,
  volatile <- jobs,
  durable <- jobFile

JobsWriteBack == JobMap!Spec

(* Every job whose task is there is settled, however its commands and its  *)
(* process hang, unless the record cannot be written or the server is lost *)
(* ("Single source of truth for state transitions", ingest.py:808).        *)
Driven(j) == stage[j] \notin {"none", "dead", "done"}
EveryJobEnds ==
  \A j \in Jobs : Driven(j) ~> jobs[j].state \in Ended \/ stage[j] \in {"none", "dead"}

(* "How long the spark-submit may run before we kill it ... rather than    *)
(* orphaning the subprocess" (ingest.py:380-383): what has failed writes   *)
(* no table any more.                                                      *)
FailedWritesNoMore ==
  [][\A j \in Jobs : jobs[j].state = "failed" /\ spark[j] = "running"
                     => spark'[j] # "written"]_ingestVars
=============================================================================
