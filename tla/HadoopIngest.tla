---------------------------- MODULE HadoopIngest ----------------------------
(***************************************************************************)
(* The orders pipeline of the enterprise-hadoop stack: an Airflow DAG      *)
(* (config/airflow/dags/sample_orders_hudi_pipeline.py) that generates     *)
(* orders, lands them in HDFS as a CSV file and a parent ACK, submits      *)
(* jobs/ingestMultipleCSVWithACKToHDFS.py to Spark and verifies the table  *)
(* through Trino.  The script is also submitted by hand.  Nothing keeps    *)
(* two runs apart, and the DAG knows of the script what its docker client  *)
(* tells.                                                                  *)
(*                                                                         *)
(* A batch is known by its run.  It stands for one order, whose key in the *)
(* table is its region (the region is the partition, the id the same in    *)
(* every batch), with the second at which it was generated as precombine   *)
(* field.  A CSV file is named by the second in which it is put.           *)
(***************************************************************************)
EXTENDS Naturals

CONSTANTS
  MaxRuns,    \* bound: runs of the DAG and submissions by hand
  MaxClock,   \* bound: seconds
  Regions

ASSUME HadoopAssumption == MaxRuns \in Nat /\ MaxClock \in Nat \ {0} /\ Regions # {}

Runs == 1..MaxRuns
Nobody == 0

VARIABLES
  second,
  schema,      \* how much of the schema is staged: "none", "yaml", "acked"
  ack,         \* is the parent ACK there?
  files,       \* [seconds -> the run whose batch the file of that name has]
  whole,       \* the names whose file has been closed
  dag,         \* [Runs -> the task the DAG run is in]
  batch,       \* [Runs -> region and stamp of its order]
  csv,         \* [Runs -> the name it put its file under]
  script,      \* [Runs -> where its process in the Spark container stands]
  drop,        \* [Runs -> was it asked to drop and reload?]
  listed,      \* [Runs -> the names it found]
  promised,    \* [Runs -> history: the batches in whole files it found]
  rows,        \* [Runs -> the batches it read to write]
  base,        \* [Runs -> the table as its write found it]
  orders,      \* [Regions -> the run whose order it has]
  registered,  \* the partitions Hive, and so Trino, knows
  crossed      \* history: runs whose write met another one, or a drop

dagVars == <<dag, batch, csv>>
landVars == <<files, whole>>
scriptVars == <<script, drop, listed, promised, rows, base>>
tableVars == <<orders, registered, crossed>>
orderVars == <<second, schema, ack, dagVars, landVars, scriptVars, tableVars>>

OrdersInit ==
  /\ second = 1 /\ schema = "none" /\ ack = FALSE
  /\ files = [n \in 1..MaxClock |-> Nobody] /\ whole = {}
  /\ dag = [r \in Runs |-> "none"] /\ csv = [r \in Runs |-> 1]
  /\ batch = [r \in Runs |-> [region |-> CHOOSE g \in Regions : TRUE, stamp |-> 0]]
  /\ script = [r \in Runs |-> "none"] /\ drop = [r \in Runs |-> FALSE]
  /\ listed = [r \in Runs |-> {}] /\ promised = listed /\ rows = listed
  /\ orders = [g \in Regions |-> Nobody] /\ base = [r \in Runs |-> orders]
  /\ registered = {} /\ crossed = {}

Unused(r) == dag[r] = "none" /\ script[r] = "none"
IsNext(r) == Unused(r) /\ \A q \in 1..(r - 1) : ~Unused(q)

Task(r, from, to) == dag[r] = from /\ dag' = [dag EXCEPT ![r] = to]
Script(r, from, to) == script[r] = from /\ script' = [script EXCEPT ![r] = to]

(* A process that ends takes with it what it had read. *)
Forget(r) ==
  /\ listed' = [listed EXCEPT ![r] = {}] /\ rows' = [rows EXCEPT ![r] = {}]
  /\ base' = [base EXCEPT ![r] = [g \in Regions |-> Nobody]]
  /\ UNCHANGED drop

Tick ==
  /\ second < MaxClock /\ second' = second + 1
  /\ UNCHANGED <<schema, ack, dagVars, landVars, scriptVars, tableVars>>

(* setup_orders_demo.sh: the schema, then its ACK. *)
StageSchema ==
  /\ \/ schema = "none" /\ schema' = "yaml"
     \/ schema = "yaml" /\ schema' = "acked"
  /\ UNCHANGED <<second, ack, dagVars, landVars, scriptVars, tableVars>>

-----------------------------------------------------------------------------
(* The tasks of the DAG; none is retried.                                  *)
Generate(r) ==
  /\ IsNext(r) /\ dag' = [dag EXCEPT ![r] = "land"]
  /\ \E g \in Regions : batch' = [batch EXCEPT ![r] = [region |-> g, stamp |-> second]]
  /\ UNCHANGED <<second, schema, ack, csv, landVars, scriptVars, tableVars>>

(* land_csv_with_ack: an earlier file of the same second is overwritten.   *)
OpenCsv(r) ==
  /\ Task(r, "land", "put")
  /\ csv' = [csv EXCEPT ![r] = second]
  /\ files' = [files EXCEPT ![second] = r] /\ whole' = whole \ {second}
  /\ UNCHANGED <<second, schema, ack, batch, scriptVars, tableVars>>

CloseCsv(r) ==
  /\ files[csv[r]] = r /\ Task(r, "put", "ack")
  /\ whole' = whole \cup {csv[r]}
  /\ UNCHANGED <<second, schema, ack, batch, csv, files, scriptVars, tableVars>>

PutAck(r) ==
  /\ Task(r, "ack", "submit") /\ ack' = TRUE
  /\ UNCHANGED <<second, schema, batch, csv, landVars, scriptVars, tableVars>>

Submit(r) ==
  /\ Task(r, "submit", "spark") /\ script' = [script EXCEPT ![r] = "begun"]
  /\ UNCHANGED <<second, schema, ack, batch, csv, landVars, drop, listed, promised, rows, base,
                 tableVars>>

(* The client returns what spark-submit returned.  main() does not look at *)
(* the result of run(), so it is 0 whenever the script came to its end.    *)
ClientReturns(r) ==
  /\ \/ script[r] \in {"ok", "errors"} /\ Task(r, "spark", "verify")
     \/ script[r] = "lost" /\ Task(r, "spark", "failed")
  /\ UNCHANGED <<second, schema, ack, batch, csv, landVars, scriptVars, tableVars>>

(* Verify counts what Trino sees, of whichever run it is. *)
VerifyTable(r) ==
  /\ Task(r, "verify", "success")
  /\ \E g \in registered : orders[g] # Nobody
  /\ UNCHANGED <<second, schema, ack, batch, csv, landVars, scriptVars, tableVars>>

(* Any task may fail; the timeout of the Spark task kills its docker       *)
(* client and leaves the script running.                                   *)
TaskFails(r) ==
  /\ \E t \in {"land", "put", "ack", "submit", "spark", "verify"} : Task(r, t, "failed")
  /\ UNCHANGED <<second, schema, ack, batch, csv, landVars, scriptVars, tableVars>>

(* docker exec ehd-spark spark-submit, by hand. *)
SubmitByHand(r) ==
  /\ IsNext(r) /\ script' = [script EXCEPT ![r] = "begun"]
  /\ \E b \in BOOLEAN : drop' = [drop EXCEPT ![r] = b]
  /\ UNCHANGED <<second, schema, ack, dagVars, landVars, listed, promised, rows, base, tableVars>>

-----------------------------------------------------------------------------
(* The script.  The directory is listed once.  A schema that is missing,   *)
(* or files without a parent ACK, count as an error; with neither files    *)
(* nor ACK there is nothing to do, and all is processed successfully.      *)
FetchFiles(r) ==
  /\ IF schema = "acked" /\ ack
     THEN /\ Script(r, "begun", IF drop[r] THEN "dropping" ELSE "found")
          /\ listed' = [listed EXCEPT ![r] = {n \in 1..MaxClock : files[n] # Nobody}]
          /\ promised' = [promised EXCEPT ![r] = {files[n] : n \in whole}]
     ELSE /\ Script(r, "begun", IF schema = "acked" /\ \A n \in 1..MaxClock : files[n] = Nobody
                                THEN "ok" ELSE "errors")
          /\ promised' = [promised EXCEPT ![r] = {}] /\ UNCHANGED listed
  /\ UNCHANGED <<second, schema, ack, dagVars, landVars, drop, rows, base, tableVars>>

(* The path of the table is deleted.  DROP TABLE goes to Spark's in-memory *)
(* catalog, and Hive keeps what is registered.                             *)
DropTable(r) ==
  /\ Script(r, "dropping", "found")
  /\ orders' = [g \in Regions |-> Nobody]
  /\ crossed' = crossed \cup
       {q \in Runs \ {r} : script[q] \in {"writing", "written", "registered", "ok"}}
  /\ UNCHANGED <<second, schema, ack, dagVars, landVars, drop, listed, promised, rows, base,
                 registered>>

(* "No CSV files found - skipping", after the drop and with the ACK left.  *)
NoFiles(r) ==
  /\ listed[r] = {} /\ Script(r, "found", "errors") /\ Forget(r)
  /\ UNCHANGED <<second, schema, ack, dagVars, landVars, promised, tableVars>>

(* _process_table_all_csvs: all files found are read as they are by now,   *)
(* whichever runs have read them before; an unclosed one has no rows.      *)
StartWrite(r) ==
  /\ listed[r] # {} /\ Script(r, "found", "writing")
  /\ rows' = [rows EXCEPT ![r] = {files[n] : n \in listed[r] \cap whole}]
  /\ base' = [base EXCEPT ![r] = orders]
  /\ LET beside == {q \in Runs : script[q] = "writing"}
     IN crossed' = IF beside = {} THEN crossed ELSE crossed \cup beside \cup {r}
  /\ UNCHANGED <<second, schema, ack, dagVars, landVars, drop, listed, promised, orders,
                 registered>>

(* Mutant: what is written last replaces what is there. *)
Upsert_LastWins(t, in, g) == {q \in in : batch[q].region = g}

(* DefaultHoodieRecordPayload: of the orders of one key the one with the   *)
(* greatest stamp stays, the incoming one among equals.                    *)
Upsert(t, in, g) ==
  {q \in in : /\ batch[q].region = g
              /\ \A p \in in : batch[p].region = g => batch[p].stamp <= batch[q].stamp
              /\ t[g] # Nobody => batch[t[g]].stamp <= batch[q].stamp}

Upserted(t, in) ==
  {u \in [Regions -> {t[g] : g \in Regions} \cup in] :
     \A g \in Regions : IF Upsert(t, in, g) = {} THEN u[g] = t[g] ELSE u[g] \in Upsert(t, in, g)}

(* No concurrency control is configured: what another write committed      *)
(* meanwhile may be lost.                                                  *)
CommitWrite(r) ==
  /\ Script(r, "writing", "written")
  /\ \E t \in {orders} \cup (IF r \in crossed THEN {base[r]} ELSE {}) :
       orders' \in Upserted(t, rows[r])
  /\ UNCHANGED <<second, schema, ack, dagVars, landVars, drop, listed, promised, rows, base,
                 registered, crossed>>

(* _register_hive_table_via_beeline: the regions of this write are added.  *)
Register(r) ==
  /\ Script(r, "written", "registered")
  /\ registered' = registered \cup {batch[q].region : q \in rows[r]}
  /\ UNCHANGED <<second, schema, ack, dagVars, landVars, drop, listed, promised, rows, base, orders,
                 crossed>>

(* The parent ACK is deleted, whoever wrote it by now; that it could not   *)
(* be deleted is only a warning.                                           *)
DeleteAck(r) ==
  /\ Script(r, "registered", "ok") /\ ack' \in {FALSE, ack} /\ Forget(r)
  /\ UNCHANGED <<second, schema, dagVars, landVars, promised, tableVars>>

(* The except branch deletes the parent ACK, too.  beeline may have done   *)
(* its work when it is given up.                                           *)
Caught(r) ==
  /\ \E s \in {"dropping", "found", "writing", "written", "registered"} : Script(r, s, "errors")
  /\ registered' \in {registered} \cup
       (IF script[r] = "written" THEN {registered \cup {batch[q].region : q \in rows[r]}} ELSE {})
  /\ ack' \in {FALSE, ack} /\ Forget(r) /\ promised' = [promised EXCEPT ![r] = {}]
  /\ UNCHANGED <<second, schema, dagVars, landVars, orders, crossed>>

(* The process dies with its container. *)
ScriptLost(r) ==
  /\ \E s \in {"begun", "dropping", "found", "writing", "written", "registered"} :
       Script(r, s, "lost")
  /\ Forget(r) /\ promised' = [promised EXCEPT ![r] = {}]
  /\ UNCHANGED <<second, schema, ack, dagVars, landVars, tableVars>>

OrdersNext ==
  \/ Tick \/ StageSchema
  \/ \E r \in Runs :
       \/ Generate(r) \/ OpenCsv(r) \/ CloseCsv(r) \/ PutAck(r) \/ Submit(r)
       \/ ClientReturns(r) \/ VerifyTable(r) \/ TaskFails(r) \/ SubmitByHand(r)
       \/ FetchFiles(r) \/ DropTable(r) \/ NoFiles(r) \/ StartWrite(r) \/ CommitWrite(r)
       \/ Register(r) \/ DeleteAck(r) \/ Caught(r) \/ ScriptLost(r)

OrdersSpec == OrdersInit /\ [][OrdersNext]_orderVars

-----------------------------------------------------------------------------
HadoopTypeOK ==
  /\ second \in 1..MaxClock /\ schema \in {"none", "yaml", "acked"} /\ ack \in BOOLEAN
  /\ files \in [1..MaxClock -> Runs \cup {Nobody}] /\ whole \subseteq 1..MaxClock
  /\ dag \in [Runs -> {"none", "land", "put", "ack", "submit", "spark", "verify", "success",
                       "failed"}]
  /\ batch \in [Runs -> [region : Regions, stamp : 0..MaxClock]] /\ csv \in [Runs -> 1..MaxClock]
  /\ script \in [Runs -> {"none", "begun", "dropping", "found", "writing", "written", "registered",
                          "ok", "errors", "lost"}]
  /\ drop \in [Runs -> BOOLEAN] /\ listed \in [Runs -> SUBSET (1..MaxClock)]
  /\ promised \in [Runs -> SUBSET Runs] /\ rows \in [Runs -> SUBSET Runs]
  /\ orders \in [Regions -> Runs \cup {Nobody}]
  /\ base \in [Runs -> [Regions -> Runs \cup {Nobody}]]
  /\ registered \subseteq Regions /\ crossed \subseteq Runs

(* The batch of q lies in the directory, and t has its order or a newer   *)
(* one of the same region.                                                 *)
Lies(q) == \E n \in whole : files[n] = q

Covers(t, q) ==
  LET g == batch[q].region
  IN t[g] # Nobody /\ batch[t[g]].stamp >= batch[q].stamp

(* "All CSV tables processed successfully" (line 530): every batch that    *)
(* lay whole in the directory when the script listed it, and whose file    *)
(* has not been overwritten since, is in the table and can be queried, and *)
(* no later ingest, which reads the old files again, takes the table back  *)
(* to an older order, whatever DAG runs, timeouts and losses come between; *)
(* unless the script's write met another one or the table was dropped.     *)
OkIsLoaded ==
  \A r \in Runs \ crossed : script[r] = "ok" =>
    \A q \in promised[r] : Lies(q) => batch[q].region \in registered /\ Covers(orders, q)

-----------------------------------------------------------------------------
(* What this rests on.  A file is that of one run, which has opened it     *)
(* once and, if it is whole, has closed it.                                *)
FilesAreTheirRuns ==
  \A n \in 1..MaxClock :
    /\ files[n] # Nobody => csv[files[n]] = n /\ dag[files[n]] \notin {"none", "land"}
    /\ n \in whole => files[n] # Nobody /\ dag[files[n]] # "put"

(* So what a script was promised is not put a second time, and what was    *)
(* read, written or found in the table has been generated for good.        *)
Generated(q) == q # Nobody => dag[q] # "none"

BatchesAreGenerated ==
  /\ \A r \in Runs : \A q \in promised[r] : q \in Runs /\ dag[q] \notin {"none", "land", "put"}
  /\ \A r \in Runs : \A q \in rows[r] : dag[q] # "none"
  /\ \A g \in Regions : Generated(orders[g])
  /\ \A r \in Runs, g \in Regions : Generated(base[r][g])

(* A script still has, at each of its steps, what it was promised.         *)
PromisesAreCarried ==
  \A r \in Runs : \A q \in promised[r] : Lies(q) =>
    /\ script[r] \in {"dropping", "found"} => csv[q] \in listed[r]
    /\ script[r] \in {"writing", "written", "registered"} => q \in rows[r]
    /\ script[r] \in {"registered", "ok"} => batch[q].region \in registered

(* Two writes at once know of each other.                                  *)
WritesMeet ==
  \A p, r \in Runs :
    p # r /\ script[p] = "writing" /\ script[r] = "writing" => p \in crossed /\ r \in crossed

(* What a write that met no other one has committed stays, and whatever is *)
(* being written beside or after it starts from a table that has it.       *)
Keeps(t, r) == \A q \in promised[r] : Lies(q) => Covers(t, q)

CommittedStays ==
  \A r \in Runs \ crossed : script[r] \in {"written", "registered", "ok"} =>
    /\ Keeps(orders, r)
    /\ \A p \in Runs : script[p] = "writing" => Keeps(base[p], r)

(* The inductive invariant behind OkIsLoaded.                              *)
OrdersInv ==
  /\ HadoopTypeOK /\ FilesAreTheirRuns /\ BatchesAreGenerated
  /\ PromisesAreCarried /\ WritesMeet /\ CommittedStays
=============================================================================
