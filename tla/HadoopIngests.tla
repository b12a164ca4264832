---------------------------- MODULE HadoopIngests ----------------------------
(***************************************************************************)
(* The two ingest pipelines of the enterprise-hadoop stack side by side.   *)
(* They write to one HDFS and one Hive, under directories and tables of    *)
(* their own: the conjunction of their specifications composes them.       *)
(***************************************************************************)
EXTENDS HadoopIngest, RawIngest

(* An ingest that says it is complete has loaded what it found, and no     *)
(* later one takes it back: "All CSV tables processed successfully" of the *)
(* orders script, "=== Stage 2 complete ===" of the raw pipeline.          *)
IngestsAreLoaded == OkIsLoaded /\ CompleteIsLoaded
=============================================================================
