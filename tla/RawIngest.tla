----------------------------- MODULE RawIngest ------------------------------
(***************************************************************************)
(* The raw ingest pipeline of the enterprise-hadoop stack, from the        *)
(* command line or from Airflow: stage 1 (jobs/test_raw_ingest/            *)
(* 01_s3_to_hdfs.py) copies schemas and CSV files from S3 into HDFS, each  *)
(* followed by an ACK, and stage 2 (02_ingest_to_hudi.py) loads the CSV    *)
(* files of every table with a parent ACK.  That one stage 1 does not      *)
(* write; whoever runs the pipeline does.                                  *)
(*                                                                         *)
(* Nothing keeps two runs of the pipeline apart: run_test.sh takes no      *)
(* lock, the DAG may run twice at once and retries a task once, and the    *)
(* first spark-submit goes on in its container when its docker client is   *)
(* lost.  So any number of runs of either stage are under way at a time.   *)
(*                                                                         *)
(* A file is its version: S3 has one, HDFS one that is whole or not, and a *)
(* table one of each of its files.                                         *)
(***************************************************************************)
EXTENDS Naturals

CONSTANTS
  Tables, Csvs,
  TableOf,      \* [Csvs -> Tables]
  MaxVersion,   \* bound: versions of a file in S3
  MaxStages     \* bound: runs of stage 1 and of stage 2

ASSUME RawAssumption ==
  /\ TableOf \in [Csvs -> Tables] /\ Tables \cap Csvs = {}
  /\ MaxVersion \in Nat \ {0} /\ MaxStages \in Nat

Stages == 1..MaxStages

VARIABLES
  s3,        \* [Csvs -> the version in S3]
  hdfs,      \* [Csvs -> the version in HDFS, 0 if there is none]
  wholeCsvs, \* the files in HDFS that are complete
  opener,    \* [Csvs -> the run of stage 1 that was the last to open it, or 0]
  acks,      \* [kinds of ACK -> tables that have one]
  stage,     \* [Stages -> where this run of stage 1 or of stage 2 stands]
  todo,      \* [Stages -> the tables and files that are still before it]
  inHand,    \* [Stages -> the file it is copying or loading, as a set]
  edition,   \* [Stages -> the version it has read of that one]
  owed,      \* [Stages -> history: the versions of the whole files it listed]
  found,     \* [Stages -> what the tables had when its write began]
  loaded,    \* [Csvs -> the version the tables have]
  metWrite   \* history: the loads with a write that met another one

workVars == <<stage, todo, inHand, edition>>
fileVars == <<hdfs, wholeCsvs, opener>>
hudiVars == <<found, loaded, metWrite>>
rawVars == <<s3, fileVars, acks, workVars, owed, hudiVars>>

NoVersions == [c \in Csvs |-> 0]

RawInit ==
  /\ s3 = [c \in Csvs |-> 1] /\ hdfs = NoVersions /\ wholeCsvs = {} /\ opener = NoVersions
  /\ acks = [schema |-> {}, parent |-> {}]
  /\ stage = [s \in Stages |-> "none"] /\ edition = [s \in Stages |-> 0]
  /\ todo = [s \in Stages |-> {}] /\ inHand = todo
  /\ owed = [s \in Stages |-> NoVersions] /\ found = owed
  /\ loaded = NoVersions /\ metWrite = {}

(* What ends puts down what it had in hand. *)
PutDown(s) ==
  /\ inHand' = [inHand EXCEPT ![s] = {}] /\ edition' = [edition EXCEPT ![s] = 0]
  /\ found' = [found EXCEPT ![s] = NoVersions]

NextStage(s) == \A q \in Stages : stage[q] = "none" <=> q >= s

(* Production goes on writing to the bucket. *)
NewVersion(c) ==
  /\ s3[c] < MaxVersion /\ s3' = [s3 EXCEPT ![c] = @ + 1]
  /\ UNCHANGED <<fileVars, acks, workVars, owed, hudiVars>>

(* The parent ACK, by hand. *)
PutParentAck(t) ==
  /\ acks' = [acks EXCEPT !.parent = @ \cup {t}]
  /\ UNCHANGED <<s3, fileVars, workVars, owed, hudiVars>>

-----------------------------------------------------------------------------
(* Stage 1: the schemas first.                                             *)
BeginPush(s) ==
  /\ NextStage(s)
  /\ stage' = [stage EXCEPT ![s] = "schemas"] /\ todo' = [todo EXCEPT ![s] = Tables]
  /\ UNCHANGED <<s3, fileVars, acks, inHand, edition, owed, hudiVars>>

(* A schema that cannot be copied is logged, and gets no ACK. *)
PushSchema(s, t) ==
  /\ stage[s] = "schemas" /\ t \in todo[s]
  /\ IF todo[s] = {t}
     THEN stage' = [stage EXCEPT ![s] = "csvs"] /\ todo' = [todo EXCEPT ![s] = Csvs]
     ELSE todo' = [todo EXCEPT ![s] = @ \ {t}] /\ UNCHANGED stage
  /\ \/ acks' = [acks EXCEPT !.schema = @ \cup {t}]
     \/ UNCHANGED acks
  /\ UNCHANGED <<s3, fileVars, inHand, edition, owed, hudiVars>>

(* get_object: what will be copied is the version of now. *)
GetCsv(s, c) ==
  /\ stage[s] = "csvs" /\ inHand[s] = {} /\ c \in todo[s]
  /\ todo' = [todo EXCEPT ![s] = @ \ {c}]
  /\ inHand' = [inHand EXCEPT ![s] = {c}] /\ edition' = [edition EXCEPT ![s] = s3[c]]
  /\ UNCHANGED <<s3, fileVars, acks, stage, owed, hudiVars>>

(* The file is replaced by an empty one, which is then written chunk by    *)
(* chunk: what was owed of it is not there any more.                       *)
OverwriteCsv(s, c) ==
  /\ stage[s] = "csvs" /\ inHand[s] = {c} /\ stage' = [stage EXCEPT ![s] = "copying"]
  /\ hdfs' = [hdfs EXCEPT ![c] = edition[s]] /\ wholeCsvs' = wholeCsvs \ {c}
  /\ opener' = [opener EXCEPT ![c] = s]
  /\ owed' = [l \in Stages |-> [owed[l] EXCEPT ![c] = 0]]
  /\ UNCHANGED <<s3, acks, todo, inHand, edition, hudiVars>>

(* A copy that fails, as it does when another run has opened the file      *)
(* since, is left as it is, with a .err beside it that stage 2 does not    *)
(* look at, no more than at the .csv.ack of a whole one.                   *)
PushEnds(s, c) ==
  /\ stage[s] \in {"csvs", "copying"} /\ inHand[s] = {c}
  /\ stage' = [stage EXCEPT ![s] = "csvs"] /\ PutDown(s)
  /\ \/ UNCHANGED wholeCsvs
     \/ stage[s] = "copying" /\ opener[c] = s /\ wholeCsvs' = wholeCsvs \cup {c}
  /\ UNCHANGED <<s3, hdfs, opener, acks, todo, owed, loaded, metWrite>>

(* main ends with exit code 1 when no CSV file was copied; lost, it stops  *)
(* anywhere.                                                               *)
EndPush(s) ==
  /\ stage[s] \in {"schemas", "csvs", "copying"} /\ stage' = [stage EXCEPT ![s] = "over"]
  /\ todo' = [todo EXCEPT ![s] = {}] /\ PutDown(s)
  /\ UNCHANGED <<s3, fileVars, acks, owed, loaded, metWrite>>

-----------------------------------------------------------------------------
(* Stage 2 takes every table with a parent ACK, those without files or     *)
(* without a schema included; with no schema or no ACK at all it exits 1.  *)
Ready(c) == TableOf[c] \in acks.parent \cap acks.schema

BeginLoad(s) ==
  /\ NextStage(s)
  /\ IF acks.parent # {} /\ acks.schema # {}
     THEN /\ stage' = [stage EXCEPT ![s] = "loading"]
          /\ todo' = [todo EXCEPT ![s] = acks.parent \cup {c \in Csvs : Ready(c) /\ hdfs[c] # 0}]
          /\ owed' = [owed EXCEPT ![s] =
                       [c \in Csvs |-> IF Ready(c) /\ c \in wholeCsvs THEN hdfs[c] ELSE 0]]
     ELSE stage' = [stage EXCEPT ![s] = "over"] /\ UNCHANGED <<todo, owed>>
  /\ UNCHANGED <<s3, fileVars, acks, inHand, edition, hudiVars>>

(* A load that has failed in one table goes on with the others. *)
Loading(s) == stage[s] \in {"loading", "failing"}

(* The writers to the table of c, at this moment. *)
Writers(c) == {s \in Stages : Loading(s) /\ \E d \in inHand[s] : TableOf[d] = TableOf[c]}

(* One file after the other is read and upserted; an unfinished one gives  *)
(* only a part, which is no version.                                       *)
StartCsv(s, c) ==
  /\ Loading(s) /\ inHand[s] = {} /\ {c, TableOf[c]} \subseteq todo[s]
  /\ inHand' = [inHand EXCEPT ![s] = {c}]
  /\ edition' = [edition EXCEPT ![s] = IF c \in wholeCsvs THEN hdfs[c] ELSE 0]
  /\ found' = [found EXCEPT ![s] = loaded]
  /\ metWrite' = IF Writers(c) = {} THEN metWrite ELSE metWrite \cup Writers(c) \cup {s}
  /\ UNCHANGED <<s3, fileVars, acks, stage, todo, owed, loaded>>

(* No concurrency control is configured: a write that met another one may  *)
(* put its file on the table as it found it.  A file that was overwritten  *)
(* in the meantime may have been read in part.                             *)
Written(s, c) ==
  LET from == {loaded} \cup (IF s \in metWrite THEN {found[s]} ELSE {})
      read == {edition[s]} \cup (IF c \in wholeCsvs /\ hdfs[c] = edition[s] THEN {} ELSE {0})
  IN {[d \in Csvs |-> IF TableOf[d] # TableOf[c] THEN loaded[d]
                      ELSE IF d = c /\ v # 0 THEN v ELSE t[d]] : t \in from, v \in read}

(* What is left to do when c is loaded: a table ends with its last file.   *)
After(s, c) ==
  LET t == TableOf[c]
  IN todo[s] \ (IF \E d \in Csvs \ {c} : TableOf[d] = t /\ d \in todo[s] THEN {c} ELSE {c, t})

CommitCsv(s, c) ==
  /\ Loading(s) /\ inHand[s] = {c} /\ loaded' \in Written(s, c)
  /\ todo' = [todo EXCEPT ![s] = After(s, c)] /\ PutDown(s)
  /\ UNCHANGED <<s3, fileVars, acks, stage, owed, metWrite>>

(* ingest_table raises, as it does when there is no file, and the next     *)
(* table is tried.  A write that raises may have been committed: the Hive  *)
(* sync comes after.                                                       *)
FailTable(s, t) ==
  /\ Loading(s) /\ t \in todo[s] \cap acks.schema /\ \A c \in inHand[s] : TableOf[c] = t
  /\ stage' = [stage EXCEPT ![s] = "failing"]
  /\ todo' = [todo EXCEPT ![s] = {x \in @ \ {t} : x \in Tables \/ TableOf[x] # t}]
  /\ loaded' \in {loaded} \cup UNION {Written(s, c) : c \in inHand[s]}
  /\ owed' = [owed EXCEPT ![s] = NoVersions] /\ PutDown(s)
  /\ UNCHANGED <<s3, fileVars, acks, metWrite>>

(* One failed table is enough for exit code 1.  A table without a schema   *)
(* is a KeyError outside the try; and the process may be lost.             *)
EndLoad(s) ==
  /\ Loading(s)
  /\ \/ stage[s] = "loading" /\ todo[s] = {} /\ stage' = [stage EXCEPT ![s] = "complete"]
        /\ UNCHANGED owed
     \/ stage' = [stage EXCEPT ![s] = "over"] /\ owed' = [owed EXCEPT ![s] = NoVersions]
  /\ todo' = [todo EXCEPT ![s] = {}] /\ PutDown(s)
  /\ UNCHANGED <<s3, fileVars, acks, loaded, metWrite>>

RawNext ==
  \/ \E c \in Csvs : NewVersion(c)
  \/ \E t \in Tables : PutParentAck(t)
  \/ \E s \in Stages :
       \/ BeginPush(s) \/ EndPush(s) \/ BeginLoad(s) \/ EndLoad(s)
       \/ \E t \in Tables : PushSchema(s, t) \/ FailTable(s, t)
       \/ \E c \in Csvs : \/ GetCsv(s, c) \/ OverwriteCsv(s, c) \/ PushEnds(s, c)
                          \/ StartCsv(s, c) \/ CommitCsv(s, c)

RawSpec == RawInit /\ [][RawNext]_rawVars

-----------------------------------------------------------------------------
RawTypeOK ==
  /\ s3 \in [Csvs -> 1..MaxVersion] /\ hdfs \in [Csvs -> 0..MaxVersion] /\ wholeCsvs \subseteq Csvs
  /\ opener \in [Csvs -> 0..MaxStages]
  /\ acks \in [schema : SUBSET Tables, parent : SUBSET Tables]
  /\ stage \in [Stages -> {"none", "schemas", "csvs", "copying", "over", "loading", "failing",
                           "complete"}]
  /\ todo \in [Stages -> SUBSET (Tables \cup Csvs)] /\ inHand \in [Stages -> SUBSET Csvs]
  /\ edition \in [Stages -> 0..MaxVersion] /\ loaded \in [Csvs -> 0..MaxVersion]
  /\ owed \in [Stages -> [Csvs -> 0..MaxVersion]] /\ found \in [Stages -> [Csvs -> 0..MaxVersion]]
  /\ metWrite \subseteq Stages

(* "=== Stage 2 complete ===": every file that was whole when this run of  *)
(* stage 2 listed the directory is loaded in that version or a later one,  *)
(* unless a run of stage 1 has overwritten it since, and no other run of   *)
(* stage 2, before or after, takes it back; unless a write of this run met *)
(* another one of the same table.                                          *)
CompleteIsLoaded ==
  \A s \in Stages \ metWrite : stage[s] = "complete" => \A c \in Csvs : loaded[c] >= owed[s][c]

(* What this rests on.  A version that is owed is still the one in HDFS,   *)
(* and whole, and whoever is loading the file has read it.                 *)
OwedIsThere ==
  \A s \in Stages, c \in Csvs : owed[s][c] # 0 =>
    /\ stage[s] # "none" /\ c \in wholeCsvs /\ owed[s][c] = hdfs[c]
    /\ Loading(s) /\ c \in inHand[s] => edition[s] = hdfs[c]

(* A run has one file in hand, and it is one that is still to be loaded.   *)
OneInHand ==
  \A s \in Stages :
    /\ stage[s] = "none" => inHand[s] = {}
    /\ \A c \in inHand[s] : inHand[s] = {c} /\ (Loading(s) => {c, TableOf[c]} \subseteq todo[s])

(* Two writes to one table at once know of each other.                     *)
CsvWritesMeet ==
  \A s, q \in Stages, c \in Csvs : s # q /\ {s, q} \subseteq Writers(c) => {s, q} \subseteq metWrite

(* A load without errors has loaded c, if it ever had it before it.        *)
HasLoaded(s, c) ==
  s \notin metWrite /\ (stage[s] = "complete" \/ (stage[s] = "loading" /\ c \notin todo[s]))

(* What it loaded stays, and whatever is being written beside or after it  *)
(* starts from a table that has it, and from a file that does.             *)
LoadedStays ==
  \A s \in Stages, c \in Csvs : HasLoaded(s, c) =>
    /\ loaded[c] >= owed[s][c]
    /\ \A q \in Writers(c) :
         found[q][c] >= owed[s][c] /\ (c \in inHand[q] => edition[q] = 0 \/ edition[q] >= owed[s][c])

(* The inductive invariant behind CompleteIsLoaded.                        *)
RawInv == RawTypeOK /\ OwedIsThere /\ OneInHand /\ CsvWritesMeet /\ LoadedStays
=============================================================================
