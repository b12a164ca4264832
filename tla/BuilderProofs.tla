---------------------------- MODULE BuilderProofs ----------------------------
(***************************************************************************)
(* Whatever is selected, and however much of it, the stack that is built   *)
(* has what it needs; and a bootstrap script that reaches its end leaves   *)
(* what the smoke script asks for, however often it was stopped, run again *)
(* or put on new containers.                                               *)
(***************************************************************************)
EXTENDS StackBuilder, StackScripts, TLAPS

-----------------------------------------------------------------------------
(* The registry *)

(* Each component is found in its group.                                   *)
LEMMA TableLookup ==
  ASSUME NEW c \in Ids
  PROVE  /\ c \in Stores => COMPONENTS[c] = Store(c)
         /\ c \in Catalogs => COMPONENTS[c] = Catalog(c)
         /\ c \in Sparks => COMPONENTS[c] = SparkOf(c)
         /\ c \in Streams => COMPONENTS[c] = Stream(c)
         /\ c \in Orchestrators => COMPONENTS[c] = Orchestrator(c)
         /\ c \in Watchers => COMPONENTS[c] = Watcher(c)
         /\ c \in Hadoop => COMPONENTS[c] = HadoopPart(c)
         /\ c \in Extras => COMPONENTS[c] = Extra(c)
BY DEF COMPONENTS, Ids, Stores, Catalogs, Sparks, Streams, Orchestrators, Watchers, Hadoop, Extras

(* Who publishes which port of the host.                                   *)
LEMMA PortsOfTheTable ==
  ASSUME NEW c \in Ids, NEW p \in COMPONENTS[c].ports
  PROVE  \/ c = "minio" /\ p \in {9000, 9001}
         \/ c = "hdfs" /\ p \in {9870, 9864, 8020}
         \/ c = "postgres" /\ p = 5533
         \/ c = "hive-metastore" /\ p = 9083
         \/ c = "nessie" /\ p = 19120
         \/ c \in {"iceberg-rest", "polaris"} /\ p \in {8181, 8182}
         \/ c \in Sparks /\ p \in {7077, 8888, 4040, 18080}
         \/ c \in {"trino", "trino-enterprise"} /\ p = 8285
         \/ c = "starrocks" /\ p \in {8030, 9030, 8040, 9040}
         \/ c = "kafka" /\ p \in {9092, 9101}
         \/ c = "zookeeper" /\ p = 2181
         \/ c = "flink" /\ p \in {8180, 6123}
         \/ c \in {"kafka-connect", "debezium"} /\ p = 8083
         \/ c = "airflow" /\ p = 8090
         \/ c = "dagster" /\ p = 3001
         \/ c = "dbt" /\ p = 8585
         \/ c = "solr" /\ p = 8983
         \/ c = "pgbouncer" /\ p = 5433
         \/ c = "prometheus" /\ p = 9090
         \/ c = "grafana" /\ p = 3010
         \/ c = "loki" /\ p = 3100
         \/ c = "superset" /\ p = 8089
         \/ c = "hadoop-yarn" /\ p = 8188
         \/ c = "hadoop-yarn-nm" /\ p = 8042
         \/ c = "hive" /\ p \in {10000, 10002}
         \/ c = "ranger-admin" /\ p = 6080
         \/ c = "jupyter" /\ p = 8889
         \/ c = "openlineage" /\ p \in {5000, 5001}
<1>1. CASE c \in Stores
  BY <1>1, TableLookup DEF Stores, Store, Component
<1>2. CASE c \in Catalogs
  BY <1>2, TableLookup DEF Catalogs, Catalog, Component
<1>3. CASE c \in Sparks
  BY <1>3, TableLookup DEF Sparks, SparkOf, Component, Spark, SparkPorts, SparkFiles
<1>4. CASE c \in Streams
  BY <1>4, TableLookup DEF Streams, Stream, Component
<1>5. CASE c \in Orchestrators
  BY <1>5, TableLookup DEF Orchestrators, Orchestrator, Component
<1>6. CASE c \in Watchers
  BY <1>6, TableLookup DEF Watchers, Watcher, Component
<1>7. CASE c \in Hadoop
  BY <1>7, TableLookup DEF Hadoop, HadoopPart, Component
<1>8. CASE c \in Extras
  BY <1>8, TableLookup DEF Extras, Extra, Component
<1> QED  BY <1>1, <1>2, <1>3, <1>4, <1>5, <1>6, <1>7, <1>8 DEF Ids

(* Components that publish the same port are kept apart by the picker, but *)
(* for the REST catalog and Polaris.                                       *)
LEMMA PortsAreApart ==
  ASSUME NEW c \in Ids, NEW d \in Ids, c # d,
         COMPONENTS[c].ports \cap COMPONENTS[d].ports # {}
  PROVE  {c, d} \in _MUTUALLY_EXCLUSIVE \cup {{"iceberg-rest", "polaris"}}
<1>1. PICK p : p \in COMPONENTS[c].ports /\ p \in COMPONENTS[d].ports
  OBVIOUS
<1>2. \/ c \in Sparks /\ d \in Sparks
      \/ c \in {"iceberg-rest", "polaris"} /\ d \in {"iceberg-rest", "polaris"}
      \/ c \in {"trino", "trino-enterprise"} /\ d \in {"trino", "trino-enterprise"}
      \/ c \in {"kafka-connect", "debezium"} /\ d \in {"kafka-connect", "debezium"}
  BY <1>1, PortsOfTheTable
<1> QED  BY <1>2 DEF Sparks, _MUTUALLY_EXCLUSIVE

(* What depends on what.                                                   *)
LEMMA DepsOfTheTable ==
  ASSUME NEW c \in Ids, NEW d \in COMPONENTS[c].deps
  PROVE  \/ c \in {"minio-create-bucket", "iceberg-rest", "polaris"} /\ d = "minio"
         \/ c \in Sparks /\ d = "minio-create-bucket"
         \/ c = "hive-metastore" /\ d = "mysql-hms"
         \/ c \in {"hive", "trino-enterprise"} /\ d = "hive-metastore"
         \/ c = "kafka" /\ d = "zookeeper"
         \/ c \in {"flink", "kafka-connect", "debezium"} /\ d = "kafka"
         \/ d = "postgres" /\ c \in {"airflow", "dagster", "pgbouncer", "superset", "ranger-admin",
                                     "openlineage"}
         \/ c = "dbt" /\ d = "trino"
         \/ c = "grafana" /\ d = "prometheus"
         \/ c \in {"hadoop-yarn", "hive", "tez"} /\ d = "hdfs"
         \/ c \in {"hadoop-yarn-nm", "tez"} /\ d = "hadoop-yarn"
<1>1. CASE c \in Stores
  BY <1>1, TableLookup DEF Stores, Store, Component
<1>2. CASE c \in Catalogs
  BY <1>2, TableLookup DEF Catalogs, Catalog, Component
<1>3. CASE c \in Sparks
  BY <1>3, TableLookup DEF Sparks, SparkOf, Component, Spark, SparkPorts, SparkFiles
<1>4. CASE c \in Streams
  BY <1>4, TableLookup DEF Streams, Stream, Component
<1>5. CASE c \in Orchestrators
  BY <1>5, TableLookup DEF Orchestrators, Orchestrator, Component
<1>6. CASE c \in Watchers
  BY <1>6, TableLookup DEF Watchers, Watcher, Component
<1>7. CASE c \in Hadoop
  BY <1>7, TableLookup DEF Hadoop, HadoopPart, Component
<1>8. CASE c \in Extras
  BY <1>8, TableLookup DEF Extras, Extra, Component
<1> QED  BY <1>1, <1>2, <1>3, <1>4, <1>5, <1>6, <1>7, <1>8 DEF Ids

(* The place of an id is where the order names it, since it names each id  *)
(* once.                                                                   *)
LEMMA PlacesOfTheOrder ==
  ASSUME NEW i \in 1..Len(order), order[i] \in Ids
  PROVE  Position[order[i]] = i
<1>1. \A j \in 1..Len(order) : order[j] = order[i] => j = i
  BY DEF order
<1> QED  BY <1>1 DEF Position

(* What a component depends on comes before it.                            *)
LEMMA DepsComeBefore ==
  ASSUME NEW c \in Ids, NEW d \in COMPONENTS[c].deps
  PROVE  Position[d] < Position[c]
<1> DEFINE At(x, i) == i \in 1..Len(order) /\ order[i] = x /\ x \in Ids
<1>1. \A x, i : At(x, i) => Position[x] = i
  BY PlacesOfTheOrder
<1>2. /\ At("zookeeper", 1) /\ At("postgres", 2) /\ At("mysql-hms", 3)
      /\ At("minio", 5) /\ At("hdfs", 6) /\ At("minio-create-bucket", 7)
      /\ At("hive-metastore", 8) /\ At("iceberg-rest", 10) /\ At("polaris", 11)
      /\ At("hadoop-yarn", 12) /\ At("hadoop-yarn-nm", 13) /\ At("spark", 14)
      /\ At("spark-hudi", 15) /\ At("spark-delta", 16) /\ At("spark-iceberg", 17)
      /\ At("hive", 18) /\ At("tez", 19) /\ At("kafka", 20)
      /\ At("debezium", 21) /\ At("flink", 22) /\ At("kafka-connect", 23)
      /\ At("trino", 24) /\ At("trino-enterprise", 25) /\ At("ranger-admin", 27)
      /\ At("prometheus", 28) /\ At("grafana", 29) /\ At("airflow", 31)
      /\ At("dagster", 32) /\ At("dbt", 33) /\ At("openlineage", 34)
      /\ At("pgbouncer", 35) /\ At("superset", 36)
  BY DEF order, Ids, Stores, Catalogs, Sparks, Streams, Orchestrators, Watchers, Hadoop, Extras
<1> HIDE DEF At
<1>3. /\ Position["zookeeper"] = 1 /\ Position["postgres"] = 2 /\ Position["mysql-hms"] = 3
      /\ Position["minio"] = 5 /\ Position["hdfs"] = 6
      /\ Position["minio-create-bucket"] = 7 /\ Position["hive-metastore"] = 8
      /\ Position["iceberg-rest"] = 10 /\ Position["polaris"] = 11
      /\ Position["hadoop-yarn"] = 12 /\ Position["hadoop-yarn-nm"] = 13
      /\ Position["spark"] = 14 /\ Position["spark-hudi"] = 15
      /\ Position["spark-delta"] = 16 /\ Position["spark-iceberg"] = 17
      /\ Position["hive"] = 18 /\ Position["tez"] = 19
      /\ Position["kafka"] = 20 /\ Position["debezium"] = 21
      /\ Position["flink"] = 22 /\ Position["kafka-connect"] = 23
      /\ Position["trino"] = 24 /\ Position["trino-enterprise"] = 25
      /\ Position["ranger-admin"] = 27 /\ Position["prometheus"] = 28
      /\ Position["grafana"] = 29 /\ Position["airflow"] = 31
      /\ Position["dagster"] = 32 /\ Position["dbt"] = 33
      /\ Position["openlineage"] = 34 /\ Position["pgbouncer"] = 35
      /\ Position["superset"] = 36
  BY <1>1, <1>2
<1> QED  BY <1>3, DepsOfTheTable DEF Sparks

LEMMA DependsOnIds ==
  ASSUME NEW c \in Ids
  PROVE  COMPONENTS[c].deps \subseteq Ids \ ExperimentalIds
BY DepsOfTheTable DEF Ids, ExperimentalIds, Stores, Catalogs, Sparks, Streams, Orchestrators,
                      Watchers, Hadoop, Extras

LEMMA AutoDepsAreIds ==
  ASSUME NEW role
  PROVE  _AUTO_DEPS(role) \subseteq Ids \ ExperimentalIds
BY DEF _AUTO_DEPS, Bucket, Ids, ExperimentalIds,
       Stores, Catalogs, Sparks, Streams, Orchestrators, Watchers, Hadoop, Extras

(* Nothing needs what is experimental.                                     *)
LEMMA NeedsAreIds ==
  ASSUME NEW c \in Ids
  PROVE  Needs(c) \subseteq Ids \ ExperimentalIds
BY DependsOnIds, AutoDepsAreIds DEF Needs

(* Who mounts which file.                                                  *)
LEMMA FilesOfTheTable ==
  ASSUME NEW c \in Ids, NEW f \in COMPONENTS[c].files
  PROVE  \/ f \in YarnFiles \cup {"hive-site.xml", "hiveserver2-site.xml", "dbt/profiles.yml"}
         \/ f = "spark-defaults.conf" /\ "spark_engine" \in COMPONENTS[c].roles
         \/ f = "hive-metastore-site.xml" /\ c = "hive-metastore"
         \/ f = "nessie.properties" /\ c = "nessie"
         \/ f = "tez-site.xml" /\ c = "tez"
         \/ f = "workspace.yaml" /\ c = "dagster"
         \/ f = "prometheus.yml" /\ c = "prometheus"
         \/ f = "loki.yml" /\ c = "loki"
<1>1. CASE c \in Stores
  BY <1>1, TableLookup DEF Stores, Store, Component, YarnFiles, HadoopFiles
<1>2. CASE c \in Catalogs
  BY <1>2, TableLookup DEF Catalogs, Catalog, Component, YarnFiles, HadoopFiles
<1>3. CASE c \in Sparks
  BY <1>3, TableLookup DEF Sparks, SparkOf, Component, Spark, SparkPorts, SparkFiles, YarnFiles,
                           HadoopFiles
<1>4. CASE c \in Streams
  BY <1>4, TableLookup DEF Streams, Stream, Component, YarnFiles, HadoopFiles
<1>5. CASE c \in Orchestrators
  BY <1>5, TableLookup DEF Orchestrators, Orchestrator, Component, YarnFiles, HadoopFiles
<1>6. CASE c \in Watchers
  BY <1>6, TableLookup DEF Watchers, Watcher, Component, YarnFiles, HadoopFiles
<1>7. CASE c \in Hadoop
  BY <1>7, TableLookup DEF Hadoop, HadoopPart, Component, YarnFiles, HadoopFiles
<1>8. CASE c \in Extras
  BY <1>8, TableLookup DEF Extras, Extra, Component, YarnFiles, HadoopFiles
<1> QED  BY <1>1, <1>2, <1>3, <1>4, <1>5, <1>6, <1>7, <1>8 DEF Ids

(* Files that are written whatever the AI was asked, and the one of dbt,   *)
(* which it is asked for under another path.                               *)
Unasked == {"hive-site.xml", "hiveserver2-site.xml", "dbt/profiles.yml"}

(* A file that a component mounts, and that composition expects to be      *)
(* there, is among those the AI is asked for.                              *)
LEMMA MountedIsAsked ==
  ASSUME NEW R, R \subseteq Ids, NEW c \in R, NEW f \in COMPONENTS[c].files,
         WillBeGenerated(f, R)
  PROVE  f \in Asked(R) \cup Unasked
<1>1. CASE f \in HadoopFiles
  BY <1>1 DEF WillBeGenerated, Asked
<1>2. CASE f \in YarnFiles \ HadoopFiles
  BY <1>2 DEF WillBeGenerated, Asked
<1>3. CASE f \notin YarnFiles
  BY <1>3, FilesOfTheTable DEF Asked, Unasked
<1> QED  BY <1>1, <1>2, <1>3

-----------------------------------------------------------------------------
(* The selection *)

(* What came in while the dependencies were followed is needed by what is  *)
(* there; where they have been followed, nothing is missing.               *)
NothingIdle ==
  stage \in {"resolving", "resolved"} =>
    \A c \in result \ selected : \E d \in result : c \in Needs(d)

NothingMissing ==
  Resolved => \A c \in result :
    Needs(c) \subseteq result \cup IF result \cap HdfsFamily # {} THEN Bucket ELSE {}

(* The files a composed stack mounts are those the AI is asked for.        *)
MountsAreAsked ==
  /\ stage \in {"composed", "configured"} => mounts \subseteq Asked(result) \cup Unasked
  /\ (stage = "configured" /\ answered) => Asked(result) \subseteq written

BuilderInv ==
  StackTypeOK /\ NothingIdle /\ NothingMissing /\ MountsAreAsked /\ MountsAreWritten

LEMMA BuilderStarts == BuilderInit => BuilderInv
BY DEF BuilderInit, BuilderInv, StackTypeOK, NothingIdle, NothingMissing, Resolved, MountsAreAsked,
       MountsAreWritten

LEMMA PickingKeeps ==
  ASSUME BuilderInv,
         \/ \E id \in Ids : _sbToggle(id) \/ PreInstallAdd(id)
         \/ RequestBuild
  PROVE  BuilderInv'
<1>1. /\ StackTypeOK /\ stage = "picking" /\ stage' \in {"picking", "resolving"}
      /\ stage' = "resolving" => result' = selected'
      /\ UNCHANGED <<experimental, answered, metastore>>
  BY DEF BuilderInv, _sbToggle, PreInstallAdd, RequestBuild
<1>2. selected' \subseteq Ids /\ result' \subseteq Ids
  <2>1. ASSUME NEW id \in Ids, _sbToggle(id)
        PROVE  selected' \subseteq Ids /\ result' \subseteq Ids
    BY <1>1, <2>1 DEF StackTypeOK, _sbToggle
  <2>2. ASSUME NEW id \in Ids, PreInstallAdd(id)
        PROVE  selected' \subseteq Ids /\ result' \subseteq Ids
    BY <1>1, <2>2 DEF StackTypeOK, PreInstallAdd
  <2>3. CASE RequestBuild
    BY <1>1, <2>3 DEF StackTypeOK, RequestBuild
  <2> QED  BY <2>1, <2>2, <2>3
<1>3. StackTypeOK'
  BY <1>1, <1>2 DEF StackTypeOK
<1>4. NothingIdle' /\ NothingMissing' /\ MountsAreAsked' /\ MountsAreWritten'
  BY <1>1 DEF NothingIdle, NothingMissing, Resolved, MountsAreAsked, MountsAreWritten
<1> QED  BY <1>3, <1>4 DEF BuilderInv

(* Each pass adds what is needed; the last one finds nothing to add.       *)
LEMMA PassKeeps ==
  ASSUME BuilderInv, Pass
  PROVE  BuilderInv'
<1> DEFINE skipped == IF result \cap HdfsFamily # {} THEN Bucket ELSE {}
<1>1. /\ StackTypeOK /\ stage = "resolving" /\ stage' \in {"resolving", "resolved"}
      /\ result' = result \cup Additions(result)
      /\ stage' = "resolved" => Additions(result) = {}
      /\ UNCHANGED <<selected, experimental, answered, metastore>>
  BY DEF Pass, BuilderInv
<1>2. \A x \in Additions(result) : \E d \in result : x \in Needs(d)
  BY DEF Additions
<1>3. result \subseteq Ids /\ Additions(result) \subseteq Ids
  BY <1>1, <1>2, NeedsAreIds DEF StackTypeOK
<1>4. StackTypeOK'
  BY <1>1, <1>3 DEF StackTypeOK
<1>5. NothingIdle'
  BY <1>1, <1>2 DEF NothingIdle, BuilderInv
<1>6. NothingMissing'
  <2> SUFFICES ASSUME stage' = "resolved", NEW c \in result
               PROVE  Needs(c) \subseteq result \cup skipped
    BY <1>1 DEF NothingMissing, Resolved
  <2>1. Additions(result) = {}
    BY <1>1
  <2> SUFFICES ASSUME NEW x \in Needs(c), x \notin result \cup skipped
               PROVE  x \in Additions(result)
    BY <2>1
  <2>2. x \in UNION {Needs(d) : d \in result}
    OBVIOUS
  <2> QED  BY <2>2 DEF Additions
<1>7. MountsAreAsked' /\ MountsAreWritten'
  BY <1>1 DEF MountsAreAsked, MountsAreWritten
<1> QED  BY <1>4, <1>5, <1>6, <1>7 DEF BuilderInv

(* What is experimental is left out of the file, and nothing needs it.     *)
LEMMA ComposeKeeps ==
  ASSUME BuilderInv, WriteCompose
  PROVE  BuilderInv'
<1>1. /\ StackTypeOK /\ stage = "resolved" /\ stage' = "composed"
      /\ result' = result \ (IF experimental THEN {} ELSE ExperimentalIds)
      /\ mounts' = {f \in UNION {COMPONENTS[c].files : c \in result'} :
                      WillBeGenerated(f, result')}
      /\ UNCHANGED <<selected, experimental, answered, metastore>>
  BY DEF WriteCompose, BuilderInv
<1>2. result' \subseteq result /\ result \subseteq Ids
  BY <1>1 DEF StackTypeOK
<1>3. result' \cap HdfsFamily = result \cap HdfsFamily
  BY <1>1 DEF ExperimentalIds, HdfsFamily
<1>4. NothingMissing'
  <2> SUFFICES ASSUME NEW c \in result'
               PROVE  Needs(c) \subseteq result' \cup
                        IF result \cap HdfsFamily # {} THEN Bucket ELSE {}
    BY <1>3 DEF NothingMissing
  <2>1. Needs(c) \subseteq result \cup IF result \cap HdfsFamily # {} THEN Bucket ELSE {}
    BY <1>1, <1>2 DEF BuilderInv, NothingMissing, Resolved
  <2>2. Needs(c) \cap ExperimentalIds = {}
    BY <1>2, NeedsAreIds
  <2> QED  BY <1>1, <2>1, <2>2
<1>5. mounts' \subseteq Asked(result') \cup Unasked
  BY <1>1, <1>2, MountedIsAsked
<1>6. StackTypeOK' /\ NothingIdle' /\ MountsAreAsked' /\ MountsAreWritten'
  BY <1>1, <1>2, <1>5 DEF StackTypeOK, NothingIdle, MountsAreAsked, MountsAreWritten
<1> QED  BY <1>4, <1>6 DEF BuilderInv

LEMMA ConfigsKeep ==
  ASSUME BuilderInv, WriteConfigs
  PROVE  BuilderInv'
BY DEF BuilderInv, WriteConfigs, StackTypeOK, NothingIdle, NothingMissing, Resolved, MountsAreAsked,
       MountsAreWritten

LEMMA PatchesKeep ==
  ASSUME BuilderInv, ApplyPostWritePatches
  PROVE  BuilderInv'
<1>1. stage = "configured" /\ stage' = "patched"
      /\ UNCHANGED <<selected, experimental, result, answered, metastore>>
  BY DEF ApplyPostWritePatches
<1>2. MountsAreWritten'
  <2> SUFFICES ASSUME answered
               PROVE  mounts' \subseteq written' \cup {"dbt/profiles.yml"}
                        \cup IF metastore THEN {} ELSE {"mysql-connector.jar"}
    BY <1>1 DEF MountsAreWritten
  <2>1. mounts \subseteq written \cup Unasked
    BY <1>1 DEF BuilderInv, MountsAreAsked
  <2> QED  BY <2>1 DEF ApplyPostWritePatches, Unasked
<1>3. StackTypeOK' /\ NothingIdle' /\ NothingMissing' /\ MountsAreAsked'
  BY <1>1 DEF BuilderInv, StackTypeOK, NothingIdle, NothingMissing, Resolved, MountsAreAsked
<1> QED  BY <1>2, <1>3 DEF BuilderInv

(* Whatever was picked, and however much: every service of the compose     *)
(* file has what it needs and comes after what it depends on, ports are    *)
(* published twice only by the pair that may, and the files that are       *)
(* mounted are there when the AI answered in full.                         *)
THEOREM SelectionsAreSound == BuilderSpec => []SelectionIsSound
<1>1. BuilderInv /\ [BuilderNext]_builderVars => BuilderInv'
  <2> SUFFICES ASSUME BuilderInv, [BuilderNext]_builderVars
               PROVE  BuilderInv'
    OBVIOUS
  <2>1. CASE UNCHANGED builderVars
    BY <2>1 DEF builderVars, BuilderInv, StackTypeOK, NothingIdle, NothingMissing, Resolved,
                MountsAreAsked, MountsAreWritten
  <2>2. CASE BuilderNext
    BY <2>2, PickingKeeps, PassKeeps, ComposeKeeps, ConfigsKeep, PatchesKeep DEF BuilderNext
  <2> QED  BY <2>1, <2>2
<1>2. BuilderInv => SelectionIsSound
  <2> SUFFICES ASSUME BuilderInv
               PROVE  SelectionIsSound
    OBVIOUS
  <2>1. result \subseteq Ids
    BY DEF BuilderInv, StackTypeOK
  <2>2. ResolutionIsSound
    BY <2>1, DepsComeBefore DEF ResolutionIsSound, BuilderInv, NothingMissing, NothingIdle
  <2>3. ClashesAreExcluded
    BY <2>1, PortsAreApart DEF ClashesAreExcluded
  <2> QED  BY <2>2, <2>3 DEF SelectionIsSound, BuilderInv
<1> QED  BY <1>1, <1>2, BuilderStarts, PTL DEF BuilderSpec

-----------------------------------------------------------------------------
(* The scripts *)

(* The steps that the script is past, or has ended with.                   *)
PastSteps ==
  {Script[stackId][i] : i \in {k \in 1..Len(Script[stackId]) :
                                phase = "done" \/ (phase = "running" /\ k < at)}}

LakeTypeOK ==
  /\ lake \in [bucket : BOOLEAN, raw : Int, curated : Int, tez : BOOLEAN]
  /\ jobs \in [Runs -> Nat] /\ beside \in BOOLEAN /\ unnoticed \in BOOLEAN

ScriptsTypeOK ==
  /\ stackId \in DOMAIN Script /\ phase \in {"idle", "running", "done"}
  /\ at \in 1..Len(Script[stackId])
  /\ runNo \in 0..MaxScripts /\ (phase = "running" => runNo \in Runs)
  /\ LakeTypeOK
  /\ trino \in [file : BOOLEAN, listener : BOOLEAN, up : BOOLEAN, loaded : BOOLEAN]
  /\ starrocks \in [backend : BOOLEAN, catalog : Int, view : BOOLEAN]
  /\ polaris \in [catalog : BOOLEAN, secret : Int, hand : Int, grants : SUBSET Grants, creds : Int]
  /\ streaming \in [orders : Nat, created : Nat, running : Nat, rows : Nat]

(* Only the Trino stack has a listener, and only Polaris has secrets.      *)
OthersHaveNone ==
  /\ stackId # "trino" => lineage = "none" /\ ~trino.listener
  /\ stackId # "polaris" => polaris.hand = NoKey

(* A Trino that was restarted has loaded the catalog, or its listener      *)
(* keeps it from starting; the safety net takes that one away.             *)
TrinoFollows ==
  /\ "catalog_file" \in PastSteps => trino.file
  /\ "restart" \in PastSteps => trino.loaded = trino.up /\ (trino.up \/ trino.listener)
  /\ "safety_net" \in PastSteps => trino.loaded

(* StarRocks has its backend, and a catalog with the credentials that are  *)
(* in force.                                                               *)
StarRocksFollows ==
  /\ "backend" \in PastSteps /\ ~unnoticed => starrocks.backend
  /\ "catalog" \in PastSteps => CatalogWorks
  /\ "view" \in PastSteps => starrocks.view
  /\ "hudi_catalog" \in PastSteps /\ ~unnoticed => starrocks.catalog # Absent

PolarisFollows ==
  /\ "principal" \in PastSteps => polaris.hand = polaris.secret
  /\ "creds" \in PastSteps => polaris.creds = polaris.secret

RestFollows ==
  /\ "tez" \in PastSteps => lake.tez
  /\ "orders" \in PastSteps => streaming.orders > 0

(* What the statements before the j-th leave behind.                       *)
LeftBy(j) ==
  /\ stackId \in {"udp", "hudi", "enterprise"} /\ j > 1 => lake.raw = 5
  /\ stackId \in {"udp", "hudi"} /\ j > 2 => lake.curated = 4
  /\ stackId \in {"trino", "nessie"} =>
       (j = 3 => lake.raw = 0) /\ (j > 3 => lake.raw = 5) /\ (j > 5 => lake.curated = 4)
  /\ stackId \in {"delta", "polaris"} =>
       (j > 3 => lake.raw = 5) /\ (j > 4 => lake.curated = 4)
  /\ stackId = "polaris" /\ j > 1 => polaris.grants = Grants

(* While a seed job is alone it finds what its own statements left, and    *)
(* after it nothing changes the tables.                                    *)
Alone == \A r \in Runs \ {runNo} : jobs[r] = Idle
SeedFollows ==
  /\ phase = "running" /\ jobs[runNo] # Idle =>
       Step("seed") /\ (~beside => Alone /\ LeftBy(jobs[runNo]))
  /\ "seed" \in PastSteps /\ ~beside =>
       (\A r \in Runs : jobs[r] = Idle) /\ LeftBy(Len(Seed[stackId]) + 1)
  /\ \A r \in Runs : r > runNo => jobs[r] = Idle

ScriptsInv ==
  /\ ScriptsTypeOK /\ OthersHaveNone /\ TrinoFollows /\ StarRocksFollows /\ PolarisFollows
  /\ RestFollows /\ SeedFollows

(* Which steps come before which, in every script that has them.           *)
LEMMA ScriptsInOrder ==
  ASSUME NEW st \in DOMAIN Script, NEW i \in 1..Len(Script[st])
  PROVE  /\ Script[st][i] = "seed" =>
              \A k \in 1..Len(Script[st]) : Script[st][k] = "seed" => k = i
         /\ Script[st][i] = "principal" =>
              \A k \in 1..Len(Script[st]) : Script[st][k] \in {"catalog", "creds"} => k > i
         /\ Script[st][i] \in {"catalog", "creds"} /\ st = "polaris" =>
              \E k \in 1..Len(Script[st]) : k < i /\ Script[st][k] = "principal"
         /\ Script[st][i] = "creds" => st = "polaris"
         /\ Script[st][i] = "restart" =>
              \E k \in 1..Len(Script[st]) : k < i /\ Script[st][k] = "catalog_file"
         /\ Script[st][i] = "safety_net" =>
              /\ \E k \in 1..Len(Script[st]) : k < i /\ Script[st][k] = "restart"
              /\ \E k \in 1..Len(Script[st]) : k < i /\ Script[st][k] = "catalog_file"
         /\ Script[st][i] = "listener" =>
              \A k \in 1..Len(Script[st]) : Script[st][k] \in {"restart", "safety_net"} => k > i
         /\ Script[st][i] = "restart" =>
              \A k \in 1..Len(Script[st]) : Script[st][k] = "safety_net" => k > i
         /\ Script[st][i] = "backend" =>
              \A k \in 1..Len(Script[st]) : Script[st][k] = "hudi_catalog" => k > i
         /\ Script[st][i] \in {"hudi_catalog", "catalog_if_missing"} =>
              \A k \in 1..Len(Script[st]) : Script[st][k] # "catalog"
         /\ Script[st][i] \in {"catalog", "catalog_if_missing"} =>
              \A k \in 1..Len(Script[st]) : Script[st][k] # "hudi_catalog"
         /\ Script[st][i] \in {"listener", "safety_net"} => st = "trino"
         /\ Script[st][i] = "principal" => st = "polaris"
<1>1. CASE st = "udp"
  BY <1>1 DEF Script, UdpScript
<1>2. CASE st = "trino"
  BY <1>2 DEF Script, TrinoScript
<1>3. CASE st = "nessie"
  BY <1>3 DEF Script, NessieScript
<1>4. CASE st = "hudi"
  BY <1>4 DEF Script, HudiScript
<1>5. CASE st = "delta"
  BY <1>5 DEF Script, DeltaScript
<1>6. CASE st = "polaris"
  BY <1>6 DEF Script, PolarisScript
<1>7. CASE st = "streaming"
  BY <1>7 DEF Script, StreamingScript
<1>8. CASE st = "enterprise"
  BY <1>8 DEF Script, EnterpriseScript
<1> QED  BY <1>1, <1>2, <1>3, <1>4, <1>5, <1>6, <1>7, <1>8 DEF Script

(* The same, of the step a script is at and the steps it is past.          *)
ThisStep == Script[stackId][at]

LEMMA StepsInOrder ==
  ASSUME ScriptsTypeOK, phase = "running"
  PROVE  /\ ThisStep = "seed" => "seed" \notin PastSteps
         /\ ThisStep = "principal" => "catalog" \notin PastSteps /\ "creds" \notin PastSteps
         /\ ThisStep \in {"catalog", "creds"} /\ stackId = "polaris" => "principal" \in PastSteps
         /\ ThisStep = "creds" => stackId = "polaris"
         /\ ThisStep = "restart" => "catalog_file" \in PastSteps /\ "safety_net" \notin PastSteps
         /\ ThisStep = "safety_net" => "restart" \in PastSteps /\ "catalog_file" \in PastSteps
         /\ ThisStep = "listener" => "restart" \notin PastSteps /\ "safety_net" \notin PastSteps
         /\ ThisStep = "backend" => "hudi_catalog" \notin PastSteps
         /\ ThisStep \in {"hudi_catalog", "catalog_if_missing"} => "catalog" \notin PastSteps
         /\ ThisStep \in {"catalog", "catalog_if_missing"} => "hudi_catalog" \notin PastSteps
         /\ ThisStep \in {"listener", "safety_net"} => stackId = "trino"
         /\ ThisStep = "principal" => stackId = "polaris"
<1>1. stackId \in DOMAIN Script /\ at \in 1..Len(Script[stackId])
  BY DEF ScriptsTypeOK
<1>2. \A s : s \in PastSteps <=> \E k \in 1..Len(Script[stackId]) : k < at /\ Script[stackId][k] = s
  BY DEF PastSteps
<1> QED  BY <1>1, <1>2, ScriptsInOrder DEF ThisStep

LEMMA StepAhead ==
  ASSUME ScriptsTypeOK, phase = "running", GoesOn
  PROVE  /\ PastSteps' = PastSteps \cup {ThisStep}
         /\ stackId' = stackId /\ runNo' = runNo /\ lineage' = lineage
         /\ phase' \in {"running", "done"} /\ at' \in 1..Len(Script[stackId])
<1>1. Len(Script[stackId]) \in Nat /\ at \in 1..Len(Script[stackId])
  BY DEF ScriptsTypeOK, Script, UdpScript, TrinoScript, NessieScript, HudiScript, DeltaScript,
         PolarisScript, StreamingScript, EnterpriseScript
<1>2. CASE at = Len(Script[stackId])
  <2>1. phase' = "done" /\ at' = 1 /\ stackId' = stackId
    BY <1>2 DEF GoesOn
  <2>2. \A k \in 1..Len(Script[stackId]) : k < at \/ k = at
    BY <1>1, <1>2
  <2> QED  BY <1>1, <2>1, <2>2 DEF PastSteps, ThisStep, GoesOn
<1>3. CASE at # Len(Script[stackId])
  <2>1. phase' = "running" /\ at' = at + 1 /\ stackId' = stackId
    BY <1>3 DEF GoesOn
  <2>2. \A k \in 1..Len(Script[stackId]) : k < at + 1 <=> k < at \/ k = at
    BY <1>1
  <2> QED  BY <1>1, <1>3, <2>1, <2>2 DEF PastSteps, ThisStep, GoesOn
<1> QED  BY <1>2, <1>3

(* A script that has stopped, or begins, is past nothing.                  *)
LEMMA NothingPast ==
  ASSUME phase' = "idle" \/ (phase' = "running" /\ at' = 1)
  PROVE  PastSteps' = {}
BY DEF PastSteps

(* A step other than the seed leaves the seed's work alone.                *)
LEMMA SeedIsKept ==
  ASSUME ScriptsInv, phase = "running", GoesOn, ~Step("seed"),
         jobs' = jobs, beside' = beside, lake'.raw = lake.raw, lake'.curated = lake.curated,
         polaris.grants = Grants => polaris'.grants = Grants
  PROVE  SeedFollows'
<1>1. /\ PastSteps' = PastSteps \cup {ThisStep} /\ ThisStep # "seed"
      /\ stackId' = stackId /\ runNo' = runNo
  BY StepAhead DEF ScriptsInv, Step, ThisStep
<1>2. jobs[runNo] = Idle
  BY DEF ScriptsInv, SeedFollows
<1>3. ASSUME NEW j, LeftBy(j)
      PROVE  LeftBy(j)'
  BY <1>1, <1>3 DEF LeftBy
<1>4. LeftBy(Len(Seed[stackId]) + 1) => LeftBy(Len(Seed[stackId]) + 1)'
  BY <1>1, <1>3
<1>5. "seed" \in PastSteps' /\ ~beside' =>
        (\A r \in Runs : jobs'[r] = Idle) /\ LeftBy(Len(Seed[stackId]) + 1)'
  BY <1>1, <1>4 DEF ScriptsInv, SeedFollows
<1> QED  BY <1>1, <1>2, <1>5 DEF ScriptsInv, SeedFollows

(* What a step of the script does not write stays typed.                   *)
LEMMA TypesAreKept ==
  ASSUME ScriptsTypeOK, phase = "running", GoesOn,
         jobs' \in [Runs -> Nat], beside' \in BOOLEAN, unnoticed' \in BOOLEAN,
         lake' \in [bucket : BOOLEAN, raw : Int, curated : Int, tez : BOOLEAN],
         trino' \in [file : BOOLEAN, listener : BOOLEAN, up : BOOLEAN, loaded : BOOLEAN],
         starrocks' \in [backend : BOOLEAN, catalog : Int, view : BOOLEAN],
         polaris' \in [catalog : BOOLEAN, secret : Int, hand : Int, grants : SUBSET Grants,
                       creds : Int],
         streaming' \in [orders : Nat, created : Nat, running : Nat, rows : Nat]
  PROVE  ScriptsTypeOK'
BY StepAhead DEF ScriptsTypeOK, LakeTypeOK, Runs

-----------------------------------------------------------------------------
LEMMA AbsentIsInt == Absent \in Int /\ Absent # NoKey
BY DEF Absent, NoKey

LEMMA ScriptsStart == ScriptsInit => ScriptsInv
<1> SUFFICES ASSUME ScriptsInit
             PROVE  ScriptsInv
  OBVIOUS
<1>1. PastSteps = {}
  BY DEF PastSteps, ScriptsInit
<1>2. ScriptsTypeOK
  <2>1. stackId \in DOMAIN Script => 1 \in 1..Len(Script[stackId])
    <3> SUFFICES ASSUME stackId \in DOMAIN Script
                 PROVE  Len(Script[stackId]) \in Nat \ {0}
      OBVIOUS
    <3>1. CASE stackId = "udp"
      BY <3>1 DEF Script, UdpScript
    <3>2. CASE stackId = "trino"
      BY <3>2 DEF Script, TrinoScript
    <3>3. CASE stackId = "nessie"
      BY <3>3 DEF Script, NessieScript
    <3>4. CASE stackId = "hudi"
      BY <3>4 DEF Script, HudiScript
    <3>5. CASE stackId = "delta"
      BY <3>5 DEF Script, DeltaScript
    <3>6. CASE stackId = "polaris"
      BY <3>6 DEF Script, PolarisScript
    <3>7. CASE stackId = "streaming"
      BY <3>7 DEF Script, StreamingScript
    <3>8. CASE stackId = "enterprise"
      BY <3>8 DEF Script, EnterpriseScript
    <3> QED  BY <3>1, <3>2, <3>3, <3>4, <3>5, <3>6, <3>7, <3>8 DEF Script
  <2>2. LakeTypeOK
    BY AbsentIsInt DEF ScriptsInit, LakeTypeOK, Idle
  <2> QED
    BY <2>1, <2>2, AbsentIsInt, ScriptsAssumption DEF ScriptsInit, ScriptsTypeOK, NoKey
<1> QED  BY <1>1, <1>2 DEF ScriptsInit, ScriptsInv, OthersHaveNone, TrinoFollows, StarRocksFollows,
                          PolarisFollows, RestFollows, SeedFollows, Idle

(* What stops a script, or starts one, leaves it past nothing.             *)
LEMMA NothingToFollow ==
  ASSUME PastSteps' = {}
  PROVE  TrinoFollows' /\ StarRocksFollows' /\ PolarisFollows' /\ RestFollows'
BY DEF TrinoFollows, StarRocksFollows, PolarisFollows, RestFollows

LEMMA StartScriptKeeps ==
  ASSUME ScriptsInv, StartScript
  PROVE  ScriptsInv'
<1>1. PastSteps' = {}
  BY NothingPast DEF StartScript
<1>2. ScriptsTypeOK'
  <2>1. runNo' \in Runs /\ runNo' \in 0..MaxScripts
    BY ScriptsAssumption DEF StartScript, Runs, ScriptsInv, ScriptsTypeOK
  <2>2. 1 \in 1..Len(Script[stackId])
    BY DEF ScriptsInv, ScriptsTypeOK
  <2> QED  BY <2>1, <2>2 DEF StartScript, ScriptsInv, ScriptsTypeOK, LakeTypeOK, Runs
<1>3. SeedFollows'
  BY <1>1, ScriptsAssumption DEF StartScript, Runs, ScriptsInv, ScriptsTypeOK, SeedFollows
<1>4. OthersHaveNone'
  BY DEF StartScript, ScriptsInv, OthersHaveNone
<1> QED  BY <1>1, <1>2, <1>3, <1>4, NothingToFollow DEF ScriptsInv

LEMMA StoppedKeeps ==
  ASSUME ScriptsInv, Stopped
  PROVE  ScriptsInv'
<1>1. PastSteps' = {}
  BY NothingPast DEF Stopped
<1>2. ScriptsTypeOK'
  <2>1. starrocks' \in [backend : BOOLEAN, catalog : Int, view : BOOLEAN]
    BY AbsentIsInt DEF Stopped, ScriptsInv, ScriptsTypeOK
  <2>2. polaris' \in [catalog : BOOLEAN, secret : Int, hand : Int, grants : SUBSET Grants,
                      creds : Int]
    BY DEF Stopped, ScriptsInv, ScriptsTypeOK
  <2>3. 1 \in 1..Len(Script[stackId])
    BY DEF ScriptsInv, ScriptsTypeOK
  <2> QED  BY <2>1, <2>2, <2>3 DEF Stopped, ScriptsInv, ScriptsTypeOK, LakeTypeOK, Runs
<1>3. SeedFollows'
  BY <1>1 DEF Stopped, ScriptsInv, SeedFollows
<1>4. OthersHaveNone'
  BY DEF Stopped, ScriptsInv, ScriptsTypeOK, OthersHaveNone
<1> QED  BY <1>1, <1>2, <1>3, <1>4, NothingToFollow DEF ScriptsInv

LEMMA RecreateKeeps ==
  ASSUME ScriptsInv, Recreate
  PROVE  ScriptsInv'
<1>1. PastSteps' = {}
  BY NothingPast DEF Recreate
<1>2. ScriptsTypeOK'
  <2>1. lake' \in [bucket : BOOLEAN, raw : Int, curated : Int, tez : BOOLEAN]
    BY AbsentIsInt DEF Recreate, ScriptsInv, ScriptsTypeOK, LakeTypeOK
  <2>2. polaris' \in [catalog : BOOLEAN, secret : Int, hand : Int, grants : SUBSET Grants,
                      creds : Int]
    BY DEF Recreate, ScriptsInv, ScriptsTypeOK, NoKey
  <2>3. streaming' \in [orders : Nat, created : Nat, running : Nat, rows : Nat]
    BY DEF Recreate, ScriptsInv, ScriptsTypeOK
  <2>4. LakeTypeOK'
    BY <2>1 DEF Recreate, ScriptsInv, ScriptsTypeOK, LakeTypeOK, Idle
  <2>5. stackId' \in DOMAIN Script /\ at' \in 1..Len(Script[stackId'])
        /\ runNo' \in 0..MaxScripts /\ phase' = "idle"
    BY DEF Recreate, ScriptsInv, ScriptsTypeOK
  <2>6. trino' \in [file : BOOLEAN, listener : BOOLEAN, up : BOOLEAN, loaded : BOOLEAN]
        /\ starrocks' \in [backend : BOOLEAN, catalog : Int, view : BOOLEAN]
    BY DEF Recreate, ScriptsInv, ScriptsTypeOK
  <2> QED  BY <2>2, <2>3, <2>4, <2>5, <2>6 DEF ScriptsTypeOK
<1>3. SeedFollows'
  BY <1>1 DEF Recreate, SeedFollows, Idle
<1>4. OthersHaveNone'
  BY DEF Recreate, ScriptsInv, ScriptsTypeOK, OthersHaveNone
<1> QED  BY <1>1, <1>2, <1>3, <1>4, NothingToFollow DEF ScriptsInv

-----------------------------------------------------------------------------
(* The steps of a script *)

LEMMA LakeStepsKeep ==
  ASSUME ScriptsInv, EnsureBucket \/ StageTez
  PROVE  ScriptsInv'
<1>1. /\ phase = "running" /\ GoesOn /\ ThisStep \in {"bucket", "tez"} /\ ~Step("seed")
      /\ UNCHANGED <<jobs, trino, starrocks, polaris, streaming, beside, unnoticed>>
  BY DEF EnsureBucket, StageTez, Step, ThisStep
<1>2. /\ lake' \in [bucket : BOOLEAN, raw : Int, curated : Int, tez : BOOLEAN]
      /\ lake'.raw = lake.raw /\ lake'.curated = lake.curated
      /\ lake.tez \/ ThisStep = "tez" => lake'.tez
  BY DEF ScriptsInv, ScriptsTypeOK, LakeTypeOK, EnsureBucket, StageTez, Step, ThisStep
<1>3. PastSteps' = PastSteps \cup {ThisStep} /\ stackId' = stackId /\ lineage' = lineage
  BY <1>1, StepAhead DEF ScriptsInv
<1>4. ScriptsTypeOK'
  BY <1>1, <1>2, TypesAreKept DEF ScriptsInv, ScriptsTypeOK, LakeTypeOK
<1>5. SeedFollows'
  BY <1>1, <1>2, SeedIsKept
<1>6. RestFollows' /\ OthersHaveNone'
  BY <1>1, <1>2, <1>3 DEF ScriptsInv, RestFollows, OthersHaveNone
<1>7. TrinoFollows' /\ StarRocksFollows' /\ PolarisFollows'
  BY <1>1, <1>3 DEF ScriptsInv, TrinoFollows, StarRocksFollows, PolarisFollows, CatalogWorks
<1> QED  BY <1>4, <1>5, <1>6, <1>7 DEF ScriptsInv

LEMMA ReadsIsTyped ==
  ASSUME NEW t \in [file : BOOLEAN, listener : BOOLEAN, up : BOOLEAN, loaded : BOOLEAN]
  PROVE  /\ Reads(t) \in [file : BOOLEAN, listener : BOOLEAN, up : BOOLEAN, loaded : BOOLEAN]
         /\ Reads(t).file = t.file /\ Reads(t).listener = t.listener
         /\ t.file => Reads(t).loaded = Reads(t).up
         /\ ~Reads(t).up => t.listener
BY DEF Reads

LEMMA TrinoStepsKeep ==
  ASSUME ScriptsInv, WriteTrinoCatalog \/ WireLineage \/ RestartTrino \/ SafetyNet
  PROVE  ScriptsInv'
<1>1. /\ phase = "running" /\ GoesOn /\ ~Step("seed")
      /\ ThisStep \in {"catalog_file", "listener", "restart", "safety_net"}
      /\ UNCHANGED <<jobs, lake, starrocks, polaris, streaming, beside, unnoticed>>
  BY DEF WriteTrinoCatalog, WireLineage, RestartTrino, SafetyNet, Step, ThisStep
<1>2. trino \in [file : BOOLEAN, listener : BOOLEAN, up : BOOLEAN, loaded : BOOLEAN]
  BY DEF ScriptsInv, ScriptsTypeOK
<1>3. PastSteps' = PastSteps \cup {ThisStep} /\ stackId' = stackId /\ lineage' = lineage
  BY <1>1, StepAhead DEF ScriptsInv
<1>4. /\ trino' \in [file : BOOLEAN, listener : BOOLEAN, up : BOOLEAN, loaded : BOOLEAN]
      /\ TrinoFollows' /\ (stackId # "trino" => ~trino'.listener)
  <2>1. CASE WriteTrinoCatalog
    BY <2>1, <1>1, <1>2, <1>3
    DEF WriteTrinoCatalog, Step, ThisStep, ScriptsInv, TrinoFollows, OthersHaveNone
  <2>2. CASE WireLineage
    BY <2>2, <1>1, <1>2, <1>3, StepsInOrder
    DEF WireLineage, Step, ThisStep, ScriptsInv, TrinoFollows
  <2>3. CASE RestartTrino
    <3>1. ThisStep = "restart" /\ trino' = Reads(trino)
      BY <2>3 DEF RestartTrino, Step, ThisStep
    <3>2. trino.file /\ "safety_net" \notin PastSteps
      BY <3>1, <1>1, StepsInOrder DEF ScriptsInv, TrinoFollows
    <3> QED  BY <3>1, <3>2, <1>2, <1>3, ReadsIsTyped DEF TrinoFollows, ScriptsInv, OthersHaveNone
  <2>4. CASE SafetyNet
    <3>1. ThisStep = "safety_net" /\ stackId = "trino"
      BY <2>4, <1>1, StepsInOrder DEF SafetyNet, Step, ThisStep, ScriptsInv
    <3>2. "restart" \in PastSteps
      BY <3>1, <1>1, StepsInOrder DEF ScriptsInv
    <3>3. trino.loaded = trino.up /\ (trino.up \/ trino.listener)
      BY <3>2 DEF ScriptsInv, TrinoFollows
    <3>4. "catalog_file" \in PastSteps => trino.file
      BY DEF ScriptsInv, TrinoFollows
    <3>5. CASE trino' = trino /\ trino.up
      BY <3>1, <3>3, <3>4, <3>5, <1>2, <1>3 DEF TrinoFollows
    <3>6. CASE trino' = Reads([trino EXCEPT !.listener = FALSE])
      <4> DEFINE t == [trino EXCEPT !.listener = FALSE]
      <4>1. t \in [file : BOOLEAN, listener : BOOLEAN, up : BOOLEAN, loaded : BOOLEAN]
            /\ t.file = trino.file /\ ~t.listener
        BY <1>2
      <4>2. t.file
        BY <4>1, <3>1, <1>1, StepsInOrder DEF ScriptsInv, TrinoFollows
      <4> HIDE DEF t
      <4> QED  BY <3>1, <3>6, <4>1, <4>2, <1>3, ReadsIsTyped DEF TrinoFollows, t
    <3> QED  BY <2>4, <3>3, <3>5, <3>6 DEF SafetyNet
  <2> QED  BY <2>1, <2>2, <2>3, <2>4
<1>5. ScriptsTypeOK'
  BY <1>1, <1>4, TypesAreKept DEF ScriptsInv, ScriptsTypeOK, LakeTypeOK
<1>6. SeedFollows'
  BY <1>1, SeedIsKept
<1>7. OthersHaveNone'
  BY <1>1, <1>3, <1>4 DEF ScriptsInv, OthersHaveNone
<1>8. StarRocksFollows' /\ PolarisFollows' /\ RestFollows'
  BY <1>1, <1>3
  DEF ScriptsInv, StarRocksFollows, PolarisFollows, RestFollows, CatalogWorks
<1> QED  BY <1>4, <1>5, <1>6, <1>7, <1>8 DEF ScriptsInv

LEMMA StarRocksStepsKeep ==
  ASSUME ScriptsInv,
         AddBackend \/ CreateCatalog \/ CreateHudiCatalog \/ CreateView \/ CreateCatalogIfMissing
  PROVE  ScriptsInv'
<1>1. /\ phase = "running" /\ GoesOn /\ ~Step("seed")
      /\ ThisStep \in {"backend", "catalog", "hudi_catalog", "view", "catalog_if_missing"}
      /\ UNCHANGED <<jobs, lake, trino, polaris, streaming, beside>>
  BY DEF AddBackend, CreateCatalog, CreateHudiCatalog, CreateView, CreateCatalogIfMissing, Step,
         ThisStep
<1>2. /\ starrocks \in [backend : BOOLEAN, catalog : Int, view : BOOLEAN]
      /\ polaris.hand \in Int /\ unnoticed \in BOOLEAN
  BY DEF ScriptsInv, ScriptsTypeOK, LakeTypeOK
<1>3. PastSteps' = PastSteps \cup {ThisStep} /\ stackId' = stackId /\ lineage' = lineage
  BY <1>1, StepAhead DEF ScriptsInv
<1>4. /\ starrocks' \in [backend : BOOLEAN, catalog : Int, view : BOOLEAN]
      /\ unnoticed' \in BOOLEAN /\ StarRocksFollows'
  <2>1. CASE AddBackend
    BY <2>1, <1>1, <1>2, <1>3, StepsInOrder
    DEF AddBackend, Step, ThisStep, ScriptsInv, StarRocksFollows, CatalogWorks
  <2>2. CASE CreateCatalog
    <3>1. /\ starrocks' = [starrocks EXCEPT !.catalog = polaris.hand]
          /\ ThisStep = "catalog" /\ unnoticed' = unnoticed
      BY <2>2 DEF CreateCatalog, Step, ThisStep
    <3>2. stackId = "polaris" => polaris.hand = polaris.secret
      BY <3>1, <1>1, StepsInOrder DEF ScriptsInv, PolarisFollows
    <3>3. stackId # "polaris" => polaris.hand = NoKey
      BY DEF ScriptsInv, OthersHaveNone
    <3>4. CatalogWorks'
      BY <3>1, <3>2, <3>3, <1>1, <1>2, <1>3 DEF CatalogWorks
    <3>5. "hudi_catalog" \notin PastSteps
      BY <3>1, <1>1, StepsInOrder DEF ScriptsInv
    <3> QED  BY <3>1, <3>4, <3>5, <1>2, <1>3 DEF ScriptsInv, StarRocksFollows
  <2>3. CASE CreateHudiCatalog
    <3>1. /\ ThisStep = "hudi_catalog" /\ "catalog" \notin PastSteps
      BY <2>3, <1>1, StepsInOrder DEF CreateHudiCatalog, Step, ThisStep, ScriptsInv
    <3>2. PICK c \in {starrocks.catalog, Absent, NoKey} :
             /\ starrocks' = [starrocks EXCEPT !.catalog = c]
             /\ unnoticed' = (unnoticed \/ c = Absent)
      BY <2>3 DEF CreateHudiCatalog
    <3>3. unnoticed' \in BOOLEAN /\ (~unnoticed' => ~unnoticed /\ c # Absent)
      BY <3>2, <1>2
    <3>4. c \in Int
      BY <1>2, AbsentIsInt DEF NoKey
    <3>5. /\ starrocks' \in [backend : BOOLEAN, catalog : Int, view : BOOLEAN]
          /\ starrocks'.backend = starrocks.backend /\ starrocks'.view = starrocks.view
          /\ starrocks'.catalog = c
      BY <3>2, <3>4, <1>2
    <3> QED  BY <3>1, <3>3, <3>5, <1>3 DEF ScriptsInv, StarRocksFollows
  <2>4. CASE CreateView
    BY <2>4, <1>1, <1>2, <1>3
    DEF CreateView, Step, ThisStep, ScriptsInv, StarRocksFollows, CatalogWorks
  <2>5. CASE CreateCatalogIfMissing
    <3>1. /\ ThisStep = "catalog_if_missing"
          /\ "catalog" \notin PastSteps /\ "hudi_catalog" \notin PastSteps
      BY <2>5, <1>1, StepsInOrder DEF CreateCatalogIfMissing, Step, ThisStep, ScriptsInv
    <3> QED  BY <2>5, <3>1, <1>2, <1>3
             DEF CreateCatalogIfMissing, ScriptsInv, StarRocksFollows, NoKey
  <2> QED  BY <2>1, <2>2, <2>3, <2>4, <2>5
<1>5. ScriptsTypeOK'
  BY <1>1, <1>4, TypesAreKept DEF ScriptsInv, ScriptsTypeOK, LakeTypeOK
<1>6. SeedFollows'
  BY <1>1, SeedIsKept
<1>7. OthersHaveNone' /\ TrinoFollows' /\ PolarisFollows' /\ RestFollows'
  BY <1>1, <1>3 DEF ScriptsInv, OthersHaveNone, TrinoFollows, PolarisFollows, RestFollows
<1> QED  BY <1>4, <1>5, <1>6, <1>7 DEF ScriptsInv

LEMMA PolarisStepsKeep ==
  ASSUME ScriptsInv, CreatePolarisCatalog \/ Principal \/ Grant \/ PersistCreds
  PROVE  ScriptsInv'
<1>1. /\ phase = "running" /\ GoesOn /\ ~Step("seed")
      /\ ThisStep \in {"polaris_catalog", "principal", "grants", "creds"}
      /\ UNCHANGED <<jobs, lake, trino, starrocks, streaming, beside, unnoticed>>
  BY DEF CreatePolarisCatalog, Principal, Grant, PersistCreds, Step, ThisStep
<1>2. /\ polaris \in [catalog : BOOLEAN, secret : Int, hand : Int, grants : SUBSET Grants,
                      creds : Int]
      /\ runNo \in Int
  BY DEF ScriptsInv, ScriptsTypeOK
<1>3. PastSteps' = PastSteps \cup {ThisStep} /\ stackId' = stackId /\ lineage' = lineage
  BY <1>1, StepAhead DEF ScriptsInv
<1>4. /\ polaris' \in [catalog : BOOLEAN, secret : Int, hand : Int, grants : SUBSET Grants,
                       creds : Int]
      /\ polaris.grants = Grants => polaris'.grants = Grants
  <2>1. CASE Grant
    BY <2>1, <1>2 DEF Grant
  <2>2. CASE CreatePolarisCatalog \/ Principal \/ PersistCreds
    BY <2>2, <1>2 DEF CreatePolarisCatalog, Principal, PersistCreds
  <2> QED  BY <2>1, <2>2
<1>5. /\ PolarisFollows'
      /\ polaris'.secret = polaris.secret \/ "catalog" \notin PastSteps
      /\ stackId # "polaris" => polaris'.hand = polaris.hand
  <2>1. CASE Principal
    <3>1. /\ ThisStep = "principal" /\ stackId = "polaris"
          /\ "catalog" \notin PastSteps /\ "creds" \notin PastSteps
      BY <2>1, <1>1, StepsInOrder DEF Principal, Step, ThisStep, ScriptsInv
    <3> QED  BY <2>1, <3>1, <1>2, <1>3 DEF Principal, PolarisFollows
  <2>2. CASE PersistCreds
    <3>1. ThisStep = "creds" /\ "principal" \in PastSteps
      BY <2>2, <1>1, StepsInOrder DEF PersistCreds, Step, ThisStep, ScriptsInv
    <3> QED  BY <2>2, <3>1, <1>2, <1>3 DEF PersistCreds, ScriptsInv, PolarisFollows
  <2>3. CASE CreatePolarisCatalog \/ Grant
    BY <2>3, <1>2, <1>3
    DEF CreatePolarisCatalog, Grant, Step, ThisStep, ScriptsInv, PolarisFollows
  <2> QED  BY <1>1, <2>1, <2>2, <2>3
<1>6. ScriptsTypeOK'
  BY <1>1, <1>4, TypesAreKept DEF ScriptsInv, ScriptsTypeOK, LakeTypeOK
<1>7. SeedFollows'
  BY <1>1, <1>4, SeedIsKept
<1>8. StarRocksFollows'
  BY <1>1, <1>3, <1>5 DEF ScriptsInv, StarRocksFollows, CatalogWorks
<1>9. OthersHaveNone' /\ TrinoFollows' /\ RestFollows'
  BY <1>1, <1>3, <1>5 DEF ScriptsInv, OthersHaveNone, TrinoFollows, RestFollows
<1> QED  BY <1>5, <1>6, <1>7, <1>8, <1>9 DEF ScriptsInv

LEMMA WaitStepsKeep ==
  ASSUME ScriptsInv, TrinoSeesDelta \/ SubmitPipeline \/ (ProduceOrders /\ GoesOn)
  PROVE  ScriptsInv'
<1>1. /\ phase = "running" /\ GoesOn /\ ~Step("seed") /\ ThisStep \in {"seen", "submit", "orders"}
      /\ UNCHANGED <<jobs, lake, trino, starrocks, polaris, beside, unnoticed>>
  BY DEF TrinoSeesDelta, SubmitPipeline, ProduceOrders, Step, ThisStep
<1>2. streaming \in [orders : Nat, created : Nat, running : Nat, rows : Nat]
  BY DEF ScriptsInv, ScriptsTypeOK
<1>3. PastSteps' = PastSteps \cup {ThisStep} /\ stackId' = stackId /\ lineage' = lineage
  BY <1>1, StepAhead DEF ScriptsInv
<1>4. /\ streaming' \in [orders : Nat, created : Nat, running : Nat, rows : Nat]
      /\ streaming.orders > 0 \/ ThisStep = "orders" => streaming'.orders > 0
  <2>1. CASE TrinoSeesDelta
    BY <2>1, <1>2 DEF TrinoSeesDelta, Step, ThisStep
  <2>2. CASE SubmitPipeline
    BY <2>2, <1>2 DEF SubmitPipeline, Step, ThisStep
  <2>3. CASE ProduceOrders /\ GoesOn
    BY <2>3, <1>2 DEF ProduceOrders, Step, ThisStep
  <2> QED  BY <2>1, <2>2, <2>3
<1>5. ScriptsTypeOK'
  <2>1. ScriptsTypeOK /\ LakeTypeOK
    BY DEF ScriptsInv, ScriptsTypeOK
  <2>2. LakeTypeOK' /\ stackId' = stackId /\ runNo' = runNo
        /\ phase' \in {"running", "done"} /\ at' \in 1..Len(Script[stackId])
    BY <2>1, <1>1, StepAhead DEF LakeTypeOK
  <2> QED  BY <2>1, <2>2, <1>1, <1>4 DEF ScriptsTypeOK, Runs
<1>6. SeedFollows'
  BY <1>1, SeedIsKept
<1>7. OthersHaveNone' /\ TrinoFollows' /\ StarRocksFollows' /\ PolarisFollows' /\ RestFollows'
  BY <1>1, <1>3, <1>4
  DEF ScriptsInv, OthersHaveNone, TrinoFollows, StarRocksFollows, PolarisFollows, RestFollows,
      CatalogWorks
<1> QED  BY <1>5, <1>6, <1>7 DEF ScriptsInv

(* A producer that was cut off, and Flink, which reads what there is.      *)
LEMMA StreamsKeep ==
  ASSUME ScriptsInv, (ProduceOrders /\ ~GoesOn) \/ PipelineRuns
  PROVE  ScriptsInv'
<1>1. streaming \in [orders : Nat, created : Nat, running : Nat, rows : Nat]
  BY DEF ScriptsInv, ScriptsTypeOK
<1>2. CASE ProduceOrders /\ ~GoesOn
  <2>1. /\ phase' = "idle" /\ at' = 1 /\ streaming' = [streaming EXCEPT !.orders = 3]
        /\ UNCHANGED <<stackId, runNo, lineage, jobs, lake, trino, starrocks, polaris, beside,
                       unnoticed>>
    BY <1>2 DEF ProduceOrders
  <2>2. PastSteps' = {}
    BY <2>1, NothingPast
  <2>3. ScriptsTypeOK'
    <3>1. streaming' \in [orders : Nat, created : Nat, running : Nat, rows : Nat]
      BY <2>1, <1>1
    <3> QED  BY <2>1, <3>1 DEF ScriptsInv, ScriptsTypeOK, LakeTypeOK
  <2>4. SeedFollows' /\ OthersHaveNone'
    BY <2>1, <2>2 DEF ScriptsInv, SeedFollows, OthersHaveNone
  <2> QED  BY <2>2, <2>3, <2>4, NothingToFollow DEF ScriptsInv
<1>3. CASE PipelineRuns
  <2>1. UNCHANGED <<stackId, phase, at, runNo, lineage, jobs, lake, trino, starrocks, polaris,
                    beside, unnoticed>>
        /\ streaming' \in [orders : Nat, created : Nat, running : Nat, rows : Nat]
        /\ streaming'.orders = streaming.orders
    <3>1. /\ streaming.created - 1 \in Nat /\ streaming.running + 1 \in Nat
          /\ streaming.rows + streaming.orders \in Nat
      BY <1>1, <1>3 DEF PipelineRuns
    <3>2. streaming' = [streaming EXCEPT !.created = streaming.created - 1,
                                         !.running = streaming.running + 1,
                                         !.rows = streaming.rows + streaming.orders]
      BY <1>3 DEF PipelineRuns
    <3> QED  BY <1>1, <1>3, <3>1, <3>2 DEF PipelineRuns
  <2>2. PastSteps' = PastSteps
    BY <2>1 DEF PastSteps
  <2>3. ScriptsTypeOK'
    BY <2>1 DEF ScriptsInv, ScriptsTypeOK, LakeTypeOK
  <2>4. SeedFollows'
    BY <2>1, <2>2 DEF ScriptsInv, SeedFollows, Step, Alone, LeftBy
  <2>5. OthersHaveNone' /\ TrinoFollows' /\ StarRocksFollows' /\ PolarisFollows' /\ RestFollows'
    BY <2>1, <2>2
    DEF ScriptsInv, OthersHaveNone, TrinoFollows, StarRocksFollows, PolarisFollows, RestFollows,
        CatalogWorks
  <2> QED  BY <2>3, <2>4, <2>5 DEF ScriptsInv
<1> QED  BY <1>2, <1>3

-----------------------------------------------------------------------------
(* The seed jobs *)

LEMMA SeedsAreSequences ==
  ASSUME NEW st \in DOMAIN Script
  PROVE  Len(Seed[st]) \in Nat
BY DEF Script, Seed, ReplaceSeed, TrinoSeed, DeltaSeed, PolarisSeed, EnterpriseSeed

(* Only the phase, the step and the job of the run are written.            *)
LEMMA SubmitKeeps ==
  ASSUME ScriptsInv, Submit
  PROVE  ScriptsInv'
<1>1. /\ phase = "running" /\ ThisStep = "seed" /\ jobs[runNo] = Idle
      /\ jobs' = [jobs EXCEPT ![runNo] = 1]
      /\ beside' = \E r \in Runs \ {runNo} : jobs[r] # Idle
      /\ UNCHANGED <<stackId, phase, at, runNo, lake, trino, starrocks, polaris, lineage, streaming,
                     unnoticed>>
  BY DEF Submit, Step, ThisStep
<1>2. runNo \in Runs /\ jobs \in [Runs -> Nat] /\ "seed" \notin PastSteps
  BY <1>1, StepsInOrder DEF ScriptsInv, ScriptsTypeOK, LakeTypeOK
<1>3. PastSteps' = PastSteps
  BY <1>1 DEF PastSteps
<1>4. jobs' \in [Runs -> Nat] /\ jobs'[runNo] = 1 /\ \A r \in Runs \ {runNo} : jobs'[r] = jobs[r]
  BY <1>1, <1>2
<1>5. ScriptsTypeOK'
  <2>1. beside' \in BOOLEAN
    BY <1>1
  <2> QED  BY <2>1, <1>1, <1>4 DEF ScriptsInv, ScriptsTypeOK, LakeTypeOK
<1>6. LeftBy(1)'
  BY DEF LeftBy
<1>7. ~beside' => Alone'
  BY <1>1, <1>4 DEF Alone
<1>8. SeedFollows'
  <2>1. phase' = "running" /\ jobs'[runNo'] # Idle =>
          Step("seed")' /\ (~beside' => Alone' /\ LeftBy(jobs[runNo])')
    BY <1>1, <1>4, <1>6, <1>7 DEF Step, ThisStep
  <2>2. \A r \in Runs : r > runNo' => jobs'[r] = Idle
    BY <1>1, <1>2, <1>4 DEF ScriptsInv, SeedFollows, Runs
  <2> QED  BY <2>1, <2>2, <1>2, <1>3 DEF SeedFollows
<1>9. OthersHaveNone' /\ TrinoFollows' /\ StarRocksFollows' /\ PolarisFollows' /\ RestFollows'
  BY <1>1, <1>3
  DEF ScriptsInv, OthersHaveNone, TrinoFollows, StarRocksFollows, PolarisFollows, RestFollows,
      CatalogWorks
<1> QED  BY <1>5, <1>8, <1>9 DEF ScriptsInv

LEMMA JobEndsKeeps ==
  ASSUME ScriptsInv, JobEnds
  PROVE  ScriptsInv'
<1>1. /\ phase = "running" /\ GoesOn /\ ThisStep = "seed"
      /\ jobs[runNo] = Len(Seed[stackId]) + 1 /\ jobs' = [jobs EXCEPT ![runNo] = Idle]
      /\ UNCHANGED <<lake, trino, starrocks, polaris, streaming, beside, unnoticed>>
  BY DEF JobEnds, Step, ThisStep
<1>2. runNo \in Runs /\ jobs \in [Runs -> Nat]
  BY <1>1 DEF ScriptsInv, ScriptsTypeOK, LakeTypeOK
<1>3. PastSteps' = PastSteps \cup {ThisStep} /\ stackId' = stackId /\ lineage' = lineage
      /\ runNo' = runNo
  BY <1>1, StepAhead DEF ScriptsInv
<1>4. jobs' \in [Runs -> Nat] /\ jobs'[runNo] = Idle /\ \A r \in Runs \ {runNo} : jobs'[r] = jobs[r]
  BY <1>1, <1>2 DEF Idle
<1>5. ScriptsTypeOK'
  <2>1. ScriptsTypeOK /\ LakeTypeOK
    BY DEF ScriptsInv, ScriptsTypeOK
  <2>2. LakeTypeOK' /\ phase' \in {"running", "done"} /\ at' \in 1..Len(Script[stackId])
    BY <2>1, <1>1, <1>4, StepAhead DEF LakeTypeOK
  <2> QED  BY <2>1, <2>2, <1>1, <1>3 DEF ScriptsTypeOK, Runs
<1>6. SeedFollows'
  <2>1. ASSUME ~beside
        PROVE  (\A r \in Runs : jobs'[r] = Idle) /\ LeftBy(Len(Seed[stackId]) + 1)'
    <3>1. jobs[runNo] # Idle
      <4>1. Len(Seed[stackId]) \in Nat
        BY SeedsAreSequences DEF ScriptsInv, ScriptsTypeOK
      <4> QED  BY <4>1, <1>1 DEF Idle
    <3>2. Alone /\ LeftBy(Len(Seed[stackId]) + 1)
      BY <3>1, <2>1, <1>1 DEF ScriptsInv, SeedFollows
    <3>3. LeftBy(Len(Seed[stackId]) + 1)'
      BY <3>2, <1>1, <1>3 DEF LeftBy
    <3> QED  BY <3>2, <3>3, <1>2, <1>4 DEF Alone
  <2>2. \A r \in Runs : r > runNo' => jobs'[r] = Idle
    BY <1>2, <1>3, <1>4 DEF ScriptsInv, SeedFollows, Runs
  <2> QED  BY <2>1, <2>2, <1>1, <1>3, <1>4 DEF SeedFollows
<1>7. OthersHaveNone' /\ TrinoFollows' /\ StarRocksFollows' /\ PolarisFollows' /\ RestFollows'
  BY <1>1, <1>3
  DEF ScriptsInv, OthersHaveNone, TrinoFollows, StarRocksFollows, PolarisFollows, RestFollows,
      CatalogWorks
<1> QED  BY <1>5, <1>6, <1>7 DEF ScriptsInv

LEMMA JobDiesKeeps ==
  ASSUME ScriptsInv, NEW r \in Runs, JobDies(r)
  PROVE  ScriptsInv'
<1>1. /\ jobs' = [jobs EXCEPT ![r] = Idle] /\ jobs[r] # Idle
      /\ UNCHANGED <<stackId, runNo, lake, trino, starrocks, polaris, lineage, streaming, beside,
                     unnoticed>>
      /\ (phase' = "idle" /\ at' = 1) \/ (UNCHANGED <<phase, at>> /\ ~(r = runNo /\ Step("seed")))
  BY DEF JobDies
<1>2. jobs \in [Runs -> Nat] /\ at \in 1..Len(Script[stackId]) /\ 1 \in 1..Len(Script[stackId])
  BY DEF ScriptsInv, ScriptsTypeOK, LakeTypeOK
<1>3. jobs' \in [Runs -> Nat] /\ jobs'[r] = Idle /\ \A q \in Runs \ {r} : jobs'[q] = jobs[q]
  BY <1>1, <1>2 DEF Idle
<1>4. ScriptsTypeOK'
  BY <1>1, <1>2, <1>3 DEF ScriptsInv, ScriptsTypeOK, LakeTypeOK
<1>5. \A q \in Runs : q > runNo' => jobs'[q] = Idle
  BY <1>1, <1>3 DEF ScriptsInv, SeedFollows
<1>6. OthersHaveNone'
  BY <1>1 DEF ScriptsInv, OthersHaveNone
<1>7. CASE phase' = "idle" /\ at' = 1
  <2>1. PastSteps' = {}
    BY <1>7, NothingPast
  <2> QED  BY <1>4, <1>5, <1>6, <1>7, <2>1, NothingToFollow DEF ScriptsInv, SeedFollows
<1>8. CASE UNCHANGED <<phase, at>> /\ ~(r = runNo /\ Step("seed"))
  <2>1. PastSteps' = PastSteps
    BY <1>1, <1>8 DEF PastSteps
  <2>2. \A j : LeftBy(j) => LeftBy(j)'
    BY <1>1 DEF LeftBy
  <2>3. phase' = "running" /\ jobs'[runNo'] # Idle =>
          Step("seed")' /\ (~beside' => Alone' /\ LeftBy(jobs[runNo])')
    <3> SUFFICES ASSUME phase = "running", jobs'[runNo] # Idle
                 PROVE  Step("seed")' /\ (~beside' => Alone' /\ LeftBy(jobs[runNo])')
      BY <1>1, <1>8
    <3>1. runNo \in Runs /\ r # runNo /\ jobs'[runNo] = jobs[runNo]
      BY <1>3 DEF ScriptsInv, ScriptsTypeOK
    <3>2. Step("seed") /\ (~beside => Alone /\ LeftBy(jobs[runNo]))
      BY <3>1 DEF ScriptsInv, SeedFollows
    <3>3. Alone => Alone'
      BY <1>1, <1>3 DEF Alone
    <3>4. LeftBy(jobs[runNo]) => LeftBy(jobs[runNo])'
      BY <3>1, <1>1 DEF LeftBy
    <3> QED  BY <3>2, <3>3, <3>4, <1>1, <1>8 DEF Step
  <2>4. "seed" \in PastSteps' /\ ~beside' =>
          (\A q \in Runs : jobs'[q] = Idle) /\ LeftBy(Len(Seed[stackId]) + 1)'
    BY <2>1, <1>1 DEF ScriptsInv, SeedFollows
  <2>5. SeedFollows'
    BY <2>3, <2>4, <1>5 DEF SeedFollows
  <2>6. TrinoFollows' /\ StarRocksFollows' /\ PolarisFollows' /\ RestFollows'
    BY <1>1, <2>1
    DEF ScriptsInv, TrinoFollows, StarRocksFollows, PolarisFollows, RestFollows, CatalogWorks
  <2> QED  BY <2>5, <2>6, <1>4, <1>6 DEF ScriptsInv
<1> QED  BY <1>1, <1>7, <1>8

(* What each statement makes of what the ones before it left.              *)
LEMMA StatementsFollow ==
  ASSUME ScriptsInv, NEW r \in Runs, Statement(r), LeftBy(jobs[r])
  PROVE  LeftBy(jobs[r])'
<1>1. /\ jobs[r] \in 1..Len(Seed[stackId]) /\ lake' \in Effect(Seed[stackId][jobs[r]])
      /\ stackId' = stackId /\ polaris' = polaris /\ MayRun(r)
      /\ jobs' = [jobs EXCEPT ![r] = @ + 1] /\ jobs \in [Runs -> Nat]
  BY DEF Statement, ScriptsInv, ScriptsTypeOK, LakeTypeOK
<1>2. lake \in [bucket : BOOLEAN, raw : Int, curated : Int, tez : BOOLEAN]
  BY DEF ScriptsInv, ScriptsTypeOK, LakeTypeOK
<1>3. jobs'[r] = jobs[r] + 1
  BY <1>1
<1>4. stackId \in DOMAIN Script
  BY DEF ScriptsInv, ScriptsTypeOK
<1>5. CASE stackId \in {"udp", "hudi"}
  BY <1>1, <1>2, <1>5 DEF LeftBy, Effect, Seed, ReplaceSeed
<1>6. CASE stackId \in {"trino", "nessie"}
  <2> DEFINE s == Seed[stackId][jobs[r]]
  <2>1. \/ jobs[r] = 1 /\ s = "drop_raw"
        \/ jobs[r] = 2 /\ s = "create_raw"
        \/ jobs[r] = 3 /\ s = "insert"
        \/ jobs[r] = 4 /\ s = "drop_curated"
        \/ jobs[r] = 5 /\ s = "curated_from_raw"
    <3>1. Seed[stackId] = TrinoSeed
      BY <1>6 DEF Seed
    <3>2. jobs[r] \in 1..5
      BY <3>1, <1>1 DEF TrinoSeed
    <3> QED  BY <3>1, <3>2 DEF TrinoSeed
  <2>2. CASE jobs[r] \in {1, 2, 3}
    <3>1. /\ jobs[r] = 2 => lake'.raw = 0
          /\ jobs[r] = 3 => lake'.raw = 5
      BY <1>1, <1>2, <1>6, <2>1, <2>2 DEF LeftBy, Effect
    <3> QED  BY <1>1, <1>3, <1>6, <2>2, <3>1 DEF LeftBy
  <2>3. CASE jobs[r] \in {4, 5}
    <3>1. lake'.raw = 5 /\ (jobs[r] = 5 => lake'.curated = 4)
      BY <1>1, <1>2, <1>6, <2>1, <2>3 DEF LeftBy, Effect
    <3> QED  BY <1>1, <1>3, <1>6, <2>3, <3>1 DEF LeftBy
  <2> QED  BY <2>1, <2>2, <2>3
<1>7. CASE stackId = "delta"
  BY <1>1, <1>2, <1>7 DEF LeftBy, Effect, Seed, DeltaSeed
<1>8. CASE stackId = "polaris"
  BY <1>1, <1>2, <1>8 DEF LeftBy, Effect, Seed, PolarisSeed, MayRun
<1>9. CASE stackId = "enterprise"
  BY <1>1, <1>2, <1>9 DEF LeftBy, Effect, Seed, EnterpriseSeed
<1>10. CASE stackId = "streaming"
  BY <1>1, <1>10 DEF LeftBy
<1> QED  BY <1>4, <1>5, <1>6, <1>7, <1>8, <1>9, <1>10 DEF Script

LEMMA EffectIsTyped ==
  ASSUME lake \in [bucket : BOOLEAN, raw : Int, curated : Int, tez : BOOLEAN], NEW s,
         s \in {"drop_raw", "create_raw", "insert", "create_filled_raw", "replace_raw",
                "drop_curated", "curated_from_raw", "create_curated", "replace_curated"},
         NEW l \in Effect(s)
  PROVE  /\ l \in [bucket : BOOLEAN, raw : Int, curated : Int, tez : BOOLEAN]
         /\ l.tez = lake.tez
<1>1. CASE s \in {"drop_raw", "create_raw", "insert"}
  BY <1>1, AbsentIsInt DEF Effect
<1>2. CASE s \in {"create_filled_raw", "replace_raw", "drop_curated"}
  BY <1>2, AbsentIsInt DEF Effect
<1>3. CASE s \in {"curated_from_raw", "create_curated", "replace_curated"}
  BY <1>3 DEF Effect
<1> QED  BY <1>1, <1>2, <1>3

LEMMA StatementsOfTheSeeds ==
  ASSUME NEW st \in DOMAIN Script, NEW j \in 1..Len(Seed[st])
  PROVE  Seed[st][j] \in {"drop_raw", "create_raw", "insert", "create_filled_raw", "replace_raw",
                          "drop_curated", "curated_from_raw", "create_curated",
                          "replace_curated"}
<1>1. CASE st \in {"udp", "hudi"}
  BY <1>1 DEF Seed, ReplaceSeed
<1>2. CASE st \in {"trino", "nessie"}
  BY <1>2 DEF Seed, TrinoSeed
<1>3. CASE st = "delta"
  BY <1>3 DEF Seed, DeltaSeed
<1>4. CASE st = "polaris"
  BY <1>4 DEF Seed, PolarisSeed
<1>5. CASE st = "enterprise"
  BY <1>5 DEF Seed, EnterpriseSeed
<1>6. CASE st = "streaming"
  BY <1>6 DEF Seed
<1> QED  BY <1>1, <1>2, <1>3, <1>4, <1>5, <1>6 DEF Script

LEMMA StatementKeeps ==
  ASSUME ScriptsInv, NEW r \in Runs, Statement(r)
  PROVE  ScriptsInv'
<1>1. /\ jobs[r] \in 1..Len(Seed[stackId]) /\ lake' \in Effect(Seed[stackId][jobs[r]])
      /\ jobs' = [jobs EXCEPT ![r] = @ + 1]
      /\ UNCHANGED <<stackId, phase, at, runNo, trino, starrocks, polaris, lineage, streaming,
                     beside, unnoticed>>
  BY DEF Statement
<1>2. jobs \in [Runs -> Nat] /\ stackId \in DOMAIN Script
      /\ lake \in [bucket : BOOLEAN, raw : Int, curated : Int, tez : BOOLEAN]
  BY DEF ScriptsInv, ScriptsTypeOK, LakeTypeOK
<1>3. jobs[r] \in Nat \ {0}
  BY <1>1, <1>2, SeedsAreSequences
<1>4. /\ jobs' \in [Runs -> Nat] /\ jobs'[r] # Idle /\ jobs[r] # Idle
      /\ \A q \in Runs \ {r} : jobs'[q] = jobs[q]
  BY <1>1, <1>2, <1>3 DEF Idle
<1>5. /\ lake' \in [bucket : BOOLEAN, raw : Int, curated : Int, tez : BOOLEAN]
      /\ lake'.tez = lake.tez
  BY <1>1, <1>2, StatementsOfTheSeeds, EffectIsTyped
<1>6. PastSteps' = PastSteps
  BY <1>1 DEF PastSteps
<1>7. ScriptsTypeOK'
  BY <1>1, <1>4, <1>5 DEF ScriptsInv, ScriptsTypeOK, LakeTypeOK
<1>8. ASSUME phase = "running", jobs'[runNo] # Idle
      PROVE  Step("seed")' /\ (~beside => Alone' /\ LeftBy(jobs[runNo])')
  <2>1. runNo \in Runs
    BY <1>8 DEF ScriptsInv, ScriptsTypeOK
  <2>2. jobs[runNo] # Idle
    BY <2>1, <1>4, <1>8
  <2>3. Step("seed") /\ (~beside => Alone /\ LeftBy(jobs[runNo]))
    BY <2>2, <1>8 DEF ScriptsInv, SeedFollows
  <2>4. ASSUME ~beside
        PROVE  Alone' /\ LeftBy(jobs[runNo])'
    <3>1. r = runNo
      BY <2>1, <2>3, <2>4, <1>4 DEF Alone
    <3>2. LeftBy(jobs[r])'
      BY <3>1, <2>3, <2>4, StatementsFollow
    <3> QED  BY <3>1, <3>2, <2>3, <2>4, <1>1, <1>4 DEF Alone
  <2> QED  BY <2>3, <2>4, <1>1 DEF Step
<1>9. "seed" \in PastSteps => beside
  BY <1>4 DEF ScriptsInv, SeedFollows
<1>10. \A q \in Runs : q > runNo => jobs'[q] = Idle
  BY <1>4 DEF ScriptsInv, SeedFollows
<1>11. SeedFollows'
  BY <1>1, <1>6, <1>8, <1>9, <1>10 DEF SeedFollows
<1>12. OthersHaveNone' /\ TrinoFollows' /\ StarRocksFollows' /\ PolarisFollows' /\ RestFollows'
  BY <1>1, <1>5, <1>6
  DEF ScriptsInv, OthersHaveNone, TrinoFollows, StarRocksFollows, PolarisFollows, RestFollows,
      CatalogWorks
<1> QED  BY <1>7, <1>11, <1>12 DEF ScriptsInv

-----------------------------------------------------------------------------
LEMMA ScriptsInvHolds == ScriptsInv /\ [ScriptsNext]_scriptVars => ScriptsInv'
<1> SUFFICES ASSUME ScriptsInv, [ScriptsNext]_scriptVars
             PROVE  ScriptsInv'
  OBVIOUS
<1>1. CASE UNCHANGED scriptVars
  <2>1. PastSteps' = PastSteps
    BY <1>1 DEF scriptVars, PastSteps
  <2>2. ScriptsTypeOK' /\ OthersHaveNone'
    BY <1>1 DEF scriptVars, ScriptsInv, ScriptsTypeOK, LakeTypeOK, OthersHaveNone
  <2>3. TrinoFollows' /\ StarRocksFollows' /\ PolarisFollows' /\ RestFollows'
    BY <1>1, <2>1
    DEF scriptVars, ScriptsInv, TrinoFollows, StarRocksFollows, PolarisFollows, RestFollows,
        CatalogWorks
  <2>4. SeedFollows'
    BY <1>1, <2>1 DEF scriptVars, ScriptsInv, SeedFollows, Step, Alone, LeftBy
  <2> QED  BY <2>2, <2>3, <2>4 DEF ScriptsInv
<1>2. CASE ScriptsNext
  <2>1. CASE StartScript \/ Stopped \/ Recreate
    BY <2>1, StartScriptKeeps, StoppedKeeps, RecreateKeeps
  <2>2. CASE EnsureBucket \/ StageTez
    BY <2>2, LakeStepsKeep
  <2>3. CASE WriteTrinoCatalog \/ WireLineage \/ RestartTrino \/ SafetyNet
    BY <2>3, TrinoStepsKeep
  <2>4. CASE \/ AddBackend \/ CreateCatalog \/ CreateHudiCatalog \/ CreateView
             \/ CreateCatalogIfMissing
    BY <2>4, StarRocksStepsKeep
  <2>5. CASE CreatePolarisCatalog \/ Principal \/ Grant \/ PersistCreds
    BY <2>5, PolarisStepsKeep
  <2>6. CASE TrinoSeesDelta \/ SubmitPipeline \/ ProduceOrders \/ PipelineRuns
    BY <2>6, WaitStepsKeep, StreamsKeep
  <2>7. CASE Submit \/ JobEnds
    BY <2>7, SubmitKeeps, JobEndsKeeps
  <2>8. CASE \E r \in Runs : Statement(r) \/ JobDies(r)
    BY <2>8, StatementKeeps, JobDiesKeeps
  <2> QED  BY <1>2, <2>1, <2>2, <2>3, <2>4, <2>5, <2>6, <2>7, <2>8 DEF ScriptsNext
<1> QED  BY <1>1, <1>2

(* Where a script has ended, it is past every step it has.                 *)
LEMMA AllPast ==
  ASSUME ScriptsTypeOK, phase = "done"
  PROVE  \A i \in 1..Len(Script[stackId]) : Script[stackId][i] \in PastSteps
BY DEF PastSteps

LEMMA ScriptsInvSays == ScriptsInv => CompleteMeansSmoke
<1> SUFFICES ASSUME ScriptsInv, phase = "done", ~beside, ~unnoticed
             PROVE  SmokePasses[stackId]
  BY DEF CompleteMeansSmoke
<1>1. \A i \in 1..Len(Script[stackId]) : Script[stackId][i] \in PastSteps
  BY AllPast DEF ScriptsInv
<1>2. {"seed"} \subseteq PastSteps => LeftBy(Len(Seed[stackId]) + 1)
  BY DEF ScriptsInv, SeedFollows
<1>3. {"backend", "catalog", "view"} \subseteq PastSteps => StarRocksReads
  BY DEF ScriptsInv, StarRocksFollows, StarRocksReads
<1>4. CASE stackId = "udp"
  <2>1. {"backend", "seed", "catalog", "view"} \subseteq PastSteps
    BY <1>1, <1>4 DEF Script, UdpScript
  <2>2. FiveAndFour
    BY <1>2, <1>4, <2>1 DEF LeftBy, Seed, ReplaceSeed, FiveAndFour
  <2> QED  BY <1>3, <1>4, <2>1, <2>2 DEF SmokePasses, UdpSmoke
<1>5. CASE stackId = "trino"
  <2>1. {"safety_net", "seed", "backend", "catalog", "view"} \subseteq PastSteps
    BY <1>1, <1>5 DEF Script, TrinoScript
  <2>2. lake.curated # Absent
    BY <1>2, <1>5, <2>1 DEF LeftBy, Seed, TrinoSeed, Absent
  <2>3. trino.loaded
    BY <2>1 DEF ScriptsInv, TrinoFollows
  <2> QED  BY <1>3, <1>5, <2>1, <2>2, <2>3 DEF SmokePasses, TrinoSmoke
<1>6. CASE stackId = "nessie"
  <2>1. {"restart", "seed", "backend", "catalog", "view"} \subseteq PastSteps
    BY <1>1, <1>6 DEF Script, NessieScript
  <2>2. FiveAndFour
    BY <1>2, <1>6, <2>1 DEF LeftBy, Seed, TrinoSeed, FiveAndFour
  <2>3. trino.loaded
    BY <2>1, <1>6 DEF ScriptsInv, TrinoFollows, OthersHaveNone
  <2> QED  BY <1>3, <1>6, <2>1, <2>2, <2>3 DEF SmokePasses, NessieSmoke
<1>7. CASE stackId = "hudi"
  <2>1. {"seed"} \subseteq PastSteps
    BY <1>1, <1>7 DEF Script, HudiScript
  <2>2. FiveAndFour
    BY <1>2, <1>7, <2>1 DEF LeftBy, Seed, ReplaceSeed, FiveAndFour
  <2> QED  BY <1>7, <2>2 DEF SmokePasses, HudiSmoke
<1>8. CASE stackId = "delta"
  <2>1. {"seed", "restart"} \subseteq PastSteps
    BY <1>1, <1>8 DEF Script, DeltaScript
  <2>2. FiveAndFour
    BY <1>2, <1>8, <2>1 DEF LeftBy, Seed, DeltaSeed, FiveAndFour
  <2>3. trino.loaded
    BY <2>1, <1>8 DEF ScriptsInv, TrinoFollows, OthersHaveNone
  <2> QED  BY <1>8, <2>2, <2>3 DEF SmokePasses, DeltaSmoke
<1>9. CASE stackId = "polaris"
  <2>1. {"creds", "seed", "backend", "catalog", "view"} \subseteq PastSteps
    BY <1>1, <1>9 DEF Script, PolarisScript
  <2>2. FiveAndFour /\ polaris.grants = Grants
    BY <1>2, <1>9, <2>1 DEF LeftBy, Seed, PolarisSeed, FiveAndFour
  <2>3. polaris.creds = polaris.secret
    BY <2>1 DEF ScriptsInv, PolarisFollows
  <2> QED  BY <1>3, <1>9, <2>1, <2>2, <2>3 DEF SmokePasses, PolarisSmoke
<1>10. CASE stackId = "streaming"
  <2>1. {"orders"} \subseteq PastSteps
    BY <1>1, <1>10 DEF Script, StreamingScript
  <2> QED  BY <1>10, <2>1 DEF ScriptsInv, RestFollows, SmokePasses, StreamingSmoke
<1>11. CASE stackId = "enterprise"
  <2>1. {"tez", "hudi_catalog"} \subseteq PastSteps
    BY <1>1, <1>11 DEF Script, EnterpriseScript
  <2> QED  BY <1>11, <2>1
           DEF ScriptsInv, RestFollows, StarRocksFollows, SmokePasses, EnterpriseSmoke
<1> QED
  BY <1>4, <1>5, <1>6, <1>7, <1>8, <1>9, <1>10, <1>11 DEF Script, ScriptsInv, ScriptsTypeOK

(* However often, and wherever, a bootstrap script was stopped, and the    *)
(* containers created anew between its runs: where the script ends, the    *)
(* smoke script of its stack passes, unless an older seed job went on      *)
(* beside the last one or StarRocks refused what no script looks at.       *)
THEOREM CompleteScriptsPassSmoke == ScriptsSpec => []CompleteMeansSmoke
BY ScriptsStart, ScriptsInvHolds, ScriptsInvSays, PTL DEF ScriptsSpec

=============================================================================
