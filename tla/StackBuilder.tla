---------------------------- MODULE StackBuilder ----------------------------
(***************************************************************************)
(* From a selection of components to the files a stack is started from:    *)
(* the registry (backend/component_registry.py), the composer              *)
(* (backend/stack_composer.py), the configuration files an AI answer is    *)
(* written to (backend/ai_configurator.py) and the patches applied after   *)
(* it (backend/custom_stack_runner.py); the selection is made in the       *)
(* picker of frontend/index.html.                                          *)
(*                                                                         *)
(* A component is reduced to what it depends on, its roles, the host       *)
(* ports it publishes and the files it mounts; a mounted directory is      *)
(* left out, since docker creates it.  Images, versions, environment and   *)
(* health checks change nothing here.                                      *)
(***************************************************************************)
EXTENDS Naturals, Sequences, FiniteSets

CONSTANT MaxSelected   \* bound: components selected

Component(deps, roles, ports, files) ==
  [deps |-> deps, roles |-> roles, ports |-> ports, files |-> files]

HadoopFiles == {"core-site.xml", "hdfs-site.xml"}
YarnFiles == HadoopFiles \cup {"yarn-site.xml", "mapred-site.xml"}
SparkFiles == {"spark-defaults.conf", "core-site.xml", "hive-site.xml"}
SparkPorts == {7077, 8888, 4040, 18080}

Stores == {"minio", "minio-create-bucket", "hdfs", "mysql-hms", "postgres"}
Store(id) ==
  CASE id = "minio" -> Component({}, {"s3_store"}, {9000, 9001}, {})
    [] id = "minio-create-bucket" -> Component({"minio"}, {"bucket_init"}, {}, {})
    [] id = "hdfs" -> Component({}, {"hdfs_store"}, {9870, 9864, 8020}, HadoopFiles)
    [] id = "mysql-hms" -> Component({}, {"hms_db"}, {}, {})
    [] id = "postgres" -> Component({}, {"postgres_db"}, {5533}, {})
Catalogs == {"hive-metastore", "nessie", "iceberg-rest"}
Catalog(id) ==
  CASE id = "hive-metastore" ->
         Component({"mysql-hms"}, {"hive_catalog"}, {9083}, {"hive-metastore-site.xml"})
    [] id = "nessie" -> Component({}, {"nessie_catalog"}, {19120}, {"nessie.properties"})
    [] id = "iceberg-rest" -> Component({"minio"}, {"iceberg_rest_catalog"}, {8181}, {})
Spark(format) ==
  Component({"minio-create-bucket"}, {"spark_engine"} \cup format, SparkPorts, SparkFiles)
Sparks == {"spark", "spark-hudi", "spark-delta", "spark-iceberg"}
SparkOf(id) ==
  CASE id = "spark" -> Spark({})
    [] id = "spark-hudi" -> Spark({"hudi_format"})
    [] id = "spark-delta" -> Spark({"delta_format"})
    [] id = "spark-iceberg" -> Spark({"iceberg_format"})
Streams == {"trino", "starrocks", "kafka", "zookeeper", "flink", "kafka-connect"}
Stream(id) ==
  CASE id = "trino" -> Component({}, {"sql_engine"}, {8285}, {})
    [] id = "starrocks" -> Component({}, {"olap_engine"}, {8030, 9030, 8040, 9040}, {})
    [] id = "kafka" -> Component({"zookeeper"}, {"message_bus"}, {9092, 9101}, {})
    [] id = "zookeeper" -> Component({}, {"zk_coord"}, {2181}, {})
    [] id = "flink" -> Component({"kafka"}, {"stream_processor"}, {8180, 6123}, {})
    [] id = "kafka-connect" -> Component({"kafka"}, {"kafka_connect"}, {8083}, {})
Orchestrators == {"airflow", "dagster", "dbt", "solr", "pgbouncer"}
Orchestrator(id) ==
  CASE id = "airflow" -> Component({"postgres"}, {"dag_scheduler"}, {8090}, {})
    [] id = "dagster" ->
         Component({"postgres"}, {"asset_scheduler"}, {3001}, {"workspace.yaml"})
    [] id = "dbt" ->
         Component({"trino"}, {"sql_transform"}, {8585}, {"dbt/profiles.yml"})
    [] id = "solr" -> Component({}, {"audit_store"}, {8983}, {})
    [] id = "pgbouncer" -> Component({"postgres"}, {"pg_pool"}, {5433}, {})
Watchers == {"prometheus", "grafana", "loki", "superset"}
Watcher(id) ==
  CASE id = "prometheus" -> Component({}, {"metrics_store"}, {9090}, {"prometheus.yml"})
    [] id = "grafana" -> Component({"prometheus"}, {"dashboard"}, {3010}, {})
    [] id = "loki" -> Component({}, {"log_store"}, {3100}, {"loki.yml"})
    [] id = "superset" -> Component({"postgres"}, {"bi_tool"}, {8089}, {})
Hadoop == {"hadoop-yarn", "hadoop-yarn-nm", "hive", "tez"}
HadoopPart(id) ==
  CASE id = "hadoop-yarn" -> Component({"hdfs"}, {"yarn_rm"}, {8188}, YarnFiles)
    [] id = "hadoop-yarn-nm" ->
         Component({"hadoop-yarn"}, {"yarn_nm"}, {8042}, YarnFiles)
    [] id = "hive" ->
         Component({"hive-metastore", "hdfs"}, {"hive_engine"}, {10000, 10002},
                   {"hiveserver2-site.xml", "core-site.xml"})
    [] id = "tez" ->
         Component({"hdfs", "hadoop-yarn"}, {"tez_engine"}, {},
                   {"tez-site.xml", "core-site.xml"})
Extras == {"ranger-admin", "jupyter", "polaris", "debezium", "openlineage", "trino-enterprise"}
Extra(id) ==
  CASE id = "ranger-admin" -> Component({"postgres"}, {"policy_engine"}, {6080}, {})
    [] id = "jupyter" -> Component({}, {"notebook_server"}, {8889}, {})
    [] id = "polaris" -> Component({"minio"}, {"polaris_catalog"}, {8181, 8182}, {})
    [] id = "debezium" -> Component({"kafka"}, {"cdc_ingest"}, {8083}, {})
    [] id = "openlineage" ->
         Component({"postgres"}, {"lineage_server"}, {5000, 5001}, {})
    [] id = "trino-enterprise" ->
         Component({"hive-metastore"}, {"sql_engine", "federated_sql"}, {8285}, {})

Ids ==
  Stores \cup Catalogs \cup Sparks \cup Streams
  \cup Orchestrators \cup Watchers \cup Hadoop \cup Extras
COMPONENTS ==
  [id \in Ids |->
     CASE id \in Stores -> Store(id)
       [] id \in Catalogs -> Catalog(id)
       [] id \in Sparks -> SparkOf(id)
       [] id \in Streams -> Stream(id)
       [] id \in Orchestrators -> Orchestrator(id)
       [] id \in Watchers -> Watcher(id)
       [] id \in Hadoop -> HadoopPart(id)
       [] id \in Extras -> Extra(id)]
ExperimentalIds == {"tez"}
Bucket == {"minio", "minio-create-bucket"}
HdfsFamily == {"hdfs", "hadoop-yarn", "hadoop-yarn-nm"}
Yarn == {"hadoop-yarn", "hadoop-yarn-nm"}

_AUTO_DEPS(role) ==
  CASE role \in {"spark_engine", "nessie_catalog", "iceberg_rest_catalog", "polaris_catalog"} -> Bucket
    [] role = "hive_catalog" -> {"mysql-hms"}
    [] role \in {"hive_engine", "tez_engine"} -> {"hadoop-yarn"}
    [] role = "yarn_rm" -> {"hadoop-yarn-nm"}
    [] role = "federated_sql" -> {"hive-metastore"}
    [] role \in {"dag_scheduler", "asset_scheduler", "bi_tool", "lineage_server", "policy_engine",
                 "pg_pool"} -> {"postgres"}
    [] role = "sql_transform" -> {"trino"}
    [] role = "dashboard" -> {"prometheus"}
    [] role = "message_bus" -> {"zookeeper"}
    [] role \in {"stream_processor", "cdc_ingest"} -> {"kafka"}
    [] OTHER -> {}

_MUTUALLY_EXCLUSIVE ==
  {{"spark-hudi", "spark-delta"}, {"spark-hudi", "spark-iceberg"}, {"spark-delta", "spark-iceberg"},
   {"spark-hudi", "spark"}, {"spark-delta", "spark"}, {"spark-iceberg", "spark"},
   {"nessie", "iceberg-rest"}, {"trino", "trino-enterprise"}, {"debezium", "kafka-connect"}}

(* The order of resolve_dependencies; what it does not name comes last.    *)
order ==
  <<"zookeeper", "postgres", "mysql-hms", "solr", "minio", "hdfs", "minio-create-bucket",
    "hive-metastore", "nessie", "iceberg-rest", "polaris", "hadoop-yarn", "hadoop-yarn-nm", "spark",
    "spark-hudi", "spark-delta", "spark-iceberg", "hive", "tez", "kafka", "debezium", "flink",
    "kafka-connect", "trino", "trino-enterprise", "starrocks", "ranger-admin", "prometheus",
    "grafana", "loki", "airflow", "dagster", "dbt", "openlineage", "pgbouncer", "superset">>
Position == [c \in Ids |-> IF \E i \in 1..Len(order) : order[i] = c
                           THEN CHOOSE i \in 1..Len(order) : order[i] = c ELSE Len(order) + 1]

VARIABLES
  selected,      \* _sbSelected, then the list of the request
  experimental,  \* include_experimental
  stage,         \* "picking", "resolving", "resolved", "composed", "configured", "patched"
  result,        \* result of resolve_dependencies, then the services of the file
  mounts,        \* the files the compose file mounts
  written,       \* the files that are in the install directory
  answered,      \* the AI answered with every field it was asked for
  metastore      \* a hive-metastore container is left from another stack

builderVars == <<selected, experimental, stage, result, mounts, written, answered, metastore>>

BuilderInit ==
  /\ selected = {} /\ experimental \in BOOLEAN /\ stage = "picking" /\ result = {}
  /\ mounts = {} /\ written = {} /\ answered \in BOOLEAN /\ metastore \in BOOLEAN

-----------------------------------------------------------------------------
(* The picker: selecting a component drops those it excludes.              *)
_sbToggle(id) ==
  /\ stage = "picking"
  /\ LET kept == {c \in selected : {c, id} \notin _MUTUALLY_EXCLUSIVE}
     IN selected' = IF id \in kept THEN kept \ {id} ELSE kept \cup {id}
  /\ Cardinality(selected') <= MaxSelected
  /\ UNCHANGED <<experimental, stage, result, mounts, written, answered, metastore>>

(* The dialog of a template adds a component and drops none.               *)
PreInstallAdd(id) ==
  /\ stage = "picking" /\ Cardinality(selected) < MaxSelected
  /\ selected' = selected \cup {id}
  /\ UNCHANGED <<experimental, stage, result, mounts, written, answered, metastore>>

RequestBuild ==
  /\ stage = "picking" /\ selected # {}
  /\ stage' = "resolving" /\ result' = selected
  /\ UNCHANGED <<selected, experimental, mounts, written, answered, metastore>>

Needs(c) == COMPONENTS[c].deps \cup UNION {_AUTO_DEPS(role) : role \in COMPONENTS[c].roles}

(* Mutant: only depends_on is followed.                                    *)
Additions_DependsOnOnly(now) ==
  LET skipped == IF now \cap HdfsFamily # {} THEN Bucket ELSE {}
  IN (UNION {COMPONENTS[c].deps : c \in now}) \ (now \cup skipped)

(* What one pass of resolve_dependencies adds.  The object store is left   *)
(* out when HDFS is there at the start of the pass.                        *)
Additions(now) ==
  LET skipped == IF now \cap HdfsFamily # {} THEN Bucket ELSE {}
  IN (UNION {Needs(c) : c \in now}) \ (now \cup skipped)

Pass ==
  /\ stage = "resolving"
  /\ result' = result \cup Additions(result)
  /\ stage' = IF Additions(result) = {} THEN "resolved" ELSE stage
  /\ UNCHANGED <<selected, experimental, mounts, written, answered, metastore>>

WillBeGenerated(file, resolved) ==
  /\ file \in HadoopFiles => resolved \cap HdfsFamily # {}
  /\ file \in YarnFiles \ HadoopFiles => resolved \cap Yarn # {}
  /\ file = "hive-site.xml" => "hive-metastore" \in resolved
  /\ file = "tez-site.xml" => "tez" \in resolved

(* write_compose: experimental components are left out of the file. *)
WriteCompose ==
  /\ stage = "resolved" /\ stage' = "composed"
  /\ LET resolved == result \ (IF experimental THEN {} ELSE ExperimentalIds)
     IN /\ result' = resolved
        /\ mounts' = {f \in UNION {COMPONENTS[c].files : c \in resolved} :
                       WillBeGenerated(f, resolved)}
  /\ UNCHANGED <<selected, experimental, written, answered, metastore>>

(* The fields the prompt asks for, each named by the file it is written    *)
(* to.                                                                     *)
Asked(resolved) ==
  LET If(condition, files) == IF condition THEN files ELSE {}
  IN If(\E c \in resolved : "spark_engine" \in COMPONENTS[c].roles, {"spark-defaults.conf"})
     \cup If(resolved \cap HdfsFamily # {}, HadoopFiles)
     \cup If(resolved \cap Yarn # {}, YarnFiles \ HadoopFiles)
     \cup If("tez" \in resolved, {"tez-site.xml"})
     \cup If("hive-metastore" \in resolved, {"hive-metastore-site.xml", "hiveserver2-site.xml"})
     \cup If("nessie" \in resolved, {"nessie.properties"})
     \cup If("prometheus" \in resolved, {"prometheus.yml"})
     \cup If("loki" \in resolved, {"loki.yml"})
     \cup If("dagster" \in resolved, {"workspace.yaml"})
     \cup If("dbt" \in resolved, {"config/dbt/profiles.yml"})

WriteConfigs ==
  /\ stage = "composed" /\ stage' = "configured"
  /\ written' = IF answered THEN Asked(result) ELSE {}
  /\ UNCHANGED <<selected, experimental, result, mounts, answered, metastore>>

(* The patches write some files whatever the answer was, give hive a jar   *)
(* taken from a running metastore, and postgres a script for Ranger.       *)
ApplyPostWritePatches ==
  /\ stage = "configured" /\ stage' = "patched"
  /\ LET ranger == IF {"ranger-admin", "postgres"} \subseteq result THEN {"init-ranger.sql"} ELSE {}
         catalog == IF "spark-iceberg" \in result /\ result \cap {"iceberg-rest", "nessie"} # {}
                    THEN {"spark-defaults.conf"} ELSE {}
     IN /\ mounts' = mounts \cup ranger \cup IF "hive" \in result THEN {"mysql-connector.jar"} ELSE {}
        /\ written' = written \cup {"hiveserver2-site.xml", "hive-site.xml"} \cup ranger \cup catalog
                       \cup IF metastore THEN {"mysql-connector.jar"} ELSE {}
  /\ UNCHANGED <<selected, experimental, result, answered, metastore>>

BuilderNext ==
  \/ \E id \in Ids : _sbToggle(id) \/ PreInstallAdd(id)
  \/ RequestBuild \/ Pass \/ WriteCompose \/ WriteConfigs \/ ApplyPostWritePatches

BuilderSpec == BuilderInit /\ [][BuilderNext]_builderVars

-----------------------------------------------------------------------------
StackTypeOK ==
  /\ selected \subseteq Ids /\ result \subseteq Ids /\ experimental \in BOOLEAN
  /\ answered \in BOOLEAN /\ metastore \in BOOLEAN
  /\ stage \in {"picking", "resolving", "resolved", "composed", "configured", "patched"}

Resolved == stage \in {"resolved", "composed", "configured", "patched"}

(* Resolution stops where nothing is missing: whatever was picked, every   *)
(* service that is in the compose file has what it needs in it, but for    *)
(* the object store of a stack on HDFS; nothing came in that no service    *)
(* needs; and the order puts what a service depends on before it.          *)
ResolutionIsSound ==
  Resolved =>
    /\ \A c \in result : Needs(c) \subseteq result \cup IF result \cap HdfsFamily # {} THEN Bucket ELSE {}
    /\ stage = "resolved" => \A c \in result \ selected : \E d \in result : c \in Needs(d)
    /\ \A c \in result : \A d \in COMPONENTS[c].deps \cap result : Position[d] < Position[c]

(* Two services publish one host port only when the picker keeps them      *)
(* apart, but for the REST catalog and Polaris.                            *)
ClashesAreExcluded ==
  \A c, d \in result :
    (c # d /\ COMPONENTS[c].ports \cap COMPONENTS[d].ports # {}) =>
      {c, d} \in _MUTUALLY_EXCLUSIVE \cup {{"iceberg-rest", "polaris"}}

(* When the AI answered with what it was asked for, every file the compose *)
(* file mounts has been written, but for the profile of dbt and, when no   *)
(* metastore ran before, the driver of Hive.                               *)
MountsAreWritten ==
  (stage = "patched" /\ answered) =>
    mounts \subseteq written \cup {"dbt/profiles.yml"}
                          \cup IF metastore THEN {} ELSE {"mysql-connector.jar"}

(* Whatever was picked, every service has what it needs and starts after   *)
(* it, and no two services take one host port but the pair that may; and   *)
(* when the AI answered in full, the files the compose file mounts are     *)
(* there, but for those that are known to be missing.                      *)
SelectionIsSound == ResolutionIsSound /\ ClashesAreExcluded /\ MountsAreWritten

(* resolve_dependencies: "when hdfs/hadoop-yarn is in the stack,           *)
(* minio/minio-create-bucket are NOT auto-added".                          *)
HdfsSuppressesBucket ==
  (Resolved /\ result \cap HdfsFamily # {}) => result \cap Bucket \subseteq selected
=============================================================================
