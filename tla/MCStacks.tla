------------------------------ MODULE MCStacks ------------------------------
(***************************************************************************)
(* What makes a stack, for model checking: the directory of an installed   *)
(* one, a selection of components and its files, the build of such a       *)
(* selection, the scripts that fill a stack with data, the harness that    *)
(* certifies one, and the cart of the build screen with its checkers.      *)
(* They share neither a variable nor, in what is modelled, a file; the run *)
(* follows one of them at a time.                                          *)
(***************************************************************************)
EXTENDS InstallDirectory, CartScreen, CartCheck, CustomStack, InstallHarness,
        StackBuilder, StackScripts, TLC

MCOverlayOrder == <<"airflow", "superset">>

(* The manifests of stacks/ are of two kinds: those on the UDP repository, *)
(* all with a fragment, and the bundled ones.                              *)
MCStackKinds == {[git |-> b, compose |-> b, fragment |-> b] : b \in BOOLEAN}

(* A part of the catalog and of four of the locks, with the ids the cart   *)
(* screen does not offer (spark, starrocks-fe, minio-client) among them,   *)
(* and a rule of co-presence as explain_cart describes it.                 *)
MCCategory ==
  [c \in {"iceberg", "hudi", "iceberg-rest", "hive-metastore", "minio", "spark-iceberg",
          "spark-hudi", "trino", "starrocks"} |->
     CASE c \in {"iceberg", "hudi"} -> "table_format"
       [] c \in {"iceberg-rest", "hive-metastore"} -> "catalog"
       [] c = "minio" -> "object_storage"
       [] c = "starrocks" -> "serving"
       [] OTHER -> "processing"]

MCCartIds == DOMAIN MCCategory \cup {"spark", "starrocks-fe", "minio-client"}

MCCompatibleWith ==
  [c \in DOMAIN MCCategory |->
     CASE c = "iceberg" -> {"iceberg-rest", "spark-iceberg", "starrocks"}
       [] c = "hudi" -> {"hive-metastore", "spark-hudi"}
       [] c = "iceberg-rest" -> {"iceberg", "spark-iceberg", "starrocks"}
       [] c = "hive-metastore" -> {"hudi", "spark-hudi", "starrocks", "trino"}
       [] c = "minio" -> {"iceberg-rest", "spark-iceberg"}
       [] c \in {"spark-iceberg", "trino"} -> {"iceberg", "iceberg-rest", "minio"}
       [] c = "spark-hudi" -> {"hive-metastore", "hudi", "minio"}
       [] c = "starrocks" -> {"iceberg", "iceberg-rest"}]

MCRequired == <<"table_format", "catalog", "object_storage", "processing">>

MCRecommended ==
  [c \in {MCRequired[i] : i \in 1..4} |->
     CASE c = "table_format" -> "iceberg" [] c = "catalog" -> "iceberg-rest"
       [] c = "object_storage" -> "minio" [] c = "processing" -> "spark-iceberg"]

Item(id, form) == [id |-> id, form |-> form]
Lock(ids, incompatible) ==
  [status |-> "pilot-stable", ids |-> ids, incompatible |-> incompatible]

(* hudi-hms-spark-local, techsophy-sdp-hadoop, udp-local, udp-trino-local. *)
MCLocks ==
  <<Lock({"hive-metastore", "minio", "minio-client", "spark-hudi"},
         {<<Item("spark-hudi", "bare"), Item("iceberg-rest", "advisory")>>,
          <<Item("hive-metastore", "tag"), Item("spark-hudi", "tag")>>}),
    Lock({"hive-metastore", "hudi", "spark", "trino"}, {<<Item("trino", "text")>>}),
    Lock({"iceberg-rest", "minio", "minio-client", "spark", "starrocks-fe"},
         {<<Item("spark", "tag")>>, <<Item("starrocks-fe", "text")>>}),
    Lock({"iceberg-rest", "minio", "minio-client", "starrocks-fe", "trino"},
         {<<Item("trino", "tag")>>})>>

RecSet(s, ids) == [stack |-> s, components |-> ids]
MCRecommendedSets ==
  <<RecSet(3, {"iceberg", "iceberg-rest", "spark-iceberg", "minio", "starrocks"}),
    RecSet(4, {"iceberg", "iceberg-rest", "trino", "minio", "starrocks"}),
    RecSet(1, {"hudi", "hive-metastore", "spark-hudi", "minio"}),
    RecSet(3, {"iceberg", "iceberg-rest", "spark-iceberg", "minio", "starrocks"})>>

MCDetails == {<<"starrocks", "starrocks-fe">>, <<"spark", "spark-hudi">>,
              <<"spark", "spark-iceberg">>}

(* The screen shows four of the components; a template needs only its      *)
(* table format, a goal and another template something else.               *)
MCItems == {"iceberg", "iceberg-rest", "minio", "spark-iceberg"}
MCCartOf ==
  [t \in {"full", "part", "goal"} |-> IF t = "full" THEN MCItems ELSE MCItems \ {"minio"}]

VARIABLE part

stacksVars == <<part, vars, builderVars, stackVars, scriptVars, harnessVars, shopCart, screenVars>>

(* What the build screen is given: one template of everything and one      *)
(* without the catalog, one goal, and the verdicts of validate_cart.       *)
MCFormats == {"iceberg"}
MCTemplates == {"full", "part"}
MCGoals == {"goal"}
MCCompleteCarts == {c \in SUBSET MCItems : Complete(c)}

ASSUME StacksAssumption == ScreenAssumption

(* What is not followed stays as it is, so any of it will do.              *)
StacksInit ==
  /\ part \in {"directory", "builder", "build", "scripts", "harness", "cart", "screen"}
  /\ HarnessInit /\ Init /\ BuilderInit /\ BuildsInit /\ ScriptsInit /\ CartInit /\ ScreenInit
  /\ part # "directory" => stack = CHOOSE k \in Stacks : TRUE
  /\ part # "builder" => ~experimental /\ ~answered /\ ~metastore
  /\ part # "harness" => container = NoContainer
  /\ part # "scripts" => stackId = "hudi" /\ lineage = "none"

StacksNext ==
  \/ /\ part = "directory" /\ Next
     /\ UNCHANGED <<part, builderVars, stackVars, scriptVars, harnessVars, shopCart, screenVars>>
  \/ /\ part = "builder" /\ BuilderNext
     /\ UNCHANGED <<part, vars, stackVars, scriptVars, harnessVars, shopCart, screenVars>>
  \/ /\ part = "build" /\ BuildsNext
     /\ UNCHANGED <<part, vars, builderVars, scriptVars, harnessVars, shopCart, screenVars>>
  \/ /\ part = "scripts" /\ ScriptsNext
     /\ UNCHANGED <<part, vars, builderVars, stackVars, harnessVars, shopCart, screenVars>>
  \/ /\ part = "harness" /\ HarnessNext
     /\ UNCHANGED <<part, vars, builderVars, stackVars, scriptVars, shopCart, screenVars>>
  \/ /\ part = "cart" /\ CartNext
     /\ UNCHANGED <<part, vars, builderVars, stackVars, scriptVars, harnessVars, screenVars>>
  \/ /\ part = "screen" /\ ScreenNext
     /\ UNCHANGED <<part, vars, builderVars, stackVars, scriptVars, harnessVars, shopCart>>
StacksSpec == StacksInit /\ [][StacksNext]_stacksVars

Symmetry == Permutations(Names) \cup Permutations(Components)
=============================================================================
