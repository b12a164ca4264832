---------------------------- MODULE StackScripts ----------------------------
(***************************************************************************)
(* The bootstrap scripts of the stacks (backend/runner.py,                 *)
(* backend/runner_extra_scripts.py and stacks/*/scripts/lhs-bootstrap.sh): *)
(* what they leave behind when they are stopped at any step, run again and *)
(* again, and when the containers are created anew in between; and what    *)
(* the smoke scripts then find.                                            *)
(*                                                                         *)
(* A script stops at the first command that fails (set -e); the wait for a *)
(* service is part of the step that needs it.  A seed job runs in a        *)
(* container: it may go on when the script that started it is stopped.     *)
(* The demo job of the udp stack is not in this repository; it is taken to *)
(* replace both tables.                                                    *)
(***************************************************************************)
EXTENDS Integers, Sequences

CONSTANTS
  MaxScripts,    \* bound: runs of the script
  MaxRecreated   \* bound: times the containers are created anew

ASSUME ScriptsAssumption == MaxScripts \in Nat

VARIABLES
  stackId,       \* the stack the script belongs to
  phase,         \* "idle", "running" or "done": the last run of the script
  at,            \* the step it is at
  runNo,         \* runs so far
  jobs,          \* [1..MaxScripts -> statement its seed job is at, or Idle]
  key,           \* [1..MaxScripts -> credentials that job has read]
  lake,          \* bucket, raw and curated rows, Tez archive
  trino,         \* file, listener, up and the catalog loaded
  starrocks,     \* backend, catalog (its credentials) and view
  polaris,       \* secret in force, secret at hand, grants, creds file
  lineage,       \* whether a Marquez listener is configured, and works
  streaming,     \* orders in the topic and Flink jobs by their status
  beside,        \* history: the last seed job began beside an older one
  unnoticed,     \* history: the last run has swallowed a failure of StarRocks
  recreated

scriptVars == <<stackId, phase, at, runNo, jobs, key, lake, trino, starrocks, polaris, lineage,
                streaming, beside, unnoticed, recreated>>

Absent == -1
Idle == 0
NoKey == 0
Runs == 1..MaxScripts
Grants == {"engineer", "manage_content", "service_admin", "assigned", "bound"}

(* The steps of the scripts that change something. *)
UdpScript == <<"bucket", "backend", "seed", "catalog", "view">>
TrinoScript == <<"bucket", "catalog_file", "listener", "restart", "safety_net", "seed", "backend",
                 "catalog", "view">>
NessieScript == <<"bucket", "catalog_file", "restart", "seed", "backend", "catalog", "view">>
HudiScript == <<"seed">>
DeltaScript == <<"seed", "catalog_file", "restart", "seen">>
PolarisScript == <<"polaris_catalog", "principal", "grants", "creds", "seed", "backend", "catalog",
                   "view">>
StreamingScript == <<"orders", "submit", "catalog_if_missing">>
EnterpriseScript == <<"tez", "backend", "hudi_catalog", "seed">>

Script ==
  [udp |-> UdpScript, trino |-> TrinoScript, nessie |-> NessieScript, hudi |-> HudiScript,
   delta |-> DeltaScript, polaris |-> PolarisScript, streaming |-> StreamingScript,
   enterprise |-> EnterpriseScript]

(* The statements of the seed jobs. *)
ReplaceSeed == <<"replace_raw", "replace_curated">>
TrinoSeed == <<"drop_raw", "create_raw", "insert", "drop_curated", "curated_from_raw">>
DeltaSeed == <<"drop_raw", "drop_curated", "replace_raw", "replace_curated">>
PolarisSeed == <<"drop_raw", "drop_curated", "create_filled_raw", "create_curated">>
EnterpriseSeed == <<"replace_raw">>

Seed ==
  [udp |-> ReplaceSeed, trino |-> TrinoSeed, nessie |-> TrinoSeed, hudi |-> ReplaceSeed,
   delta |-> DeltaSeed, polaris |-> PolarisSeed, streaming |-> <<>>,
   enterprise |-> EnterpriseSeed]

ScriptsInit ==
  /\ stackId \in DOMAIN Script /\ phase = "idle" /\ at = 1 /\ runNo = 0
  /\ jobs = [r \in Runs |-> Idle] /\ key = [r \in Runs |-> NoKey]
  /\ lake = [bucket |-> FALSE, raw |-> Absent, curated |-> Absent, tez |-> FALSE]
  /\ trino = [file |-> FALSE, listener |-> FALSE, up |-> TRUE, loaded |-> FALSE]
  /\ starrocks = [backend |-> FALSE, catalog |-> Absent, view |-> FALSE]
  /\ polaris = [catalog |-> FALSE, secret |-> NoKey, hand |-> NoKey, grants |-> {},
                creds |-> NoKey]
  /\ lineage \in (IF stackId = "trino" THEN {"none", "good", "bad"} ELSE {"none"})
  /\ streaming = [orders |-> 0, created |-> 0, running |-> 0, rows |-> 0]
  /\ beside = FALSE /\ unnoticed = FALSE /\ recreated = 0

-----------------------------------------------------------------------------
Step(s) == phase = "running" /\ Script[stackId][at] = s

GoesOn ==
  /\ IF at = Len(Script[stackId])
       THEN phase' = "done" /\ at' = 1
       ELSE phase' = phase /\ at' = at + 1
  /\ UNCHANGED <<stackId, runNo, lineage, recreated>>

StartScript ==
  /\ phase # "running" /\ runNo < MaxScripts
  /\ phase' = "running" /\ at' = 1 /\ runNo' = runNo + 1
  /\ unnoticed' = FALSE
  /\ UNCHANGED <<stackId, jobs, key, lake, trino, starrocks, polaris, lineage, streaming, beside,
                 recreated>>

(* A command fails, or the step of the install is timed out or cancelled.  *)
(* A step of two commands may be left between them.                        *)
Stopped ==
  /\ phase = "running" /\ phase' = "idle" /\ at' = 1
  /\ starrocks' \in {starrocks}
       \cup (IF Step("catalog") THEN {[starrocks EXCEPT !.catalog = Absent]}
            ELSE IF Step("view") THEN {[starrocks EXCEPT !.view = FALSE]} ELSE {})
  /\ polaris' \in {polaris}
       \cup (IF Step("principal") THEN {[polaris EXCEPT !.secret = runNo]} ELSE {})
  /\ UNCHANGED <<stackId, runNo, jobs, key, lake, trino, lineage, streaming, beside, unnoticed,
                 recreated>>

(* mc mb, its failure swallowed. *)
EnsureBucket ==
  /\ Step("bucket") /\ GoesOn
  /\ \E made \in BOOLEAN : lake' = [lake EXCEPT !.bucket = @ \/ made]
  /\ UNCHANGED <<jobs, key, trino, starrocks, polaris, streaming, beside, unnoticed>>

WriteTrinoCatalog ==
  /\ Step("catalog_file") /\ GoesOn
  /\ trino' = [trino EXCEPT !.file = TRUE]
  /\ UNCHANGED <<jobs, key, lake, starrocks, polaris, streaming, beside, unnoticed>>

WireLineage ==
  /\ Step("listener") /\ GoesOn
  /\ trino' = [trino EXCEPT !.listener = lineage # "none"]
  /\ UNCHANGED <<jobs, key, lake, starrocks, polaris, streaming, beside, unnoticed>>

(* Trino reads its catalogs when it starts. *)
Reads(t) == [t EXCEPT !.up = ~(t.listener /\ lineage = "bad"),
                      !.loaded = t.file /\ ~(t.listener /\ lineage = "bad")]

RestartTrino ==
  /\ Step("restart") /\ GoesOn
  /\ trino' = Reads(trino)
  /\ UNCHANGED <<jobs, key, lake, starrocks, polaris, streaming, beside, unnoticed>>

(* Without the listener that keeps it from starting. *)
SafetyNet ==
  /\ Step("safety_net") /\ GoesOn
  /\ trino' = IF ~trino.up /\ trino.listener
                THEN Reads([trino EXCEPT !.listener = FALSE])
                ELSE trino
  /\ UNCHANGED <<jobs, key, lake, starrocks, polaris, streaming, beside, unnoticed>>

(* The loop that counts the rows, which ends the script when it gives up. *)
TrinoSeesDelta ==
  /\ Step("seen") /\ trino.loaded /\ lake.raw = 5 /\ GoesOn
  /\ UNCHANGED <<jobs, key, lake, trino, starrocks, polaris, streaming, beside, unnoticed>>

(* ALTER SYSTEM ADD BACKEND, its failure swallowed. *)
AddBackend ==
  /\ Step("backend") /\ GoesOn
  /\ \E added \in BOOLEAN : starrocks' = [starrocks EXCEPT !.backend = @ \/ added]
  /\ unnoticed' = ~starrocks'.backend
  /\ UNCHANGED <<jobs, key, lake, trino, polaris, streaming, beside>>

(* DROP CATALOG IF EXISTS and CREATE EXTERNAL CATALOG, with the            *)
(* credentials at hand for Polaris.                                        *)
CreateCatalog ==
  /\ Step("catalog") /\ GoesOn
  /\ starrocks' = [starrocks EXCEPT !.catalog = polaris.hand]
  /\ UNCHANGED <<jobs, key, lake, trino, polaris, streaming, beside, unnoticed>>

(* The same for the Enterprise stack, its failure swallowed. *)
CreateHudiCatalog ==
  /\ Step("hudi_catalog") /\ GoesOn
  /\ \E c \in {starrocks.catalog, Absent, NoKey} :
       /\ starrocks' = [starrocks EXCEPT !.catalog = c]
       /\ unnoticed' = (unnoticed \/ c = Absent)
  /\ UNCHANGED <<jobs, key, lake, trino, polaris, streaming, beside>>

CatalogWorks ==
  starrocks.catalog = (IF stackId = "polaris" THEN polaris.secret ELSE NoKey)

(* DROP VIEW IF EXISTS and CREATE VIEW, which looks its table up. *)
CreateView ==
  /\ Step("view") /\ CatalogWorks /\ lake.curated # Absent /\ GoesOn
  /\ starrocks' = [starrocks EXCEPT !.view = TRUE]
  /\ UNCHANGED <<jobs, key, lake, trino, polaris, streaming, beside, unnoticed>>

-----------------------------------------------------------------------------
(* Polaris: its management API. *)
CreatePolarisCatalog ==
  /\ Step("polaris_catalog") /\ GoesOn
  /\ polaris' = [polaris EXCEPT !.catalog = TRUE]
  /\ UNCHANGED <<jobs, key, lake, trino, starrocks, streaming, beside, unnoticed>>

(* A principal that exists has its credentials rotated. *)
Principal ==
  /\ Step("principal") /\ GoesOn
  /\ polaris' = [polaris EXCEPT !.secret = runNo, !.hand = runNo]
  /\ UNCHANGED <<jobs, key, lake, trino, starrocks, streaming, beside, unnoticed>>

(* Each of the five requests may fail unnoticed. *)
Grant ==
  /\ Step("grants") /\ GoesOn
  /\ \E gs \in {{}, Grants \ {"bound"}, Grants} :
       polaris' = [polaris EXCEPT !.grants = @ \cup gs]
  /\ UNCHANGED <<jobs, key, lake, trino, starrocks, streaming, beside, unnoticed>>

PersistCreds ==
  /\ Step("creds") /\ GoesOn
  /\ polaris' = [polaris EXCEPT !.creds = polaris.hand]
  /\ UNCHANGED <<jobs, key, lake, trino, starrocks, streaming, beside, unnoticed>>

-----------------------------------------------------------------------------
(* Seed jobs. *)
Submit ==
  /\ Step("seed") /\ jobs[runNo] = Idle
  /\ jobs' = [jobs EXCEPT ![runNo] = 1]
  /\ key' = [key EXCEPT ![runNo] = polaris.creds]
  /\ beside' = \E r \in Runs \ {runNo} : jobs[r] # Idle
  /\ UNCHANGED <<stackId, phase, at, runNo, lake, trino, starrocks, polaris, lineage, streaming,
                 unnoticed, recreated>>

(* The job can reach its tables. *)
MayRun(r) ==
  /\ stackId \in {"udp", "trino", "nessie"} => lake.bucket
  /\ stackId \in {"trino", "nessie"} => trino.loaded
  /\ stackId = "polaris" =>
       polaris.catalog /\ key[r] = polaris.secret /\ polaris.grants = Grants

(* Mutant: a table that is there is kept, and the rows are appended. *)
Effect_Appends(s) ==
  CASE s = "drop_raw" -> {lake}
    [] s = "create_raw" -> {[lake EXCEPT !.raw = IF @ = Absent THEN 0 ELSE @]}
    [] s = "insert" -> IF lake.raw # Absent THEN {[lake EXCEPT !.raw = @ + 5]} ELSE {}
    [] s \in {"create_filled_raw", "replace_raw"} ->
         {[lake EXCEPT !.raw = IF @ = Absent THEN 5 ELSE @ + 5]}
    [] s = "drop_curated" -> {lake}
    [] OTHER -> {[lake EXCEPT !.curated = 4]}

(* What a statement makes of the tables, {} when it fails. *)
Effect(s) ==
  CASE s = "drop_raw" -> {[lake EXCEPT !.raw = Absent]}
    [] s = "create_raw" -> IF lake.raw = Absent THEN {[lake EXCEPT !.raw = 0]} ELSE {}
    [] s = "insert" -> IF lake.raw # Absent THEN {[lake EXCEPT !.raw = @ + 5]} ELSE {}
    [] s = "create_filled_raw" -> IF lake.raw = Absent THEN {[lake EXCEPT !.raw = 5]} ELSE {}
    [] s = "replace_raw" -> {[lake EXCEPT !.raw = 5]}
    [] s = "drop_curated" -> {[lake EXCEPT !.curated = Absent]}
    [] s = "curated_from_raw" ->
         IF lake.raw # Absent /\ lake.curated = Absent
           THEN {[lake EXCEPT !.curated = IF lake.raw = 0 THEN 0 ELSE 4]} ELSE {}
    [] s = "create_curated" ->
         IF lake.curated = Absent THEN {[lake EXCEPT !.curated = 4]} ELSE {}
    [] s = "replace_curated" -> {[lake EXCEPT !.curated = 4]}

Statement(r) ==
  /\ jobs[r] \in 1..Len(Seed[stackId]) /\ MayRun(r)
  /\ lake' \in Effect(Seed[stackId][jobs[r]])
  /\ jobs' = [jobs EXCEPT ![r] = @ + 1]
  /\ UNCHANGED <<stackId, phase, at, runNo, key, trino, starrocks, polaris, lineage, streaming,
                 beside, unnoticed, recreated>>

(* The job has failed, or died: its script, if it waits, stops. *)
JobDies(r) ==
  /\ jobs[r] # Idle
  /\ jobs' = [jobs EXCEPT ![r] = Idle]
  /\ IF r = runNo /\ Step("seed") THEN phase' = "idle" /\ at' = 1 ELSE UNCHANGED <<phase, at>>
  /\ UNCHANGED <<stackId, runNo, key, lake, trino, starrocks, polaris, lineage, streaming, beside,
                 unnoticed, recreated>>

JobEnds ==
  /\ Step("seed") /\ jobs[runNo] = Len(Seed[stackId]) + 1
  /\ jobs' = [jobs EXCEPT ![runNo] = Idle]
  /\ GoesOn
  /\ UNCHANGED <<key, lake, trino, starrocks, polaris, streaming, beside, unnoticed>>

-----------------------------------------------------------------------------
(* The Enterprise stack uploads what is not there; an upload that is cut   *)
(* off leaves nothing.                                                     *)
StageTez ==
  /\ Step("tez") /\ GoesOn
  /\ lake' = [lake EXCEPT !.tez = TRUE]
  /\ UNCHANGED <<jobs, key, trino, starrocks, polaris, streaming, beside, unnoticed>>

(* The streaming stack: only an empty topic is seeded. *)
ProduceOrders ==
  /\ Step("orders")
  /\ \/ /\ streaming.orders > 0 /\ streaming' = streaming /\ GoesOn
     \/ /\ streaming.orders = 0
        /\ streaming' = [streaming EXCEPT !.orders = 10] /\ GoesOn
     \/ /\ streaming.orders = 0    \* cut off on the way
        /\ streaming' = [streaming EXCEPT !.orders = 3]
        /\ phase' = "idle" /\ at' = 1
        /\ UNCHANGED <<stackId, runNo, lineage, recreated>>
  /\ UNCHANGED <<jobs, key, lake, trino, starrocks, polaris, beside, unnoticed>>

(* The pipeline is submitted unless a job is RUNNING; a submission that    *)
(* fails is swallowed, and the wait that follows only warns.               *)
SubmitPipeline ==
  /\ Step("submit") /\ GoesOn
  /\ \/ streaming.running > 0 /\ streaming' = streaming
     \/ /\ streaming.running = 0
        /\ \E n \in {0, 1} : streaming' = [streaming EXCEPT !.created = @ + n]
  /\ UNCHANGED <<jobs, key, lake, trino, starrocks, polaris, beside, unnoticed>>

(* A job that runs reads the topic from its start.                         *)
PipelineRuns ==
  /\ streaming.created > 0
  /\ streaming' = [streaming EXCEPT !.created = @ - 1, !.running = @ + 1,
                                    !.rows = @ + streaming.orders]
  /\ UNCHANGED <<stackId, phase, at, runNo, jobs, key, lake, trino, starrocks, polaris, lineage,
                 beside, unnoticed, recreated>>

CreateCatalogIfMissing ==
  /\ Step("catalog_if_missing") /\ GoesOn
  /\ starrocks' = [starrocks EXCEPT !.catalog = NoKey]
  /\ UNCHANGED <<jobs, key, lake, trino, polaris, streaming, beside, unnoticed>>

-----------------------------------------------------------------------------
(* compose down and up, before a run that starts over: what is not in a    *)
(* volume is lost, the version store of Nessie and Flink's jobs included.  *)
Recreate ==
  /\ phase # "running" /\ recreated < MaxRecreated
  /\ recreated' = recreated + 1
  /\ phase' = "idle" /\ jobs' = [r \in Runs |-> Idle]
  /\ trino' = [file |-> FALSE, listener |-> FALSE, up |-> TRUE, loaded |-> FALSE]
  /\ polaris' = [polaris EXCEPT !.creds = NoKey]
  /\ lake' = IF stackId = "nessie" THEN [lake EXCEPT !.raw = Absent, !.curated = Absent] ELSE lake
  /\ streaming' = [streaming EXCEPT !.created = 0, !.running = 0]
  /\ UNCHANGED <<stackId, at, runNo, key, starrocks, lineage, beside, unnoticed>>

ScriptsNext ==
  \/ StartScript \/ Stopped \/ Recreate
  \/ EnsureBucket \/ WriteTrinoCatalog \/ WireLineage \/ RestartTrino \/ SafetyNet
  \/ TrinoSeesDelta \/ AddBackend \/ CreateCatalog \/ CreateHudiCatalog \/ CreateView
  \/ CreatePolarisCatalog \/ Principal \/ Grant \/ PersistCreds
  \/ Submit \/ JobEnds
  \/ \E r \in Runs : Statement(r) \/ JobDies(r)
  \/ StageTez \/ ProduceOrders \/ SubmitPipeline \/ PipelineRuns \/ CreateCatalogIfMissing

ScriptsSpec == ScriptsInit /\ [][ScriptsNext]_scriptVars

-----------------------------------------------------------------------------
(* What the smoke scripts ask of a stack, before the tables of the chosen  *)
(* format are written: they end with a failure otherwise.  The one of the  *)
(* streaming stack asks less: that the topic is there, seeded or not.      *)
StarRocksReads == starrocks.backend /\ CatalogWorks /\ starrocks.view
FiveAndFour == lake.raw = 5 /\ lake.curated = 4
UdpSmoke == StarRocksReads /\ FiveAndFour
TrinoSmoke == trino.loaded /\ lake.curated # Absent /\ StarRocksReads
NessieSmoke == trino.loaded /\ FiveAndFour /\ StarRocksReads
HudiSmoke == FiveAndFour
DeltaSmoke == FiveAndFour /\ trino.loaded
PolarisSmoke == polaris.creds = polaris.secret /\ polaris.grants = Grants /\ FiveAndFour
                /\ StarRocksReads
StreamingSmoke == streaming.orders > 0
EnterpriseSmoke == lake.tez /\ starrocks.catalog # Absent

SmokePasses ==
  [udp |-> UdpSmoke, trino |-> TrinoSmoke, nessie |-> NessieSmoke, hudi |-> HudiSmoke,
   delta |-> DeltaSmoke, polaris |-> PolarisSmoke, streaming |-> StreamingSmoke,
   enterprise |-> EnterpriseSmoke]

(* However often the script was stopped and run again, and the containers  *)
(* created anew: where it ends, the smoke script of its stack passes.  Not *)
(* so when a job of a stopped run went on beside the last one, nor when    *)
(* StarRocks refused a backend or the Hudi catalog, which no script sees.  *)
CompleteMeansSmoke == (phase = "done" /\ ~beside /\ ~unnoticed) => SmokePasses[stackId]

(* "a re-run must not submit a second copy (two jobs -> double-writes into *)
(* Iceberg)" (stacks/streaming/scripts/lhs-bootstrap.sh:202-203).          *)
NoSecondPipeline == streaming.created + streaming.running <= 1

=============================================================================
