------------------------------ MODULE Sidecars ------------------------------
(***************************************************************************)
(* The opt-in compose files written beside the base one, each with the     *)
(* files it mounts: the overlays of the env step (airflow_overlay,         *)
(* dagster_overlay, superset_overlay, observability_overlay), the stack    *)
(* fragment, the sidecars a request enables and disables (monitoring,      *)
(* caddy_tls, jdbc_extras), and the certificates of tls_wizard, whose      *)
(* manifest lists a certificate as a compose file lists its mounts.        *)
(*                                                                         *)
(* Every file is written by a step of its own, since the server may be     *)
(* lost between two: through a temporary file and os.replace, or in place, *)
(* when it is torn for a while.  One family of files is followed at a      *)
(* time; they share nothing.  The YAML is reduced to the files it mounts.  *)
(***************************************************************************)
EXTENDS Naturals, Sequences

CONSTANTS
  Families,      \* the families followed
  MaxRequests,     \* bound: requests and env steps
  MaxCrashes   \* bound: losses of the server process

(* What each compose file mounts from the install directory. *)
AirflowMounts == {"dag"}
DagsterMounts == {"definitions", "workspace", "dagster"}
SupersetMounts == {"config"}
ObservabilityMounts == {"prometheus", "datasources", "loki"}
MonitoringMounts(grafana) ==
  {"prometheus"} \cup IF grafana THEN {"provisioning", "dashboard"} ELSE {}
CaddyMounts == {"Caddyfile"}
JdbcMounts == {}
HmsFragmentMounts == {"site"}
NessieFragmentMounts == {"site", "nessie"}
CertificateFiles == {"crt", "key"}

(* Mutant: the compose file of Dagster is written before the workspace. *)
WriteDagster_ComposeEarly == <<"definitions", "compose", "workspace", "dagster">>

(* In which order they are written; "compose" is the file that mounts.     *)
WriteAirflow == <<"dag", "compose">>
WriteDagster == <<"definitions", "workspace", "dagster", "compose">>
WriteSuperset == <<"config", "compose">>
WriteObservability == <<"prometheus", "datasources", "loki", "compose">>
EnableMonitoring(grafana) ==
  IF grafana
  THEN <<"prometheus", "provisioning", "dashboard", "compose", "password">>
  ELSE <<"prometheus", "compose">>
WriteCaddy == <<"Caddyfile", "compose">>
EnableJdbc == <<"compose">>
WriteHmsFragment == <<"compose", "site">>
WriteNessieFragment == <<"compose", "site", "nessie">>
GenerateSelfSigned == <<"crt", "key", "compose">>

Overlays == {"airflow", "dagster", "superset", "observability"}
Fragments == {"hms", "nessie"}
OnRequest == {"monitoring", "caddy", "jdbc", "certificate"}
InPlace == {"caddy", "certificate"}     \* written with write_text, write_bytes

ASSUME SidecarAssumption ==
  /\ Families \subseteq Overlays \cup Fragments \cup OnRequest
  /\ MaxRequests \in Nat /\ MaxCrashes \in Nat

Mounts(family, grafana) ==
  CASE family = "airflow" -> AirflowMounts
    [] family = "dagster" -> DagsterMounts
    [] family = "superset" -> SupersetMounts
    [] family = "observability" -> ObservabilityMounts
    [] family = "monitoring" -> MonitoringMounts(grafana)
    [] family = "caddy" -> CaddyMounts
    [] family = "jdbc" -> JdbcMounts
    [] family = "hms" -> HmsFragmentMounts
    [] family = "nessie" -> NessieFragmentMounts
    [] family = "certificate" -> CertificateFiles

Writes(family, grafana) ==
  CASE family = "airflow" -> WriteAirflow
    [] family = "dagster" -> WriteDagster
    [] family = "superset" -> WriteSuperset
    [] family = "observability" -> WriteObservability
    [] family = "monitoring" -> EnableMonitoring(grafana)
    [] family = "caddy" -> WriteCaddy
    [] family = "jdbc" -> EnableJdbc
    [] family = "hms" -> WriteHmsFragment
    [] family = "nessie" -> WriteNessieFragment
    [] family = "certificate" -> GenerateSelfSigned

(* disable_monitoring, disable_caddy_override, disable_jdbc_extras and     *)
(* delete_cert.  Only the first of these removes a subtree; in which order *)
(* rmtree takes its files is of no matter, the override being gone.        *)
RemovalOrder(family) ==
  CASE family = "monitoring" -> <<"compose", "prometheus", "provisioning", "dashboard", "password">>
    [] family = "caddy" -> <<"compose", "Caddyfile">>
    [] family = "jdbc" -> <<"compose">>
    [] family = "certificate" -> <<"crt", "key", "compose">>

SidecarFiles == {"compose", "dag", "definitions", "workspace", "dagster", "config",
          "prometheus", "datasources", "loki", "provisioning", "dashboard",
          "password", "Caddyfile", "site", "nessie", "crt", "key"}

VARIABLES
  family,
  disk,      \* [Names -> "absent", "torn" or "whole"]
  mounted,   \* what the compose file on the disk mounts
  doing,     \* "idle", "write" or "remove"
  left,      \* files it has still to write or remove
  grafana,   \* include_grafana of the profile being written
  requests, crashes,
  spoilt     \* history: a removal was cut short, or left a file behind

sidecarVars == <<family, disk, mounted, doing, left, grafana, requests, crashes, spoilt>>

SidecarsTypeOK ==
  /\ family \in Families
  /\ disk \in [SidecarFiles -> {"absent", "torn", "whole"}]
  /\ mounted \subseteq SidecarFiles
  /\ doing \in {"idle", "write", "remove"}
  /\ left \in Seq(SidecarFiles) /\ (left = <<>>) = (doing = "idle")
  /\ grafana \in BOOLEAN /\ requests \in 0..MaxRequests /\ crashes \in 0..MaxCrashes /\ spoilt \in BOOLEAN

SidecarsInit ==
  /\ family \in Families
  /\ disk = [n \in SidecarFiles |-> "absent"] /\ mounted = {}
  /\ doing = "idle" /\ left = <<>> /\ grafana = FALSE
  /\ requests = 0 /\ crashes = 0 /\ spoilt = FALSE

-----------------------------------------------------------------------------
(* An env step whose flag is set, or a request on an install that is not   *)
(* in a running state.  A certificate gets a name of its own.              *)
BeginWrite(withGrafana) ==
  /\ doing = "idle" /\ requests < MaxRequests /\ requests' = requests + 1
  /\ withGrafana => family = "monitoring"
  /\ family = "certificate" => \A n \in SidecarFiles : disk[n] = "absent"
  /\ doing' = "write" /\ grafana' = withGrafana
  /\ left' = Writes(family, withGrafana)
  /\ UNCHANGED <<family, disk, mounted, crashes, spoilt>>

GoesOn ==
  /\ left' = Tail(left)
  /\ doing' = IF Len(left) = 1 THEN "idle" ELSE doing

(* The file is there once os.replace, or the write in place, is over. *)
WriteFile ==
  /\ doing = "write"
  /\ family \in InPlace => disk[Head(left)] = "torn"
  /\ disk' = [disk EXCEPT ![Head(left)] = "whole"]
  /\ mounted' = IF Head(left) = "compose" THEN Mounts(family, grafana) ELSE mounted
  /\ GoesOn
  /\ UNCHANGED <<family, grafana, requests, crashes, spoilt>>

OpenInPlace ==
  /\ doing = "write" /\ family \in InPlace /\ disk[Head(left)] # "torn"
  /\ disk' = [disk EXCEPT ![Head(left)] = "torn"]
  /\ mounted' = IF Head(left) = "compose" THEN {} ELSE mounted
  /\ UNCHANGED <<family, doing, left, grafana, requests, crashes, spoilt>>

(* The write raises: the env step goes on without the overlay, a request   *)
(* ends with an error; what is written stays.                              *)
WriteRaises ==
  /\ doing = "write"
  /\ doing' = "idle" /\ left' = <<>>
  /\ UNCHANGED <<family, disk, mounted, grafana, requests, crashes, spoilt>>

BeginRemove ==
  /\ doing = "idle" /\ family \in OnRequest /\ requests < MaxRequests /\ requests' = requests + 1
  /\ family = "certificate" => disk["compose"] = "whole"
  /\ doing' = "remove" /\ left' = RemovalOrder(family)
  /\ UNCHANGED <<family, disk, mounted, grafana, crashes, spoilt>>

RemoveFile ==
  /\ doing = "remove"
  /\ disk' = [disk EXCEPT ![Head(left)] = "absent"]
  /\ mounted' = IF Head(left) = "compose" THEN {} ELSE mounted
  /\ GoesOn
  /\ UNCHANGED <<family, grafana, requests, crashes, spoilt>>

(* A removal that fails is logged and the next is tried. *)
RemoveFails ==
  /\ doing = "remove" /\ disk[Head(left)] # "absent"
  /\ spoilt' = TRUE
  /\ GoesOn
  /\ UNCHANGED <<family, disk, mounted, grafana, requests, crashes>>

SidecarsLost ==
  /\ crashes < MaxCrashes /\ crashes' = crashes + 1
  /\ doing' = "idle" /\ left' = <<>>
  /\ spoilt' = (spoilt \/ (doing = "remove" /\ family = "certificate"))
  /\ UNCHANGED <<family, disk, mounted, grafana, requests>>

SidecarsNext ==
  \/ \E g \in BOOLEAN : BeginWrite(g)
  \/ WriteFile \/ OpenInPlace \/ WriteRaises
  \/ BeginRemove \/ RemoveFile \/ RemoveFails
  \/ SidecarsLost

SidecarsSpec == SidecarsInit /\ [][SidecarsNext]_sidecarVars

-----------------------------------------------------------------------------
IsEnabled == disk["compose"] = "whole"

(* A compose file that can be used never mounts a file that is not there:  *)
(* the files come first and go last, whichever write raises or is cut      *)
(* short and however enabling, enabling again with another profile and     *)
(* disabling follow each other.  (The fragment is written the other way    *)
(* round and is not held to it; a certificate being deleted loses its      *)
(* files first.)                                                           *)
EnabledHasItsFiles ==
  (IsEnabled /\ family \notin Fragments /\ ~spoilt /\ (family = "certificate" => doing # "remove"))
    => \A n \in mounted : disk[n] # "absent"

(* validate_overlay of the four overlay modules finds nothing to report.   *)
ValidateAirflow == IsEnabled => disk["dag"] # "absent"
ValidateDagster == IsEnabled => \A n \in {"definitions", "dagster", "workspace"} : disk[n] # "absent"
ValidateSuperset == IsEnabled => disk["config"] = "whole"
ValidateObservability ==
  IsEnabled => \A n \in {"prometheus", "datasources", "loki"} : disk[n] # "absent"
OverlaysAreHealthy ==
  /\ family = "airflow" => ValidateAirflow
  /\ family = "dagster" => ValidateDagster
  /\ family = "superset" => ValidateSuperset
  /\ family = "observability" => ValidateObservability

(* A compose file that is in place never mounts a file that is not there,  *)
(* and validate_overlay of the four overlay modules finds nothing to       *)
(* report.                                                                 *)
SidecarsAreWhole == EnabledHasItsFiles /\ OverlaysAreHealthy

(* What this rests on.  While a family is written, each file the compose   *)
(* file will mount is there, or is written before it; what is on the disk  *)
(* already is only replaced.                                               *)
FilesComeFirst ==
  (doing = "write" /\ family \notin Fragments) =>
    \A n \in Mounts(family, grafana) :
      \/ disk[n] # "absent"
      \/ \E p \in 1..Len(left) : left[p] = n /\ \A q \in 1..p : left[q] # "compose"

(* A removal takes the compose file first; that of a certificate, last.    *)
ComposeGoesFirst ==
  (doing = "remove" /\ ~spoilt) =>
    IF family = "certificate" THEN left[Len(left)] = "compose"
    ELSE left[1] = "compose" \/ ~IsEnabled

(* A compose file that can be used mounts what its family mounts; nothing  *)
(* is torn that os.replace puts there, and no request removes an overlay.  *)
ComposeIsItsFamilys ==
  /\ IsEnabled => \E g \in BOOLEAN : mounted = Mounts(family, g)
  /\ family \notin InPlace => \A n \in SidecarFiles : disk[n] # "torn"
  /\ doing = "remove" \/ spoilt => family \in OnRequest

(* The inductive invariant behind SidecarsAreWhole.                        *)
SidecarsInv ==
  /\ SidecarsTypeOK /\ SidecarsAreWhole
  /\ FilesComeFirst /\ ComposeGoesFirst /\ ComposeIsItsFamilys
=============================================================================
