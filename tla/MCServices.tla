----------------------------- MODULE MCServices -----------------------------
(***************************************************************************)
(* The services that run beside the installs for model checking.  They     *)
(* share neither a variable nor a file, so a behaviour of the server is    *)
(* one behaviour of each; the run follows one of them at a time.           *)
(***************************************************************************)
EXTENDS ImageBuilds, Registries, Accounts, Sidecars, AuditLog, Notifications, Backups,
        HadoopIngests

VARIABLE service

hadoopVars == <<orderVars, rawVars>>
servicesVars == <<service, sidecarVars, auditVars, notifyVars, accountVars, registryVars, backupVars,
                  imageVars, hadoopVars>>

(* 30, 300 and 3600 seconds, in their order. *)
MCDedupTTL == [s \in {"critical", "warn", "info"} |->
                 CASE s = "critical" -> 1 [] s = "warn" -> 2 [] s = "info" -> 3]

(* Two files of one table, of which one gets new versions. *)
MCTableOf == [c \in {"a_1", "a_2"} |-> "a"]

(* The sidecars and registries that are not followed stay as they are, so  *)
(* any one will do.                                                        *)
ServicesInit ==
  /\ service \in {"sidecars", "audit", "notifications", "accounts", "registries", "backups",
                 "images", "orders", "raw"}
  /\ SidecarsInit /\ AuditInit /\ NotifyInit /\ AccountsInit /\ RegistryInit /\ BackupsInit
  /\ Init /\ OrdersInit /\ RawInit
  /\ service # "images" => dockerfile = 1
  /\ service # "backups" => lake = "all"
  /\ service # "sidecars" => family = CHOOSE k \in Families : TRUE
  /\ service # "registries" =>
       /\ followed = CHOOSE r \in RegistryKinds : TRUE
       /\ env = CHOOSE k \in EnvKeys : TRUE

ServicesNext ==
  \/ /\ service = "sidecars" /\ SidecarsNext
     /\ UNCHANGED <<service, auditVars, notifyVars, accountVars,
                    registryVars, backupVars, imageVars, hadoopVars>>
  \/ /\ service = "audit" /\ AuditNext
     /\ UNCHANGED <<service, sidecarVars, notifyVars, accountVars,
                    registryVars, backupVars, imageVars, hadoopVars>>
  \/ /\ service = "notifications" /\ NotifyNext
     /\ UNCHANGED <<service, sidecarVars, auditVars, accountVars,
                    registryVars, backupVars, imageVars, hadoopVars>>
  \/ /\ service = "accounts" /\ AccountsNext
     /\ UNCHANGED <<service, sidecarVars, auditVars, notifyVars,
                    registryVars, backupVars, imageVars, hadoopVars>>
  \/ /\ service = "registries" /\ RegistryNext
     /\ UNCHANGED <<service, sidecarVars, auditVars, notifyVars,
                    accountVars, backupVars, imageVars, hadoopVars>>
  \/ /\ service = "backups" /\ BackupsNext
     /\ UNCHANGED <<service, sidecarVars, auditVars, notifyVars,
                    accountVars, registryVars, imageVars, hadoopVars>>
  \/ /\ service = "images" /\ Next
     /\ UNCHANGED <<service, sidecarVars, auditVars, notifyVars,
                    accountVars, registryVars, backupVars, hadoopVars>>
  \/ /\ service = "orders" /\ OrdersNext
     /\ UNCHANGED <<service, sidecarVars, auditVars, notifyVars,
                    accountVars, registryVars, backupVars, imageVars, rawVars>>
  \/ /\ service = "raw" /\ RawNext /\ s3'["a_2"] = 1
     /\ UNCHANGED <<service, sidecarVars, auditVars, notifyVars,
                    accountVars, registryVars, backupVars, imageVars, orderVars>>

ServicesSpec == ServicesInit /\ [][ServicesNext]_servicesVars

-----------------------------------------------------------------------------
(* Every service keeps its state in its types.                             *)
ServicesTypeOK ==
  /\ SidecarsTypeOK /\ AuditTypeOK /\ NotifyTypeOK
  /\ AccountsTypeOK /\ RegistryTypeOK /\ BackupsTypeOK
  /\ ImageBuildsTypeOK /\ HadoopTypeOK /\ RawTypeOK
=============================================================================
