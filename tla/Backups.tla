------------------------------ MODULE Backups -------------------------------
(***************************************************************************)
(* The backups of one install (backend/backup.py): a tarball and, once it  *)
(* is closed, a sidecar that makes it known; a full backup also holds the  *)
(* data lake, copied by way of one directory of the minio-client           *)
(* container that all backups share.  What runs in that container goes on  *)
(* when the docker client that began it is killed at its timeout, or is    *)
(* lost with the process.  The drill looks at the newest known backup from *)
(* a thread of its own.                                                    *)
(*                                                                         *)
(* What runs on the event loop without an await is one step, but for the   *)
(* files, which the drill may see and a loss of the process may leave      *)
(* between any two writes.                                                 *)
(***************************************************************************)
EXTENDS Naturals, FiniteSets

CONSTANTS
  MaxBackups,   \* bound: backups created
  MaxDrills,    \* bound: drills
  MaxLosses     \* bound: losses of the process

ASSUME BackupsAssumption ==
  /\ MaxBackups \in Nat /\ MaxDrills \in Nat /\ MaxLosses \in Nat

BackupIds == 1..MaxBackups
NoBackup == 0

VARIABLES
  step,     \* [BackupIds -> where create_backup, or delete_backup, stands]
  kind,     \* [BackupIds -> "metadata" or "full"]
  tar,      \* [BackupIds -> "absent", "open", "whole"]
  data,     \* [BackupIds -> what the tarball, or its scratch directory, has of the lake]
  sidecar,  \* [BackupIds -> "absent", "torn", "whole"]
  claims,   \* [BackupIds -> contains_minio_data of the sidecar]
  lake,     \* what is in the bucket: "all", or "bare" when it is empty
  mirror,   \* what is in the shared directory
  inside,   \* [BackupIds -> its command in the container]
  mirrorer, \* the backup that emptied the shared directory last
  disturbed,\* history: backups that met a command of another in it
  drill,    \* [at, of, alarm] of the drill that runs or ran last
  drills, losses

containerVars == <<lake, mirror, inside, mirrorer, disturbed>>
drillVars == <<drill, drills>>
backupVars == <<step, kind, tar, data, sidecar, claims, containerVars, drillVars, losses>>

BackupPhases == {"unused", "probing", "mirroring", "mirrored", "copying", "cleaning", "writing", "tarred",
           "sidecar", "known", "deleting", "gone"}

(* none: not there; bare: a directory without files.                       *)
Contents == {"none", "bare", "partial", "all"}

BackupsInit ==
  /\ step = [b \in BackupIds |-> "unused"] /\ kind = [b \in BackupIds |-> "metadata"]
  /\ tar = [b \in BackupIds |-> "absent"] /\ data = [b \in BackupIds |-> "none"]
  /\ sidecar = [b \in BackupIds |-> "absent"] /\ claims = [b \in BackupIds |-> FALSE]
  /\ lake \in {"bare", "all"} /\ mirror = "none" /\ inside = [b \in BackupIds |-> "no"]
  /\ mirrorer = NoBackup /\ disturbed = {}
  /\ drill = [at |-> "idle", of |-> NoBackup, alarm |-> FALSE] /\ drills = 0 /\ losses = 0

Goto(b, where) == step' = [step EXCEPT ![b] = where]
Inside(b, command) == inside' = [inside EXCEPT ![b] = command]

(* From the first command of b in the container until its data is copied   *)
(* and nothing of it runs there any more.                                  *)
InDirectory(b) == step[b] \in {"mirrored", "copying"} \/ inside[b] # "no"
Others(b) == {c \in BackupIds \ {b} : InDirectory(c)}

(* What the directory may hold when it is emptied or filled under someone. *)
Torn == IF lake = "bare" THEN {"bare"} ELSE {"bare", "partial"}
CopiesTorn ==
  \E torn \in Torn :
    data' = [c \in BackupIds |-> IF step[c] = "copying" THEN torn ELSE data[c]]

-----------------------------------------------------------------------------
(* create_backup up to its first await: the tarball is open and has the    *)
(* metadata and the record of the install.                                 *)
CreateBackup(b, k) ==
  /\ step[b] = "unused" /\ \A c \in BackupIds : c < b => step[c] # "unused"
  /\ kind' = [kind EXCEPT ![b] = k]
  /\ tar' = [tar EXCEPT ![b] = "open"]
  /\ Goto(b, IF k = "full" THEN "probing" ELSE "writing")
  /\ UNCHANGED <<data, sidecar, claims, containerVars, drillVars, losses>>

(* _mc_mirror_into_tar: the container has to run. *)
NotRunning(b) ==
  /\ step[b] = "probing" /\ Goto(b, "writing")
  /\ UNCHANGED <<kind, tar, data, sidecar, claims, containerVars, drillVars, losses>>

(* rm -rf, mkdir and mc mirror, in the container.                          *)
BeginMirror(b) ==
  /\ step[b] = "probing" /\ Goto(b, "mirroring") /\ Inside(b, "emptying")
  /\ disturbed' = IF Others(b) = {} THEN disturbed ELSE disturbed \cup {b} \cup Others(b)
  /\ UNCHANGED <<kind, tar, data, sidecar, claims, lake, mirror, mirrorer, drillVars, losses>>

Emptied(b) ==
  /\ inside[b] = "emptying" /\ Inside(b, "mirroring")
  /\ mirror' = "bare" /\ mirrorer' = b /\ CopiesTorn
  /\ UNCHANGED <<step, kind, tar, sidecar, claims, lake, disturbed, drillVars, losses>>

(* Mutant: a mirror that fails is copied all the same. *)
MirrorFailed_Ignored == "mirrored"

MirrorFailed == "writing"

(* The command ends.  It has mirrored the lake unless the directory was    *)
(* emptied or removed under it; its docker client may be gone.             *)
Mirrored(b, ok) ==
  /\ inside[b] \in {"emptying", "mirroring"} /\ (ok => inside[b] = "mirroring") /\ Inside(b, "no")
  /\ IF ok /\ mirrorer = b THEN mirror' = lake
     ELSE IF inside[b] = "mirroring" THEN mirror' \in Torn \cup {mirror, lake} ELSE mirror' = mirror
  /\ IF step[b] = "mirroring"
     THEN Goto(b, IF ok THEN "mirrored" ELSE MirrorFailed) ELSE UNCHANGED step
  /\ UNCHANGED <<kind, tar, data, sidecar, claims, lake, mirrorer, disturbed, drillVars, losses>>

(* The docker client is killed after half an hour; the command goes on.    *)
MirrorTimesOut(b) ==
  /\ step[b] = "mirroring" /\ Goto(b, MirrorFailed)
  /\ UNCHANGED <<kind, tar, data, sidecar, claims, containerVars, drillVars, losses>>

(* docker cp, which ends with its client. *)
BeginCopy(b) ==
  /\ step[b] = "mirrored" /\ Goto(b, "copying")
  /\ data' = [data EXCEPT ![b] = mirror]
  /\ UNCHANGED <<kind, tar, sidecar, claims, containerVars, drillVars, losses>>

(* When it has succeeded the directory is to be removed.                   *)
Copied(b, ok) ==
  /\ step[b] = "copying" /\ (data[b] = "none" => ~ok)
  /\ IF ok THEN /\ Goto(b, "cleaning") /\ Inside(b, "removing") /\ UNCHANGED data
     ELSE Goto(b, "writing") /\ data' = [data EXCEPT ![b] = "none"] /\ UNCHANGED inside
  /\ UNCHANGED <<kind, tar, sidecar, claims, lake, mirror, mirrorer, disturbed, drillVars, losses>>

(* rm -rf in the container.  It does not always succeed; under a mirror of *)
(* another it may leave some of it.                                        *)
Removed(b) ==
  /\ inside[b] = "removing" /\ Inside(b, "no")
  /\ mirrorer' = NoBackup /\ CopiesTorn
  /\ mirror' \in {"none"} \cup (IF Others(b) = {} THEN {} ELSE Torn)
  /\ UNCHANGED <<step, kind, tar, sidecar, claims, lake, disturbed, drillVars, losses>>

NotRemoved(b) ==
  /\ inside[b] = "removing" /\ Inside(b, "no")
  /\ UNCHANGED <<step, kind, tar, data, sidecar, claims, lake, mirror, mirrorer, disturbed,
                 drillVars, losses>>

(* Its outcome is not looked at, nor whether its client was killed after   *)
(* thirty seconds.                                                         *)
CleanUp(b) ==
  /\ step[b] = "cleaning" /\ Goto(b, "writing")
  /\ claims' = [claims EXCEPT ![b] = TRUE]
  /\ UNCHANGED <<kind, tar, data, sidecar, containerVars, drillVars, losses>>

CloseTar(b) ==
  /\ step[b] = "writing" /\ Goto(b, "tarred")
  /\ tar' = [tar EXCEPT ![b] = "whole"]

Close(b) ==
  /\ CloseTar(b)
  /\ UNCHANGED <<kind, data, sidecar, claims, containerVars, drillVars, losses>>

(* An exception: the tarball stays as it is, and no sidecar is written.    *)
CreateRaises(b) ==
  /\ step[b] \in {"probing", "mirroring", "mirrored", "copying", "writing"} /\ Goto(b, "gone")
  /\ UNCHANGED <<kind, tar, data, sidecar, claims, containerVars, drillVars, losses>>

(* The sidecar is written in place. *)
OpenSidecar(b) ==
  /\ step[b] = "tarred" /\ Goto(b, "sidecar")
  /\ sidecar' = [sidecar EXCEPT ![b] = "torn"]
  /\ UNCHANGED <<kind, tar, data, claims, containerVars, drillVars, losses>>

WriteSidecar(b) ==
  /\ step[b] = "sidecar" /\ Goto(b, "known")
  /\ sidecar' = [sidecar EXCEPT ![b] = "whole"]
  /\ UNCHANGED <<kind, tar, data, claims, containerVars, drillVars, losses>>

-----------------------------------------------------------------------------
(* list_backups and get_backup see the sidecars that can be parsed. *)
Known == {b \in BackupIds : sidecar[b] = "whole"}

(* delete_backup: the tarball, then the sidecar. *)
DeleteTar(b) ==
  /\ b \in Known /\ step[b] \in {"known", "gone"} /\ Goto(b, "deleting")
  /\ tar' = [tar EXCEPT ![b] = "absent"]
  /\ UNCHANGED <<kind, data, sidecar, claims, containerVars, drillVars, losses>>

DeleteSidecar(b) ==
  /\ step[b] = "deleting" /\ Goto(b, "gone")
  /\ sidecar' = [sidecar EXCEPT ![b] = "absent"]
  /\ UNCHANGED <<kind, tar, data, claims, containerVars, drillVars, losses>>

-----------------------------------------------------------------------------
(* verify_latest_backups picks the newest known backup; _verify_sync reads *)
(* its sidecar, then its tarball.                                          *)
Newest == CHOOSE b \in Known : \A c \in Known : c <= b

PickLatest ==
  /\ drill.at = "idle" /\ drills < MaxDrills /\ Known # {}
  /\ drills' = drills + 1
  /\ drill' = [at |-> "sidecar", of |-> Newest, alarm |-> FALSE]
  /\ UNCHANGED <<step, kind, tar, data, sidecar, claims, containerVars, losses>>

VerifySidecar ==
  /\ drill.at = "sidecar"
  /\ drill' = [drill EXCEPT !.at = "tar", !.alarm = sidecar[drill.of] # "whole"]
  /\ UNCHANGED <<step, kind, tar, data, sidecar, claims, containerVars, drills, losses>>

(* A full backup must have a file of the lake; an empty one has none.      *)
VerifyTar ==
  /\ drill.at = "tar"
  /\ drill' = [drill EXCEPT !.at = "done",
       !.alarm = \/ drill.alarm
                 \/ tar[drill.of] # "whole"
                 \/ kind[drill.of] = "full" /\ data[drill.of] \in {"none", "bare"}]
  /\ UNCHANGED <<step, kind, tar, data, sidecar, claims, containerVars, drills, losses>>

DrillOver ==
  /\ drill.at = "done" /\ drill' = [drill EXCEPT !.at = "idle"]
  /\ UNCHANGED <<step, kind, tar, data, sidecar, claims, containerVars, drills, losses>>

-----------------------------------------------------------------------------
(* The process is lost with everything it was doing; the container goes on *)
(* with what runs there.                                                   *)
Lost ==
  /\ losses < MaxLosses /\ losses' = losses + 1
  /\ step' = [b \in BackupIds |-> IF step[b] \in {"unused", "known"} THEN step[b] ELSE "gone"]
  /\ drill' = [drill EXCEPT !.at = "idle"]
  /\ UNCHANGED <<kind, tar, data, sidecar, claims, containerVars, drills>>

BackupsNext ==
  \/ \E b \in BackupIds :
       \/ \E k \in {"metadata", "full"} : CreateBackup(b, k)
       \/ \E ok \in BOOLEAN : Mirrored(b, ok) \/ Copied(b, ok)
       \/ NotRunning(b) \/ BeginMirror(b) \/ Emptied(b) \/ MirrorTimesOut(b)
       \/ BeginCopy(b) \/ Removed(b) \/ NotRemoved(b) \/ CleanUp(b) \/ Close(b)
       \/ CreateRaises(b) \/ OpenSidecar(b) \/ WriteSidecar(b)
       \/ DeleteTar(b) \/ DeleteSidecar(b)
  \/ PickLatest \/ VerifySidecar \/ VerifyTar \/ DrillOver \/ Lost

BackupsSpec == BackupsInit /\ [][BackupsNext]_backupVars

-----------------------------------------------------------------------------
BackupsTypeOK ==
  /\ step \in [BackupIds -> BackupPhases] /\ kind \in [BackupIds -> {"metadata", "full"}]
  /\ tar \in [BackupIds -> {"absent", "open", "whole"}] /\ data \in [BackupIds -> Contents]
  /\ sidecar \in [BackupIds -> {"absent", "torn", "whole"}] /\ claims \in [BackupIds -> BOOLEAN]
  /\ lake \in {"bare", "all"} /\ mirror \in Contents
  /\ inside \in [BackupIds -> {"no", "emptying", "mirroring", "removing"}]
  /\ mirrorer \in BackupIds \cup {NoBackup} /\ disturbed \subseteq BackupIds
  /\ drills \in 0..MaxDrills /\ losses \in 0..MaxLosses
  /\ drill \in [at : {"idle", "sidecar", "tar", "done"}, of : BackupIds \cup {NoBackup}, alarm : BOOLEAN]

(* A drill that raises the alarm has a reason: the backup is being deleted *)
(* under it, or is a full one without a file of the lake, because it was   *)
(* left out, because there is none, or because another backup was in the   *)
(* shared directory.  It never takes one in the making for a broken one.   *)
AlarmHasReason ==
  (drill.at = "done" /\ drill.alarm) =>
    \/ tar[drill.of] = "absent"
    \/ /\ kind[drill.of] = "full"
       /\ ~claims[drill.of] \/ lake = "bare" \/ drill.of \in disturbed

(* And one that raises none for a full backup has seen all of the lake,    *)
(* unless the backup met a command of another in the shared directory, be  *)
(* it one whose docker client had long been killed or lost.                *)
SilenceMeansData ==
  (drill.at = "done" /\ ~drill.alarm /\ kind[drill.of] = "full" /\ drill.of \notin disturbed) =>
    data[drill.of] = "all"

(* A known backup that says it has the lake has all there is of it, under  *)
(* the same condition.                                                     *)
ClaimedDataIsWhole ==
  \A b \in Known \ disturbed : claims[b] => data[b] = lake

(* All of them: a backup is what it says, and the drill says what it is.   *)
BackupsAreTrue == AlarmHasReason /\ SilenceMeansData /\ ClaimedDataIsWhole

(* What they rest on.  A backup is known once its tarball is closed, and   *)
(* its sidecar goes after its tarball; one that says it has the lake has   *)
(* something of it, and one that does not has nothing.                     *)
SidecarFollowsTar ==
  \A b \in BackupIds :
    /\ step[b] \in {"tarred", "sidecar", "known"} => tar[b] = "whole"
    /\ step[b] = "known" => sidecar[b] = "whole"
    /\ step[b] = "deleting" => tar[b] = "absent"
    /\ sidecar[b] = "whole" => tar[b] # "open" /\ step[b] \in {"known", "deleting", "gone"}
    /\ claims[b] => step[b] \in {"writing", "tarred", "sidecar", "known", "deleting", "gone"}
    /\ claims[b] \/ step[b] = "cleaning" => data[b] # "none"
    /\ step[b] \notin {"copying", "cleaning", "gone"} \/ sidecar[b] = "whole" =>
         claims[b] \/ data[b] = "none"

(* The drill looks at a backup that was known when it picked it.           *)
DrillLooksAtAKnown ==
  drill.at \in {"sidecar", "tar", "done"} =>
    /\ drill.of \in BackupIds
    /\ sidecar[drill.of] = "whole" \/ tar[drill.of] = "absent"
    /\ tar[drill.of] # "open" /\ step[drill.of] \in {"known", "deleting", "gone"}
    /\ claims[drill.of] \/ data[drill.of] = "none"
    /\ drill.alarm /\ drill.at = "tar" => tar[drill.of] = "absent"

(* Alone in the shared directory, a backup finds what it mirrored.         *)
AloneFindsItsOwn ==
  \A b \in BackupIds \ disturbed :
    /\ InDirectory(b) => \A c \in BackupIds : InDirectory(c) => c = b
    /\ step[b] \in {"mirrored", "copying"} => inside[b] = "no"
    /\ inside[b] = "mirroring" => mirrorer = b
    /\ step[b] = "mirrored" => mirror = lake
    /\ step[b] \in {"copying", "cleaning"} \/ claims[b] => data[b] = lake

BackupsInv ==
  /\ BackupsTypeOK /\ AlarmHasReason /\ SilenceMeansData /\ ClaimedDataIsWhole
  /\ SidecarFollowsTar /\ DrillLooksAtAKnown /\ AloneFindsItsOwn
=============================================================================
