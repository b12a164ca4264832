---------------------------- MODULE CustomStack ----------------------------
(***************************************************************************)
(* Builds of the stack builder (backend/custom_stack_runner.py): a job     *)
(* resolves a selection, writes a compose project into the directory of    *)
(* its stack name, starts it and keeps a record in the install history.    *)
(* Stacks share the container names udp-<component>; stacks of one name    *)
(* share the directory and the compose project.  The record is removed by  *)
(* the uninstall of custom builds (backend/uninstall.py).                  *)
(*                                                                         *)
(* What a job does between two awaits is one action.                       *)
(***************************************************************************)
EXTENDS Naturals

CONSTANTS
  MaxBuilds,   \* bound: builds
  Names,       \* stack names
  Components,  \* components, each with the container of its name
  MaxLosses    \* bound: losses of the server

ASSUME CustomStackAssumption ==
  MaxBuilds \in Nat /\ MaxLosses \in Nat /\ "none" \notin Names

Builds == 1..MaxBuilds
NoBuild == 0

VARIABLES
  state,       \* [Builds -> state of the job]
  current,     \* [Builds -> its current phase]
  phases,      \* [Builds -> [Phases -> state of the phase]]
  name,        \* [Builds -> its stack name]
  comps,       \* [Builds -> its resolved components]
  record,      \* [Builds -> state of its record in the install history]
  compose,     \* [Names -> the build whose compose file is there, or NoBuild]
  project,     \* [Components -> the project that has the container, or "none"]
  listed,      \* [Builds -> the conflicts it has found]
  waits,       \* [Builds -> what its start phase waits for]
  removing,    \* builds whose uninstall waits for docker
  disturbed,   \* history: builds whose stack another request has touched
  losses

stackVars == <<state, current, phases, name, comps, record, compose, project, listed, waits,
               removing, disturbed, losses>>

Phases == {"versions", "resolve", "compose", "ai_config", "write_files", "start", "post_cfg",
           "verify", "summary"}

(* _PHASE_TO_STATE. *)
PhaseState ==
  [p \in Phases |->
     CASE p \in {"versions", "resolve"} -> "READY_TO_INSTALL"
       [] p \in {"compose", "ai_config", "write_files"} -> "WRITING_ENV"
       [] p = "start" -> "STARTING_STACK"
       [] p = "post_cfg" -> "BOOTSTRAPPING"
       [] OTHER -> "SMOKE_TESTING"]

RUNNING_STATES == {PhaseState[p] : p \in Phases}

BuildsInit ==
  /\ state = [b \in Builds |-> "unused"] /\ current = [b \in Builds |-> "none"]
  /\ phases = [b \in Builds |-> [p \in Phases |-> "pending"]]
  /\ name = [b \in Builds |-> "none"] /\ comps = [b \in Builds |-> {}]
  /\ record = [b \in Builds |-> "none"]
  /\ compose = [n \in Names |-> NoBuild] /\ project = [c \in Components |-> "none"]
  /\ listed = [b \in Builds |-> {}] /\ waits = [b \in Builds |-> "none"]
  /\ removing = {} /\ disturbed = {} /\ losses = 0

Has(b) == {c \in Components : project[c] = name[b]}

(* _phase_end and _phase_start of the phases in between, for a job that    *)
(* goes from its current phase to another one, or fails in one.            *)
Marked(b, done, p, mark) ==
  phases' = [phases EXCEPT ![b] =
               [q \in Phases |-> IF q = p THEN mark ELSE IF q \in done THEN "done" ELSE @[q]]]

(* A record that is no longer there is not written. *)
Recorded(b, to) == record' = [record EXCEPT ![b] = IF @ \in {"none", "gone"} THEN @ ELSE to]

Goes(b, done, p) ==
  /\ Marked(b, done, p, "active") /\ Recorded(b, PhaseState[p])
  /\ current' = [current EXCEPT ![b] = p]

(* run's handler of an exception raised in phase p, after the phases done. *)
FailsIn(b, done, p) ==
  /\ Marked(b, done, p, "failed") /\ Recorded(b, "FAILED")
  /\ current' = [current EXCEPT ![b] = p] /\ state' = [state EXCEPT ![b] = "failed"]

-----------------------------------------------------------------------------
(* start_custom_build: the record is made with the job, unless that fails, *)
(* which does not stop the build.                                          *)
StartBuild(b, n, cs) ==
  /\ state[b] = "unused" /\ \A a \in 1..(b - 1) : state[a] # "unused"
  /\ state' = [state EXCEPT ![b] = "pending"]
  /\ \E r \in {"DRAFT", "none"} : record' = [record EXCEPT ![b] = r]
  /\ name' = [name EXCEPT ![b] = n] /\ comps' = [comps EXCEPT ![b] = cs]
  /\ UNCHANGED <<current, phases, compose, project, listed, waits, removing, disturbed, losses>>

Run(b) ==
  /\ state[b] = "pending" /\ state' = [state EXCEPT ![b] = "running"]
  /\ Goes(b, {}, "versions")
  /\ UNCHANGED <<name, comps, compose, project, listed, waits, removing, disturbed, losses>>

In(b, p) == state[b] = "running" /\ current[b] = p

SameStack(b) == {a \in Builds \ {b} : name[a] = name[b] /\ state[a] # "unused"}

(* The versions are known: resolve, write the compose file, ask for the    *)
(* configuration.                                                          *)
VersionsKnown(b) ==
  /\ In(b, "versions")
  /\ \/ /\ Goes(b, {"versions", "resolve", "compose"}, "ai_config")
        /\ compose' = [compose EXCEPT ![name[b]] = b]
        /\ disturbed' = disturbed \cup SameStack(b) /\ UNCHANGED state
     \/ FailsIn(b, {}, "versions") /\ UNCHANGED <<compose, disturbed>>
     \/ FailsIn(b, {"versions", "resolve"}, "compose") /\ UNCHANGED <<compose, disturbed>>
  /\ UNCHANGED <<name, comps, project, listed, waits, removing, losses>>

(* The configuration is there: write and patch the files, look for         *)
(* containers of the names.  A patch that raises fails a phase that was    *)
(* already done.                                                           *)
ConfigKnown(b) ==
  /\ In(b, "ai_config")
  /\ \/ /\ Goes(b, {"ai_config", "write_files"}, "start")
        /\ waits' = [waits EXCEPT ![b] = "list"] /\ UNCHANGED state
     \/ FailsIn(b, {}, "ai_config") /\ UNCHANGED waits
     \/ FailsIn(b, {"ai_config"}, "write_files") /\ UNCHANGED waits
  /\ UNCHANGED <<name, comps, compose, project, listed, removing, disturbed, losses>>

(* _cleanup_conflicting_containers: docker ps, then docker rm -f of what   *)
(* it listed, whatever has the name by then.                               *)
Listed(b) ==
  /\ In(b, "start") /\ waits[b] = "list"
  /\ LET found == {c \in comps[b] : project[c] # "none"}
     IN /\ listed' = [listed EXCEPT ![b] = found]
        /\ waits' = [waits EXCEPT ![b] = IF found = {} THEN "up" ELSE "remove"]
  /\ UNCHANGED <<state, current, phases, name, comps, record, compose, project, removing,
                 disturbed, losses>>

Losers(b) == {a \in Builds : Has(a) \cap listed[b] # {}}

RemoveListed(b) ==
  project' = [c \in Components |-> IF c \in listed[b] THEN "none" ELSE project[c]]

Removed(b) ==
  /\ In(b, "start") /\ waits[b] = "remove"
  /\ waits' = [waits EXCEPT ![b] = "up"]
  /\ RemoveListed(b) /\ disturbed' = disturbed \cup (Losers(b) \ {b})
  /\ listed' = [listed EXCEPT ![b] = {}]
  /\ UNCHANGED <<state, current, phases, name, comps, record, compose, removing, losses>>

(* docker compose up -d --remove-orphans, with the compose file that is    *)
(* there: a container of another project is an error, and so is a file     *)
(* that is not there; what came before the error stays.                    *)
Wanted(b) == IF compose[name[b]] = NoBuild THEN {} ELSE comps[compose[name[b]]]
Free(b) == {c \in Wanted(b) : project[c] \in {"none", name[b]}}

ComposeUp(b, made) ==
  project' = [c \in Components |->
                IF c \in made THEN name[b]
                ELSE IF c \in Has(b) \ Wanted(b) /\ Wanted(b) # {} THEN "none" ELSE project[c]]

UpFailed(b) == FailsIn(b, {}, "start")

Started(b) ==
  /\ In(b, "start") /\ waits[b] = "up"
  /\ waits' = [waits EXCEPT ![b] = "none"]
  /\ \/ /\ Wanted(b) # {} /\ Free(b) = Wanted(b)
        /\ ComposeUp(b, Wanted(b)) /\ Goes(b, {"start"}, "post_cfg") /\ UNCHANGED state
     \/ \E made \in SUBSET Free(b) : ComposeUp(b, made) /\ UpFailed(b)
  /\ UNCHANGED <<name, comps, compose, listed, removing, disturbed, losses>>

(* The commands of post_cfg and the checks of verify do not fail a build.  *)
Configured(b) ==
  /\ In(b, "post_cfg")
  /\ Goes(b, {"post_cfg"}, "verify")
  /\ UNCHANGED <<state, name, comps, compose, project, listed, waits, removing, disturbed, losses>>

Verified(b) ==
  /\ In(b, "verify")
  /\ Marked(b, {"verify"}, "summary", "done") /\ Recorded(b, "READY")
  /\ current' = [current EXCEPT ![b] = "summary"] /\ state' = [state EXCEPT ![b] = "done"]
  /\ UNCHANGED <<name, comps, compose, project, listed, waits, removing, disturbed, losses>>

(* Mutant: the handler leaves the phase as it is. *)
Interrupted_PhaseStays(b) ==
  /\ Recorded(b, "FAILED") /\ state' = [state EXCEPT ![b] = "failed"]
  /\ UNCHANGED <<phases, current>>

Interrupted(b) == FailsIn(b, {}, current[b])

(* A command that cannot be spawned. *)
SpawnRaises(b) ==
  /\ \E p \in {"start", "post_cfg", "verify"} : In(b, p)
  /\ Interrupted(b) /\ waits' = [waits EXCEPT ![b] = "none"]
  /\ listed' = [listed EXCEPT ![b] = {}]
  /\ UNCHANGED <<name, comps, compose, project, removing, disturbed, losses>>

-----------------------------------------------------------------------------
MayUninstall(b) == record[b] \notin RUNNING_STATES \cup {"none", "gone"}

(* uninstall_custom: docker compose down waits ...                         *)
Uninstall(b) ==
  /\ MayUninstall(b) /\ b \notin removing
  /\ removing' = removing \cup {b} /\ disturbed' = disturbed \cup SameStack(b)
  /\ IF compose[name[b]] = NoBuild THEN UNCHANGED project
     ELSE \/ project' = [c \in Components |-> IF c \in Has(b) THEN "none" ELSE project[c]]
          \/ UNCHANGED project
  /\ UNCHANGED <<state, current, phases, name, comps, record, compose, listed, waits, losses>>

(* ... and then the directory and the record are removed.                  *)
Uninstalled(b) ==
  /\ b \in removing /\ removing' = removing \ {b}
  /\ \/ compose' = [compose EXCEPT ![name[b]] = NoBuild]
     \/ UNCHANGED compose
  /\ disturbed' = disturbed \cup SameStack(b)
  /\ record' = [record EXCEPT ![b] = "gone"]
  /\ UNCHANGED <<state, current, phases, name, comps, project, listed, waits, losses>>

(* The server is lost: jobs are forgotten, records of a build that was on  *)
(* its way are FAILED at the next start (StateStore).  A docker command    *)
(* that changes containers may go on without it.                           *)
Loss ==
  /\ losses < MaxLosses /\ losses' = losses + 1
  /\ state' = [b \in Builds |-> IF state[b] = "unused" THEN "unused" ELSE "lost"]
  /\ current' = [b \in Builds |-> "none"]
  /\ phases' = [b \in Builds |-> [p \in Phases |-> "pending"]]
  /\ waits' = [b \in Builds |-> IF waits[b] = "list" THEN "none" ELSE waits[b]]
  /\ record' = [b \in Builds |-> IF record[b] \in RUNNING_STATES THEN "FAILED" ELSE record[b]]
  /\ removing' = {}
  /\ disturbed' = disturbed \cup removing
  /\ UNCHANGED <<name, comps, compose, project, listed>>

(* The end of such a command, by itself or with the server's container.    *)
OrphanEnds(b) ==
  /\ state[b] = "lost" /\ waits[b] # "none"
  /\ waits' = [waits EXCEPT ![b] = "none"] /\ listed' = [listed EXCEPT ![b] = {}]
  /\ \/ waits[b] = "remove" /\ RemoveListed(b) /\ disturbed' = disturbed \cup Losers(b)
     \/ /\ waits[b] = "up" /\ \E made \in SUBSET Free(b) : ComposeUp(b, made)
        /\ disturbed' = disturbed \cup SameStack(b)
     \/ UNCHANGED <<project, disturbed>>
  /\ UNCHANGED <<state, current, phases, name, comps, record, compose, removing, losses>>

BuildsNext ==
  \/ \E b \in Builds :
       \/ \E n \in Names, cs \in (SUBSET Components) \ {{}} : StartBuild(b, n, cs)
       \/ Run(b) \/ VersionsKnown(b) \/ ConfigKnown(b) \/ Listed(b)
       \/ Removed(b) \/ Started(b) \/ Configured(b) \/ Verified(b) \/ SpawnRaises(b)
       \/ Uninstall(b) \/ Uninstalled(b) \/ OrphanEnds(b)
  \/ Loss

BuildsSpec == BuildsInit /\ [][BuildsNext]_stackVars

-----------------------------------------------------------------------------
(* The job, its phases and its record tell one story: a build that goes on *)
(* has one phase at work and cannot be uninstalled, one that failed has    *)
(* one failed phase and a FAILED record, and READY is a build whose phases *)
(* are all done ("which correctly blocks uninstall until the build         *)
(* settles", custom_stack_runner.py:47-49; an uninstall of the DRAFT       *)
(* record, begun before the build, is the exception).                      *)
With(b, mark) == {p \in Phases : phases[b][p] = mark}
BuildsTellOneStory ==
  \A b \in Builds :
    /\ state[b] = "running" =>
         /\ With(b, "active") = {current[b]} /\ With(b, "failed") = {}
         /\ record[b] \in RUNNING_STATES \cup {"none", "gone"}
    /\ state[b] = "failed" => /\ With(b, "failed") = {current[b]} /\ With(b, "active") = {}
                              /\ record[b] \in {"FAILED", "none", "gone"}
    /\ record[b] = "READY" /\ state[b] # "lost" => With(b, "done") = Phases

(* A READY build whose stack no other build or uninstall has touched has   *)
(* its compose file and every one of its containers (_docker_compose_up,   *)
(* _cleanup_conflicting_containers).                                       *)
ReadyHasItsStack ==
  \A b \in Builds : record[b] = "READY" /\ b \notin disturbed \cup removing =>
    /\ compose[name[b]] = b
    /\ comps[b] \subseteq Has(b)

BuildsAreWhole == BuildsTellOneStory /\ ReadyHasItsStack

(* What they rest on.  A job that goes on stops in five of its phases, and *)
(* has done those before.                                                  *)
BuildsTypeOK ==
  /\ state \in [Builds -> {"unused", "pending", "running", "done", "failed", "lost"}]
  /\ current \in [Builds -> Phases \cup {"none"}]
  /\ phases \in [Builds -> [Phases -> {"pending", "active", "done", "failed"}]]
  /\ name \in [Builds -> Names \cup {"none"}]
  /\ \A b \in Builds : state[b] # "unused" => name[b] \in Names
  /\ comps \in [Builds -> SUBSET Components] /\ listed \in [Builds -> SUBSET Components]
  /\ record \in [Builds -> RUNNING_STATES \cup {"none", "DRAFT", "READY", "FAILED", "gone"}]
  /\ compose \in [Names -> Builds \cup {NoBuild}]
  /\ project \in [Components -> Names \cup {"none"}]
  /\ waits \in [Builds -> {"none", "list", "remove", "up"}]
  /\ removing \subseteq {b \in Builds : state[b] # "unused"}
  /\ disturbed \subseteq Builds /\ losses \in 0..MaxLosses

Stops == {"versions", "ai_config", "start", "post_cfg", "verify"}

DoneAt(p) ==
  CASE p = "versions" -> {}
    [] p = "ai_config" -> {"versions", "resolve", "compose"}
    [] p = "start" -> Phases \ {"start", "post_cfg", "verify", "summary"}
    [] p = "post_cfg" -> Phases \ {"post_cfg", "verify", "summary"}
    [] p = "verify" -> Phases \ {"verify", "summary"}

PhasesInOrder ==
  \A b \in Builds :
    /\ state[b] \in {"unused", "pending"} => \A q \in Phases : phases[b][q] = "pending"
    /\ state[b] = "running" =>
         /\ current[b] \in Stops
         /\ \A q \in Phases :
              phases[b][q] = IF q = current[b] THEN "active"
                             ELSE IF q \in DoneAt(current[b]) THEN "done" ELSE "pending"
    /\ state[b] = "failed" =>
         /\ current[b] \in Phases
         /\ \A q \in Phases :
              phases[b][q] \in IF q = current[b] THEN {"failed"} ELSE {"done", "pending"}
    /\ state[b] = "done" => \A q \in Phases : phases[b][q] = "done"

RecordFollows ==
  \A b \in Builds :
    /\ state[b] = "unused" => record[b] = "none"
    /\ state[b] = "pending" => record[b] \in {"none", "DRAFT", "gone"}
    /\ state[b] = "running" => record[b] \in RUNNING_STATES \cup {"none", "gone"}
    /\ state[b] = "failed" => record[b] \in {"FAILED", "none", "gone"}
    /\ state[b] = "done" => record[b] \in {"READY", "none", "gone"}
    /\ state[b] = "lost" => record[b] \notin RUNNING_STATES

(* A build whose record is on its way or READY, and whose stack nothing    *)
(* has touched, has its compose file once it has been written, and its     *)
(* containers once they have been started.                                 *)
Untouched(b) ==
  b \notin disturbed \cup removing /\ record[b] \in RUNNING_STATES \cup {"READY"}

StackIsThere ==
  \A b \in Builds : Untouched(b) =>
    /\ record[b] = "READY" \/ current[b] # "versions" => compose[name[b]] = b
    /\ record[b] = "READY" \/ current[b] \in {"post_cfg", "verify"} => comps[b] \subseteq Has(b)

BuildsInv == BuildsTypeOK /\ PhasesInOrder /\ RecordFollows /\ StackIsThere
=============================================================================
