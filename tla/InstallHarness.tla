--------------------------- MODULE InstallHarness ---------------------------
(***************************************************************************)
(* The install harness (scripts/install_harness.py): a command that cleans *)
(* up what earlier runs left, drives UDPRunner outside the server, prints  *)
(* the evidence record an operator certifies a stack with, and takes the   *)
(* stack down again.  It can be interrupted (SIGINT cancels its task) and  *)
(* killed, and nothing keeps two of them apart.                            *)
(*                                                                         *)
(* Every stack has a directory of its own, whose name docker compose takes *)
(* for the project; the containers of all of them have the same fixed      *)
(* names, so they are one.  The data of the volumes is that of the run     *)
(* that created them.  The pipeline is cut down to four steps: clone       *)
(* stands for all before start, smoke for bootstrap, too.                  *)
(***************************************************************************)
EXTENDS Naturals

CONSTANTS
  Projects,
  MaxHarness   \* bound: runs of the harness

(* A project is not taken for one of the two things a container can be     *)
(* besides the member of a project.                                        *)
ASSUME HarnessAssumption ==
  MaxHarness \in Nat /\ Projects \cap {"unlabelled", "nothing"} = {}

Harnesses == 1..MaxHarness
Nobody == 0
NoContainer == "nothing"
NoArgs == [stack |-> NoContainer, teardown |-> FALSE]
PIPELINE_STEPS == {"clone", "start", "smoke", "finalize"}
NextStep == [clone |-> "start", start |-> "smoke", smoke |-> "finalize"]

VARIABLES
  container,   \* the project it belongs to, "unlabelled", or NoContainer
  creator,     \* the harness that brought it up, or Nobody
  volumes,     \* [Projects -> the harness that created them, or Nobody]
  place,       \* [Harnesses -> where it stands]
  args,        \* [Harnesses -> its stack and flags]
  step,        \* [Harnesses -> the step it is at]
  passed,      \* [Harnesses -> the steps its capturer has seen succeed]
  up,          \* [Harnesses -> its docker compose up, which may outlive it]
  cancelled,   \* [Harnesses -> SIGINT arrived and is not delivered yet]
  evidence,    \* [Harnesses -> the steps its record calls passed]
  exit,        \* [Harnesses -> "none", "zero", "other"]
  ground,      \* history: [Harnesses -> who created the volumes its smoke test saw]
  cleaned,     \* history: harnesses whose first docker compose down took effect
  tornDown,    \* history: those whose last one did, with no up beside it
  reached      \* history: harnesses into whose stack another one has reached

dockerVars == <<container, creator, volumes>>
runVars == <<place, args, step, passed, up, cancelled>>
outVars == <<evidence, exit>>
harnessHistory == <<ground, cleaned, tornDown, reached>>
harnessVars == <<dockerVars, runVars, outVars, harnessHistory>>

Live(h) == place[h] \notin {"none", "ended"}
IsNext(h) == place[h] = "none" /\ \A g \in 1..(h - 1) : place[g] # "none"
Moves(h, from, to) == place[h] = from /\ place' = [place EXCEPT ![h] = to]

HarnessInit ==
  /\ container \in {NoContainer, "unlabelled"} /\ creator = Nobody
  /\ volumes = [s \in Projects |-> Nobody]
  /\ place = [h \in Harnesses |-> "none"]
  /\ args = [h \in Harnesses |-> NoArgs]
  /\ step = [h \in Harnesses |-> "clone"]
  /\ passed = [h \in Harnesses |-> {}]
  /\ up = [h \in Harnesses |-> "none"] /\ cancelled = [h \in Harnesses |-> FALSE]
  /\ evidence = [h \in Harnesses |-> {}] /\ exit = [h \in Harnesses |-> "none"]
  /\ ground = [h \in Harnesses |-> Nobody] /\ cleaned = {} /\ tornDown = {} /\ reached = {}

-----------------------------------------------------------------------------
(* Mutant: the project is the one of the environment, as it once was.      *)
ProjectName_ByEnv(h) == "unified-data-plug"

(* The name of the install directory. *)
ProjectName(h) == args[h].stack

(* Whoever has something of stack s at stake while h acts on it. *)
Others(h, s) == {g \in Harnesses \ {h} : (Live(g) /\ args[g].stack = s) \/ (container = s /\ creator = g)}

(* docker compose -p <project> down. *)
Down(h) ==
  /\ IF container = ProjectName(h)
     THEN container' = NoContainer /\ creator' = Nobody ELSE UNCHANGED <<container, creator>>
  /\ reached' = reached \cup Others(h, ProjectName(h))

DownFails(h) ==
  \/ UNCHANGED <<container, creator, reached>>
  \/ Down(h)

(* With --keep as with --no-teardown nothing is taken down in the end,     *)
(* whatever that end is.                                                   *)
Launch(h) ==
  /\ IsNext(h)
  /\ \E s \in Projects, teardown, clean \in BOOLEAN :
       /\ args' = [args EXCEPT ![h] = [stack |-> s, teardown |-> teardown]]
       /\ place' = [place EXCEPT ![h] = IF clean THEN "cleanup" ELSE "run"]
  /\ UNCHANGED <<dockerVars, step, passed, up, cancelled, outVars, harnessHistory>>

(* _pre_install_cleanup: each of its actions is best effort. *)
CleanDown(h) ==
  /\ Moves(h, "cleanup", "stale")
  /\ \/ Down(h) /\ cleaned' = cleaned \cup {h}
        /\ volumes' = [s \in Projects |-> IF s = ProjectName(h) THEN Nobody ELSE volumes[s]]
     \/ DownFails(h) /\ UNCHANGED <<cleaned, volumes>>
  /\ UNCHANGED <<args, step, passed, up, cancelled, outVars, ground, tornDown>>

(* list_stale_udp_containers: only one without the label of a project.     *)
RemoveStale(h) ==
  /\ Moves(h, "stale", "run")
  /\ \/ container = "unlabelled" /\ container' = NoContainer
     \/ UNCHANGED container
  /\ UNCHANGED <<creator, volumes, args, step, passed, up, cancelled, outVars, harnessHistory>>

-----------------------------------------------------------------------------
(* UDPRunner.run, and what the capturer makes of its events.               *)
StepEnds(h, ok) ==
  /\ passed' = [passed EXCEPT ![h] = IF ok THEN @ \cup {step[h]} ELSE @]
  /\ IF ok /\ step[h] # "finalize"
     THEN step' = [step EXCEPT ![h] = NextStep[step[h]]] /\ place' = [place EXCEPT ![h] = "run"]
     ELSE place' = [place EXCEPT ![h] = "stop"] /\ UNCHANGED step

(* clone, or finalize, which does not wait. *)
RunStep(h) ==
  /\ place[h] = "run" /\ step[h] \in {"clone", "finalize"}
  /\ step[h] = "clone" => ~cancelled[h]
  /\ \E ok \in BOOLEAN : StepEnds(h, ok)
  /\ UNCHANGED <<dockerVars, args, up, cancelled, outVars, harnessHistory>>

BeginUp(h) ==
  /\ step[h] = "start" /\ ~cancelled[h] /\ Moves(h, "run", "up")
  /\ up' = [up EXCEPT ![h] = "running"]
  /\ UNCHANGED <<dockerVars, args, step, passed, cancelled, outVars, harnessHistory>>

(* docker compose up goes on whether or not it is waited for.  It refuses  *)
(* to take over a container of another project.                            *)
UpCreates(h) ==
  /\ up[h] = "running" /\ container \in {NoContainer, args[h].stack}
  /\ container' = args[h].stack /\ creator' = h
  /\ volumes' = [volumes EXCEPT ![args[h].stack] = IF @ = Nobody THEN h ELSE @]
  /\ reached' = reached \cup Others(h, args[h].stack)
  /\ up' = [up EXCEPT ![h] = IF place[h] = "up" THEN "created" ELSE "none"]
  /\ UNCHANGED <<place, args, step, passed, cancelled, outVars, ground, cleaned, tornDown>>

UpFails(h) ==
  /\ up[h] = "running"
  /\ up' = [up EXCEPT ![h] = IF place[h] = "up" THEN "failed" ELSE "none"]
  /\ UNCHANGED <<dockerVars, place, args, step, passed, cancelled, outVars, harnessHistory>>

UpReturns(h) ==
  /\ place[h] = "up" /\ up[h] \in {"created", "failed"}
  /\ StepEnds(h, up[h] = "created") /\ up' = [up EXCEPT ![h] = "none"]
  /\ UNCHANGED <<dockerVars, args, cancelled, outVars, harnessHistory>>

(* The timeout kills the bash around it. *)
UpTimesOut(h) ==
  /\ place[h] = "up" /\ up[h] = "running" /\ StepEnds(h, FALSE)
  /\ UNCHANGED <<dockerVars, args, up, cancelled, outVars, harnessHistory>>

(* The scripts reach the containers by their names. *)
Smoke(h) ==
  /\ place[h] = "run" /\ step[h] = "smoke" /\ ~cancelled[h]
  /\ \E ok \in BOOLEAN : (ok => container # NoContainer) /\ StepEnds(h, ok)
  /\ ground' = [ground EXCEPT ![h] = volumes[args[h].stack]]
  /\ UNCHANGED <<dockerVars, args, up, cancelled, outVars, cleaned, tornDown, reached>>

(* SIGINT: task.cancel().  During a synchronous stretch it waits for the   *)
(* next await.                                                             *)
Interrupt(h) ==
  /\ Live(h) /\ ~cancelled[h] /\ cancelled' = [cancelled EXCEPT ![h] = TRUE]
  /\ UNCHANGED <<dockerVars, place, args, step, passed, up, outVars, harnessHistory>>

(* Delivered in an await of run, it is caught there: the install FAILED,   *)
(* and the command that was waited for is left running.  The last await    *)
(* is that of the notification.                                            *)
Cancelled(h) ==
  /\ cancelled[h] /\ cancelled' = [cancelled EXCEPT ![h] = FALSE]
  /\ \/ place[h] \in {"run", "up"} /\ step[h] # "finalize"
     \/ place[h] = "stop"
  /\ place' = [place EXCEPT ![h] = "stop"]
  /\ up' = [up EXCEPT ![h] = IF @ = "running" THEN @ ELSE "none"]
  /\ UNCHANGED <<dockerVars, args, step, passed, outVars, harnessHistory>>

-----------------------------------------------------------------------------
End(h, code) ==
  /\ place' = [place EXCEPT ![h] = "ended"] /\ exit' = [exit EXCEPT ![h] = code]
  /\ cancelled' = [cancelled EXCEPT ![h] = FALSE]
  /\ step' = [step EXCEPT ![h] = "clone"] /\ passed' = [passed EXCEPT ![h] = {}]
  /\ args' = [args EXCEPT ![h].teardown = FALSE]

ExitCode(h) ==
  IF "smoke" \in passed[h] /\ ~cancelled[h] THEN "zero" ELSE "other"

(* capturer.stop sleeps for a moment; a cancel that is delivered there     *)
(* escapes the finally block with all that was still to be done in it.     *)
StopCapturer(h) ==
  /\ place[h] = "stop"
  /\ IF cancelled[h] THEN End(h, "other")
                     ELSE /\ place' = [place EXCEPT ![h] = "report"]
                          /\ UNCHANGED <<exit, cancelled, step, passed, args>>
  /\ UNCHANGED <<dockerVars, up, evidence, harnessHistory>>

(* The record is printed, or written where --json says; if that is not     *)
(* possible, the exception skips the rest.                                 *)
Report(h) ==
  /\ place[h] = "report"
  /\ \/ /\ evidence' = [evidence EXCEPT ![h] = passed[h]]
        /\ IF args[h].teardown
           THEN place' = [place EXCEPT ![h] = "down"] /\ UNCHANGED <<exit, cancelled, step, passed, args>>
           ELSE End(h, ExitCode(h))
     \/ End(h, "other") /\ UNCHANGED evidence
  /\ UNCHANGED <<dockerVars, up, harnessHistory>>

(* _teardown: the volumes stay. *)
TearDown(h) ==
  /\ place[h] = "down" /\ End(h, ExitCode(h))
  /\ \/ Down(h) /\ tornDown' = IF up[h] = "running" THEN tornDown ELSE tornDown \cup {h}
     \/ DownFails(h) /\ UNCHANGED tornDown
  /\ UNCHANGED <<volumes, up, evidence, ground, cleaned>>

(* SIGKILL. *)
Kill(h) ==
  /\ Live(h) /\ End(h, "other")
  /\ up' = [up EXCEPT ![h] = IF @ = "running" THEN @ ELSE "none"]
  /\ UNCHANGED <<dockerVars, evidence, harnessHistory>>

HarnessNext ==
  \E h \in Harnesses :
    \/ Launch(h) \/ CleanDown(h) \/ RemoveStale(h)
    \/ RunStep(h) \/ BeginUp(h) \/ UpCreates(h) \/ UpFails(h) \/ UpReturns(h) \/ UpTimesOut(h)
    \/ Smoke(h) \/ Interrupt(h) \/ Cancelled(h)
    \/ StopCapturer(h) \/ Report(h) \/ TearDown(h) \/ Kill(h)

HarnessSpec == HarnessInit /\ [][HarnessNext]_harnessVars

-----------------------------------------------------------------------------
HarnessTypeOK ==
  /\ container \in Projects \cup {"unlabelled", NoContainer} /\ creator \in Harnesses \cup {Nobody}
  /\ volumes \in [Projects -> Harnesses \cup {Nobody}]
  /\ place \in [Harnesses -> {"none", "cleanup", "stale", "run", "up", "stop", "report", "down", "ended"}]
  /\ args \in [Harnesses -> [stack : Projects \cup {NoContainer}, teardown : BOOLEAN]]
  /\ step \in [Harnesses -> PIPELINE_STEPS]
  /\ passed \in [Harnesses -> SUBSET PIPELINE_STEPS]
  /\ up \in [Harnesses -> {"none", "running", "created", "failed"}]
  /\ cancelled \in [Harnesses -> BOOLEAN]
  /\ evidence \in [Harnesses -> SUBSET PIPELINE_STEPS]
  /\ exit \in [Harnesses -> {"none", "zero", "other"}]
  /\ ground \in [Harnesses -> Harnesses \cup {Nobody}]
  /\ cleaned \subseteq Harnesses /\ tornDown \subseteq Harnesses /\ reached \subseteq Harnesses

(* "a fresh install must not inherit corrupt volumes from a killed run"    *)
(* (docker_compose_down_with_volumes): a stack that a harness certifies    *)
(* has stood on containers and volumes of its own, if its cleanup worked   *)
(* and no other harness reached into it.                                   *)
CertifiedIsFresh ==
  \A h \in cleaned \ reached :
    "smoke" \in evidence[h] =>
      /\ {"clone", "start"} \subseteq evidence[h]
      /\ ground[h] = h

(* "orphan containers never survive": what a harness has torn down is      *)
(* gone, unless its up went on beside the teardown.                        *)
NoOrphans == \A h \in tornDown : creator # h

(* Whatever interrupts it: 0 is only for a stack whose evidence was        *)
(* printed and says that its smoke test passed.                            *)
ZeroIsCertified == \A h \in Harnesses : exit[h] = "zero" => "smoke" \in evidence[h]

(* What the harness certifies as a fresh install is one, what it took down *)
(* is gone, and it ends with 0 only on evidence that it has printed.       *)
HarnessIsTrue == CertifiedIsFresh /\ NoOrphans /\ ZeroIsCertified

(* What this rests on.  The capturer has seen the steps before the one the *)
(* harness is at, and never a smoke test without what precedes it.         *)
Before == [clone |-> {}, start |-> {"clone"}, smoke |-> {"clone", "start"},
           finalize |-> {"clone", "start", "smoke"}]

Grounded(steps) ==
  /\ "smoke" \in steps => "start" \in steps
  /\ "start" \in steps => "clone" \in steps

InOrder(h) ==
  /\ Grounded(passed[h]) /\ Grounded(evidence[h])
  /\ place[h] \in {"none", "cleanup", "stale"} => step[h] = "clone" /\ passed[h] = {}
  /\ place[h] \in {"run", "up"} => passed[h] = Before[step[h]]
  /\ place[h] = "up" => step[h] = "start"
  /\ evidence[h] # {} => place[h] \in {"down", "ended"}
  /\ place[h] = "down" => evidence[h] = passed[h]
  /\ exit[h] # "none" => place[h] = "ended"

StepsInOrder == \A h \in Harnesses : InOrder(h)

(* The containers and volumes of a harness whose cleanup worked, and into  *)
(* whose stack no other has reached, are its own from start on.            *)
GroundIsItsOwn ==
  \A h \in cleaned \ reached :
    /\ place[h] \in {"stale", "run", "up", "stop", "report", "down", "ended"}
    /\ Live(h) => volumes[args[h].stack] \in {Nobody, h}
    /\ Live(h) /\ ("start" \in passed[h] \/ (place[h] = "up" /\ up[h] = "created"))
         => volumes[args[h].stack] = h
    /\ "smoke" \in passed[h] \cup evidence[h] => ground[h] = h

(* Containers are where their creator's directory is; one that has torn    *)
(* its stack down has no up left to bring them back.                       *)
CreatorsKeepTheirPlace ==
  /\ \A h \in Harnesses : creator = h => container = args[h].stack
  /\ \A h \in Harnesses : place[h] = "none" => up[h] = "none" /\ creator # h
  /\ \A h \in Harnesses : creator = h \/ up[h] # "none" \/ Live(h) => args[h].stack \in Projects
  /\ \A h \in tornDown : place[h] = "ended" /\ up[h] # "running"

(* The inductive invariant behind HarnessIsTrue.                           *)
HarnessInv ==
  /\ HarnessTypeOK /\ HarnessIsTrue
  /\ StepsInOrder /\ GroundIsItsOwn /\ CreatorsKeepTheirPlace
=============================================================================
