-------------------------- MODULE InstallDirectory --------------------------
(***************************************************************************)
(* What the steps clone, env and start of backend/runner.py leave in the   *)
(* directory of one install, over the first run and its retries: which     *)
(* compose files lie there, which of them a start uses, and which MinIO    *)
(* secret every kind of file carries.                                      *)
(*                                                                         *)
(* A secret is a number: 0 is the demo literal of the repository, n > 0 is *)
(* the one the env step of run n generates.  Each writer of the env step   *)
(* is an action, because the server may be lost between any two of them;   *)
(* a writer that fails is logged and passed over, except that of .env, and *)
(* so is a file the final sweep cannot read or write.                      *)
(* The overlays the process environment alone asks for are not written     *)
(* (their writers look at the merged environment only) and are no flags.   *)
(***************************************************************************)
EXTENDS Naturals, Sequences, FiniteSets

CONSTANTS
  OverlayOrder,   \* the optional overlay modules in the order they are tried
  Stacks,         \* the kinds of stacks, subset of StackKinds
  MaxRuns,        \* bound: runs of the pipeline
  MaxLapses       \* bound: kinds of files one run fails to write or to sweep

Overlays == {OverlayOrder[i] : i \in DOMAIN OverlayOrder}

(* git: cloned or copied from the bundled stacks; compose: start is of type *)
(* docker_compose_up, or a command line of its own; fragment: a renderer is *)
(* registered for the stack.                                               *)
StackKinds == [git: BOOLEAN, compose: BOOLEAN, fragment: BOOLEAN]

Elems(s) == {s[i] : i \in DOMAIN s}
NoRepeats(s) == \A i, j \in DOMAIN s : s[i] = s[j] => i = j

ASSUME DirectoryAssumption ==
  /\ OverlayOrder \in Seq(Overlays) /\ NoRepeats(OverlayOrder)
  /\ Stacks \subseteq StackKinds /\ MaxRuns \in Nat /\ MaxLapses \in Nat
  /\ {"base", "fragment", "harden"} \cap Overlays = {}

Files == Overlays \cup {"fragment", "harden"}

(* The kinds of files that carry the secret; docker-compose.yml, which the *)
(* patches edit, is also one of the files of the repository.               *)
Kinds == {"repo", "compose", "scripts", "dotenv"}
Demo == 0
Secrets == 0..MaxRuns
Nothing == MaxRuns + 1        \* the file is not there, or carries no secret

(* LHS_*_ENABLED, LHS_GENERATE_CREDENTIALS, and where                      *)
(* LHS_HARDEN_RUNTIME_DISABLED is set: nowhere, in the overrides of the    *)
(* request, or in the environment of the server.                           *)
Flags == [on: SUBSET Overlays, generate: BOOLEAN,
          unhardened: {"no", "override", "process"}]
NoFlags == [on |-> {}, generate |-> FALSE, unhardened |-> "no"]

VARIABLES
  stack,      \* which kind of stack is installed
  run,        \* runs begun
  pc,         \* the writer that is next, or "failed" or "ready"
  flags,      \* of the current run
  cloned,     \* the repository is in the directory
  repo,       \* secrets in the files of the repository
  fe, be,     \* secrets the patches injected into docker-compose.yml
  scripts,    \* secrets in the generated scripts
  dotenv,     \* MINIO_ROOT_PASSWORD in .env
  disk,       \* compose files beside the base one
  attached,   \* _overlays of the runner
  used,       \* files of the last start
  promised,   \* history: what the last whole env step attached
  generated,  \* history: env steps that swept since the last clone
  unwritten,  \* history: kinds whose writer failed in this run
  unswept     \* history: kinds with files its sweep passed over

secretVars == <<repo, fe, be, scripts, dotenv>>
overlayVars == <<disk, attached>>
passedOver == <<unwritten, unswept>>
history == <<promised, generated, passedOver>>
vars == <<stack, run, pc, flags, cloned, secretVars, overlayVars, used, history>>

Pcs == {"clone", "patch", "bootstrap", "overlays", "fragment", "harden", "dotenv",
        "sweep", "start", "failed", "ready"}

DirTypeOK ==
  /\ stack \in Stacks /\ run \in 0..MaxRuns /\ pc \in Pcs /\ flags \in Flags
  /\ cloned \in BOOLEAN
  /\ repo \subseteq Secrets /\ scripts \subseteq Secrets
  /\ {be, dotenv} \subseteq Secrets \cup {Nothing}
  /\ fe \in Seq(Secrets) /\ Len(fe) <= MaxRuns
  /\ disk \subseteq Files
  /\ attached \in Seq(Files) /\ NoRepeats(attached)
  /\ used \in Seq(Files \cup {"base"})
  /\ promised \subseteq Files /\ generated \in 0..MaxRuns
  /\ unwritten \subseteq Kinds /\ unswept \subseteq Kinds

Init ==
  /\ stack \in Stacks /\ run = 0 /\ pc = "failed" /\ flags = NoFlags
  /\ cloned = FALSE
  /\ repo = {} /\ fe = <<>> /\ be = Nothing /\ scripts = {} /\ dotenv = Nothing
  /\ disk = {} /\ attached = <<>> /\ used = <<>>
  /\ promised = {} /\ generated = 0 /\ unwritten = {} /\ unswept = {}

-----------------------------------------------------------------------------
(* A new runner, whose overlays are empty: the install itself, and retries *)
(* of a failed one at any step, with overrides of their own.               *)
BeginRun(at, f) ==
  /\ pc = "failed" /\ run < MaxRuns
  /\ (run = 0) => (at = "clone")
  /\ run' = run + 1 /\ pc' = at /\ flags' = f
  /\ attached' = <<>> /\ used' = <<>>
  /\ promised' = IF at = "patch" THEN {} ELSE promised
  /\ UNCHANGED <<stack, cloned, secretVars, disk, generated, passedOver>>

Fails == pc' = "failed" /\ unwritten' = {} /\ unswept' = {}

(* _step_clone.  A fresh clone, or fetch, checkout and reset --hard: the   *)
(* tracked files are upstream's again and everything else stays; a bundled *)
(* stack is copied over a directory that is removed first.                 *)
TrackedFilesFresh ==
  /\ cloned' = TRUE /\ repo' = {Demo} /\ fe' = <<>> /\ be' = Nothing

Clone ==
  /\ pc = "clone" /\ pc' = "patch"
  /\ TrackedFilesFresh
  /\ IF stack.git
     THEN UNCHANGED <<scripts, dotenv, disk>>
     ELSE scripts' = {} /\ dotenv' = Nothing /\ disk' = {}
  /\ generated' = 0 /\ promised' = {}
  /\ UNCHANGED <<stack, run, flags, attached, used, passedOver>>

CloneFails ==
  /\ pc = "clone" /\ Fails
  /\ \/ UNCHANGED <<cloned, secretVars, disk>>
     \/ /\ ~stack.git        \* removed, and the copy failed
        /\ cloned' = FALSE /\ repo' = {} /\ fe' = <<>> /\ be' = Nothing
        /\ scripts' = {} /\ dotenv' = Nothing /\ disk' = {}
  /\ promised' = {}
  /\ UNCHANGED <<stack, run, flags, attached, used, generated>>

-----------------------------------------------------------------------------
(* How many of the kinds a run has not written or not swept.               *)
Lapses(kinds) == Cardinality(kinds) <= MaxLapses

(* _patch_compose_images: a block of exports with the demo literal is put  *)
(* before the start of the FE unless that very block is there, once before *)
(* the start of the BE.                                                    *)
Patched(blocks) ==
  IF blocks # <<>> /\ blocks[Len(blocks)] = Demo THEN blocks ELSE Append(blocks, Demo)

EnvPatch ==
  /\ pc = "patch" /\ pc' = "bootstrap"
  /\ \/ /\ IF cloned
           THEN /\ fe' = Patched(fe)
                /\ be' = IF be = Nothing THEN Demo ELSE be
           ELSE UNCHANGED <<fe, be>>
        /\ UNCHANGED unwritten
     \/ /\ unwritten' = unwritten \cup {"compose"} /\ Lapses(unwritten')
        /\ UNCHANGED <<fe, be>>
  /\ UNCHANGED <<stack, run, flags, cloned, repo, scripts, dotenv, overlayVars, used,
                 promised, generated, unswept>>

(* _write_studio_bootstrap: the scripts are written anew, one by one; its  *)
(* failure is passed over by the env step (runner.py:1783), as that of the *)
(* patch before it (runner.py:1716).                                       *)
EnvBootstrap ==
  /\ pc = "bootstrap" /\ pc' = "overlays"
  /\ \/ scripts' = {Demo} /\ UNCHANGED unwritten
     \/ /\ unwritten' = unwritten \cup {"scripts"} /\ Lapses(unwritten')
        /\ scripts' \in {scripts, scripts \cup {Demo}}
  /\ UNCHANGED <<stack, run, flags, cloned, repo, fe, be, dotenv, overlayVars, used,
                 promised, generated, unswept>>

(* What a comprehension or a loop over s, which repeats nothing, keeps of  *)
(* S: the one sequence of its elements in S, in the order of s.            *)
Kept(s, S) ==
  {t \in UNION {[1..n -> Elems(s)] : n \in 0..Len(s)} :
     /\ Elems(t) = Elems(s) \cap S
     /\ \A i, j \in DOMAIN t :
          i < j => \E k, l \in DOMAIN s : k < l /\ s[k] = t[i] /\ s[l] = t[j]}

(* write_airflow_overlay and its like: the compose file of the module. *)
Written(names) == disk' = disk \cup names

(* _write_optional_overlays: those that are written are attached. *)
EnvOverlays ==
  /\ pc = "overlays" /\ pc' = "fragment"
  /\ \E written \in SUBSET flags.on :
       /\ Written(written)
       /\ attached' \in Kept(OverlayOrder, written)
  /\ UNCHANGED <<stack, run, flags, cloned, secretVars, used, history>>

(* Mutant: the fragment is attached after the overlays. *)
EnvFragment_Last ==
  /\ pc = "fragment" /\ pc' = "harden"
  /\ \/ /\ stack.fragment
        /\ Written({"fragment"}) /\ attached' = Append(attached, "fragment")
     \/ UNCHANGED <<disk, attached>>
  /\ UNCHANGED <<stack, run, flags, cloned, secretVars, used, history>>

(* _write_stack_fragment: in front of the overlays. *)
EnvFragment ==
  /\ pc = "fragment" /\ pc' = "harden"
  /\ \/ /\ stack.fragment
        /\ Written({"fragment"}) /\ attached' = <<"fragment">> \o attached
     \/ UNCHANGED <<disk, attached>>     \* no renderer, or it fails
  /\ UNCHANGED <<stack, run, flags, cloned, secretVars, used, history>>

(* _write_harden_overlay: last, unless disabled; nothing to harden when no *)
(* service is defined.                                                     *)
EnvHarden ==
  /\ pc = "harden" /\ pc' = "dotenv"
  /\ \/ /\ flags.unhardened = "no" /\ (cloned \/ attached # <<>>)
        /\ Written({"harden"})
        /\ \E others \in Kept(attached, Files \ {"harden"}) : attached' = Append(others, "harden")
     \/ UNCHANGED <<disk, attached>>
  /\ UNCHANGED <<stack, run, flags, cloned, secretVars, used, history>>

(* .env is replaced as a whole; what an earlier run or a rotation wrote    *)
(* there is gone.                                                          *)
EnvDotenv ==
  /\ pc = "dotenv" /\ pc' = "sweep"
  /\ dotenv' = IF flags.generate THEN run ELSE Demo
  /\ UNCHANGED <<stack, run, flags, cloned, repo, fe, be, scripts, overlayVars, used, history>>

DotenvFails ==
  /\ pc = "dotenv" /\ Fails
  /\ UNCHANGED <<stack, run, flags, cloned, secretVars, overlayVars, used, promised, generated>>

(* _rotate_install_credential: the demo literal is replaced wherever it is *)
(* found; files of the kinds in over cannot all be read and written.       *)
Swept(secret) == IF secret = Demo THEN run ELSE secret
SweptOf(secrets) == {Swept(n) : n \in secrets}
AfterSweep(secrets, passed) ==
  IF passed THEN {secrets, secrets \cup SweptOf(secrets)} ELSE {SweptOf(secrets)}

Sweep(over) ==
  /\ repo' \in AfterSweep(repo, "repo" \in over)
  /\ scripts' \in AfterSweep(scripts, "scripts" \in over)
  /\ dotenv' = IF "dotenv" \in over THEN dotenv ELSE Swept(dotenv)
  /\ IF "compose" \in over
     THEN UNCHANGED <<fe, be>>
     ELSE be' = Swept(be) /\ fe' = [i \in DOMAIN fe |-> Swept(fe[i])]
  /\ generated' = generated + 1

PassableOver ==
  {over \in SUBSET Kinds :
     /\ "compose" \in over => "repo" \in over     \* one of its files, counted once
     /\ Lapses(over \ {"compose"})}

(* The step ends ok, whatever the sweep passed over.                       *)
EnvEnds ==
  /\ pc = "sweep" /\ pc' = "start"
  /\ IF flags.generate
     THEN \E over \in PassableOver : Sweep(over) /\ unswept' = over
     ELSE UNCHANGED <<secretVars, generated, unswept>>
  /\ promised' = Elems(attached)
  /\ UNCHANGED <<stack, run, flags, cloned, overlayVars, used, unwritten>>

(* The server is lost on the way through the directory. *)
SweepLost ==
  /\ pc = "sweep" /\ flags.generate /\ Fails
  /\ \E over \in PassableOver : Sweep(over)
  /\ UNCHANGED <<stack, run, flags, cloned, overlayVars, used, promised>>

-----------------------------------------------------------------------------
(* _reconstruct_overlays_from_disk. *)
RecoveredFragment == IF "fragment" \in disk THEN <<"fragment">> ELSE <<>>
RecoveredHarden ==
  IF "harden" \in disk /\ flags.unhardened # "process" THEN <<"harden">> ELSE <<>>

Recovered ==
  {RecoveredFragment \o overlays \o RecoveredHarden : overlays \in Kept(OverlayOrder, disk)}

(* Without -f, COMPOSE_FILE names the base and a hardening overlay that is *)
(* on the disk.                                                            *)
Implicit == IF "harden" \in disk THEN <<"base", "harden">> ELSE <<"base">>

(* _step_cmd for start: which compose files the stack is brought up from. *)
StartUses ==
  /\ IF stack.compose /\ attached = <<>> THEN attached' \in Recovered ELSE UNCHANGED attached
  /\ used' = IF ~cloned THEN <<>>
             ELSE IF stack.compose /\ attached' # <<>> THEN <<"base">> \o attached'
             ELSE Implicit

(* Then the start, or a later step, fails, or the install is ready. *)
Start ==
  /\ pc = "start"
  /\ StartUses
  /\ \/ Fails
     \/ cloned /\ pc' = "ready" /\ UNCHANGED passedOver
  /\ UNCHANGED <<stack, run, flags, cloned, secretVars, disk, promised, generated>>

-----------------------------------------------------------------------------
(* The server is lost; the record is FAILED when it comes back. *)
Lost ==
  /\ pc \notin {"failed", "ready"} /\ Fails
  /\ UNCHANGED <<stack, run, flags, cloned, secretVars, overlayVars, used, promised, generated>>

Next ==
  \/ \E at \in {"clone", "patch", "start"}, f \in Flags : BeginRun(at, f)
  \/ Clone \/ CloneFails
  \/ EnvPatch \/ EnvBootstrap \/ EnvOverlays \/ EnvFragment \/ EnvHarden
  \/ EnvDotenv \/ DotenvFails \/ EnvEnds \/ SweepLost
  \/ Start \/ Lost

Spec == Init /\ [][Next]_vars

-----------------------------------------------------------------------------
(* Every start, that of a retry included, whose runner never ran an env    *)
(* step, uses all the compose files the last whole env step attached       *)
(* (the self-heal of _step_cmd); only hardening may be left out, when it   *)
(* has been disabled since.                                                *)
StartCoversLastEnv ==
  (used # <<>> /\ stack.compose) =>
    \A o \in promised : o \in Elems(used) \/ (o = "harden" /\ flags.unhardened = "process")

(* Later -f files override earlier ones: whatever runs came before, the    *)
(* fragment comes right after the base, the hardening last, and none twice. *)
FilesInOrder ==
  used # <<>> =>
    /\ used[1] = "base" /\ NoRepeats(used)
    /\ "fragment" \in Elems(used) => used[2] = "fragment"
    /\ "harden" \in Elems(used) => used[Len(used)] = "harden"

(* Once the env step of a run that generates a secret is over, the public  *)
(* one is left only where the sweep could not read or write a file, and on *)
(* a freshly cloned directory all that was written and swept carries the   *)
(* new one (the comment at the sweep in _step_env).                        *)
Carried(kind) ==
  CASE kind = "repo" -> repo
    [] kind = "compose" -> {be} \cup Elems(fe)
    [] kind = "scripts" -> scripts
    [] kind = "dotenv" -> {dotenv}

SecretIsSwept ==
  (pc = "start" /\ flags.generate /\ dotenv = run /\ cloned) =>
    /\ \A kind \in Kinds \ unswept : Demo \notin Carried(kind)
    /\ generated = 1 =>
         \A kind \in Kinds \ (unswept \cup unwritten) : Carried(kind) = {run}

(* The three together: what an install directory promises a start.         *)
DirectoryIsWhole == StartCoversLastEnv /\ FilesInOrder /\ SecretIsSwept

(* runner.py:1906: "a stale overlay file from a prior run must NOT silently *)
(* re-harden when the operator has since disabled it".                      *)
DisabledMeansUnhardened ==
  flags.unhardened = "process" => "harden" \notin Elems(used)

(* What DirectoryIsWhole rests on.  A run patches and generates once.      *)
EnvPcs == {"patch", "bootstrap", "overlays", "fragment", "harden", "dotenv", "sweep"}

OncePerRun ==
  /\ pc # "failed" => run > 0
  /\ Len(fe) <= run /\ generated <= run
  /\ pc \in {"clone", "patch"} => Len(fe) < run
  /\ pc \in EnvPcs \cup {"clone"} => generated < run

(* The files that are attached, and those an env step promised, lie on the *)
(* disk; a start that need not look there has what its env step promised.  *)
FilesLie ==
  /\ promised \cup Elems(attached) \subseteq disk
  /\ pc \in {"clone", "patch", "bootstrap", "overlays"} => attached = <<>>
  /\ pc = "start" /\ attached # <<>> => promised = Elems(attached)
  /\ used # <<>> => pc \in {"failed", "ready"}

(* The fragment is in front and the hardening behind, also on the way.     *)
InTheirPlaces ==
  /\ NoRepeats(attached)
  /\ "fragment" \in Elems(attached) => attached[1] = "fragment"
  /\ "harden" \in Elems(attached) => attached[Len(attached)] = "harden"
  /\ pc = "fragment" => Elems(attached) \subseteq Overlays
  /\ pc = "harden" => "harden" \notin Elems(attached)

(* A secret is of a run there has been, and until the first generating env *)
(* step behind a clone every file has the public one.                      *)
SecretsAreDated ==
  /\ repo \subseteq 0..run /\ scripts \subseteq 0..run
  /\ {be, dotenv} \subseteq 0..run \cup {Nothing}
  /\ pc = "sweep" => dotenv = IF flags.generate THEN run ELSE Demo
  /\ (generated = 0 /\ cloned) =>
       /\ repo = {Demo} /\ be \in {Demo, Nothing} /\ \A i \in DOMAIN fe : fe[i] = Demo
       /\ pc \in EnvPcs \ {"patch"} =>
            "compose" \in unwritten \/ (be = Demo /\ fe # <<>>)
       /\ pc \in EnvPcs \ {"patch", "bootstrap"} =>
            "scripts" \in unwritten \/ scripts = {Demo}

DirectoryInv ==
  /\ DirTypeOK /\ OncePerRun /\ FilesLie /\ InTheirPlaces /\ SecretsAreDated
  /\ DirectoryIsWhole
=============================================================================
