--------------------------- MODULE AiProvisioning ---------------------------
(***************************************************************************)
(* A provisioning job (ProvisionJob in backend/ai_provisioner.py): six     *)
(* phases that ask a language model for a configuration, install the stack *)
(* with it and check what stands, and the event streams that show them     *)
(* (/api/ai-provision in backend/main.py).                                 *)
(*                                                                         *)
(* The end of a phase and the start of the next one are one slice of the   *)
(* event loop.  The events of a slice are counted as one; the last event   *)
(* of a job is provision_complete.  Every stream of a job takes from the   *)
(* one queue of the job.                                                   *)
(***************************************************************************)
EXTENDS Naturals

CONSTANT Viewers     \* the streams of the job

VARIABLES
  state,       \* state of the job; "lost" once the server that had it is gone
  phases,      \* [Phases -> state of the phase]
  plan,        \* what came of the language model's answer
  stands,      \* what came of the install
  unread,      \* events in the queue, but for the last one
  complete,    \* where provision_complete is
  viewer       \* [Viewers -> where the stream stands]

provisionVars == <<state, phases, plan, stands, unread, complete, viewer>>

Phases == {"research", "gen_config", "install", "post_cfg", "verify", "summary"}
Order == <<"research", "gen_config", "install", "post_cfg", "verify", "summary">>

Over == {"done", "failed"}

(* start_provision: the job is in memory, and its coroutine is created. *)
ProvisionInit ==
  /\ state = "pending"
  /\ phases = [p \in Phases |-> "pending"]
  /\ plan = "none" /\ stands = "none"
  /\ unread = 0 /\ complete = "no"
  /\ viewer = [v \in Viewers |-> "away"]

Active(p) == state = "running" /\ phases[p] = "active"

-----------------------------------------------------------------------------
(* The phases *)

Emits == unread' = unread + 1 /\ UNCHANGED complete

(* The last events of a job: its state, and provision_complete. *)
Ends(to) == state' = to /\ unread' = unread + 1 /\ complete' = "queued"

(* _phase_end of p and _phase_start of q. *)
Passes(p, q) ==
  /\ phases' = [phases EXCEPT ![p] = "done", ![q] = "active"]
  /\ Emits /\ UNCHANGED state

(* run: provision_started, and the first phase. *)
Begin ==
  /\ state = "pending"
  /\ state' = "running"
  /\ phases' = [phases EXCEPT !["research"] = "active"]
  /\ Emits
  /\ UNCHANGED <<plan, stands, viewer>>

(* _phase_research: whatever fails, the versions of the cart will do. *)
Research ==
  /\ Active("research")
  /\ Passes("research", "gen_config")
  /\ UNCHANGED <<plan, stands, viewer>>

GenConfig ==
  /\ Active("gen_config")
  /\ plan' = "plan"
  /\ Passes("gen_config", "install")
  /\ UNCHANGED <<stands, viewer>>

(* Mutant: a run without a configuration goes on. *)
NoConfig_GoesOn ==
  /\ Active("gen_config")
  /\ plan' \in {"empty", "error"}
  /\ phases' = [phases EXCEPT !["gen_config"] = IF plan' = "empty" THEN "done" ELSE "failed",
                              !["install"] = "active"]
  /\ Emits
  /\ UNCHANGED <<state, stands, viewer>>

(* An empty answer ends the phase well and the run badly; an exception     *)
(* ends both badly.                                                        *)
NoConfig ==
  /\ Active("gen_config")
  /\ plan' \in {"empty", "error"}
  /\ phases' = [phases EXCEPT !["gen_config"] = IF plan' = "empty" THEN "done" ELSE "failed"]
  /\ Ends("failed")
  /\ UNCHANGED <<stands, viewer>>

(* _phase_install: UDPRunner.run ends without an exception, whatever came  *)
(* of it.  Its install has no record, and the store has no get_state: the  *)
(* question for the final state raises, and the answer to that is success. *)
Install ==
  /\ Active("install")
  /\ stands' \in {"READY", "FAILED"}
  /\ Passes("install", "post_cfg")
  /\ UNCHANGED <<plan, viewer>>

(* The manifest, the directory or the runner could not be made. *)
InstallRaises ==
  /\ Active("install")
  /\ phases' = [phases EXCEPT !["install"] = "failed"]
  /\ Ends("failed")
  /\ UNCHANGED <<plan, stands, viewer>>

(* _phase_post_cfg: catalogs and commands, none of which can fail the run. *)
PostCfg ==
  /\ Active("post_cfg")
  /\ Passes("post_cfg", "verify")
  /\ UNCHANGED <<plan, stands, viewer>>

(* _phase_verify: the number of checks that pass is only logged. *)
Verify ==
  /\ Active("verify")
  /\ Passes("verify", "summary")
  /\ UNCHANGED <<plan, stands, viewer>>

Summary ==
  /\ Active("summary")
  /\ phases' = [phases EXCEPT !["summary"] = "done"]
  /\ Ends("done")
  /\ UNCHANGED <<plan, stands, viewer>>

(* An answer of the wrong shape: the checks or the connection information  *)
(* raise into run, which does not end the phase.                           *)
Raises ==
  /\ Active("verify") \/ Active("summary")
  /\ Ends("failed")
  /\ UNCHANGED <<phases, plan, stands, viewer>>

(* Jobs are in memory only. *)
ServerLost ==
  /\ state # "lost"
  /\ state' = "lost" /\ unread' = 0 /\ complete' = "no"
  /\ viewer' = [v \in Viewers |-> IF viewer[v] = "open" THEN "left" ELSE viewer[v]]
  /\ UNCHANGED <<phases, plan, stands>>

-----------------------------------------------------------------------------
(* The streams *)

Left(v) == viewer' = [viewer EXCEPT ![v] = "left"]

(* ai_provision_stream: a job that is not there is answered at once. *)
OpenStream(v) ==
  /\ viewer[v] = "away"
  /\ viewer' = [viewer EXCEPT ![v] = IF state = "lost" THEN "left" ELSE "open"]
  /\ UNCHANGED <<state, phases, plan, stands, unread, complete>>

(* The connection breaks; the browser does not open another one. *)
Leave(v) ==
  /\ viewer[v] = "open"
  /\ Left(v)
  /\ UNCHANGED <<state, phases, plan, stands, unread, complete>>

Take(v) ==
  /\ viewer[v] = "open"
  /\ \/ /\ unread > 0
        /\ unread' = unread - 1
        /\ UNCHANGED <<complete, viewer>>
     \/ /\ unread = 0 /\ complete = "queued"
        /\ complete' = "taken"
        /\ Left(v)
        /\ UNCHANGED unread
  /\ UNCHANGED <<state, phases, plan, stands>>

(* Mutant: the heartbeat does not look at the job. *)
Heartbeat_Only(v) == FALSE

(* Thirty seconds without an event: a job that is over has no more. *)
Heartbeat(v) ==
  /\ viewer[v] = "open" /\ unread = 0 /\ complete # "queued"
  /\ state \in Over
  /\ Left(v)
  /\ UNCHANGED <<state, phases, plan, stands, unread, complete>>

-----------------------------------------------------------------------------
JobNext ==
  \/ Begin \/ Research \/ GenConfig \/ NoConfig \/ Install \/ InstallRaises
  \/ PostCfg \/ Verify \/ Summary \/ Raises

ProvisionNext ==
  \/ JobNext \/ ServerLost
  \/ \E v \in Viewers : OpenStream(v) \/ Leave(v) \/ Take(v) \/ Heartbeat(v)

ProvisionSpec == ProvisionInit /\ [][ProvisionNext]_provisionVars

(* A stream that has an event or a heartbeat to send gets its turn.  Of    *)
(* the job nothing is assumed: it may wait for a command for good.         *)
StreamFairness == \A v \in Viewers : WF_provisionVars(Take(v) \/ Heartbeat(v))

ProvisionFairSpec == ProvisionSpec /\ StreamFairness

-----------------------------------------------------------------------------
(* Properties *)

ProvisionTypeOK ==
  /\ state \in {"pending", "running", "lost"} \cup Over
  /\ phases \in [Phases -> {"pending", "active", "done", "failed"}]
  /\ plan \in {"none", "plan", "empty", "error"}
  /\ stands \in {"none", "READY", "FAILED"}
  /\ unread \in 0..7
  /\ complete \in {"no", "queued", "taken"}
  /\ viewer \in [Viewers -> {"away", "open", "left"}]

(* What the status route shows of a job fits together: a job that is done  *)
(* went through every phase; one that failed has at most one phase that    *)
(* failed or was left under way, and nothing behind it; and a job says     *)
(* that it is complete exactly when it is over.                            *)
ProvisionTellsOneStory ==
  /\ state = "done" => \A p \in Phases : phases[p] = "done"
  /\ state \in Over => \A i, j \in 1..6 :
       (i < j /\ phases[Order[i]] # "done") => phases[Order[j]] = "pending"
  /\ state # "lost" => (complete # "no" <=> state \in Over)

(* Once a job is over, every stream of it ends, the ones whose last event  *)
(* another stream has taken included.                                      *)
EveryStreamEnds ==
  \A v \in Viewers : (state \in Over /\ viewer[v] = "open") ~> viewer[v] # "open"

(* _phase_install checks "if install succeeded", and the summary says      *)
(* "Your lakehouse is ready!": a job that is done has installed its stack. *)
DoneMeansInstalled == state = "done" => stands = "READY"
=============================================================================
