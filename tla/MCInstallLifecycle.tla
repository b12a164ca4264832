------------------------- MODULE MCInstallLifecycle -------------------------
(* Model-checking instances of InstallLifecycle: the pipeline of UDPRunner *)
(* without env and bootstrap, which are like prepare and start, and one of *)
(* four steps that keeps one step of every kind, with which more tasks and *)
(* restarts can be explored.                                               *)
EXTENDS InstallLifecycle

(* prepare, clone, doctor, start, smoke, finalize *)
UDPEntryState ==
  <<"CLONING_REPO", "CLONING_REPO", "RUNNING_DOCTOR", "STARTING_STACK",
    "SMOKE_TESTING", "READY">>
UDPCommandSteps == {2, 3, 4, 5}
UDPInProcessSteps == {1, 2, 6}

(* prepare, start, smoke, finalize *)
ShortEntryState == <<"CLONING_REPO", "STARTING_STACK", "SMOKE_TESTING", "READY">>
ShortCommandSteps == {2, 3}
ShortInProcessSteps == {1, 4}
=============================================================================
