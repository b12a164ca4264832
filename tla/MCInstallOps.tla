----------------------------- MODULE MCInstallOps -----------------------------
(* Model-checking instance of InstallOps on the shortest pipeline: prepare, *)
(* smoke, finalize.                                                         *)
EXTENDS InstallOps

ShortEntryState == <<"CLONING_REPO", "SMOKE_TESTING", "READY">>
ShortCommandSteps == {2}
ShortInProcessSteps == {1, 3}
=============================================================================
