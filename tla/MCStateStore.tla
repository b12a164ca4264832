---------------------------- MODULE MCStateStore ----------------------------
(* Model-checking instance of StateStore: two records, one in-flight state *)
(* standing for all eight (the store never tells them apart).              *)
EXTENDS StateStore

CONSTANTS i1, i2

MCInstalls == {i1, i2}
MCInFlight == {"INSPECTING"}
=============================================================================
