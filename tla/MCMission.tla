----------------------------- MODULE MCMission -----------------------------
(* A small registry: one request of the local surface, two proposals.      *)
EXTENDS MissionRequest

MCContent == 1 .. 2
=============================================================================
