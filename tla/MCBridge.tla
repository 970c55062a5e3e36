------------------------------ MODULE MCBridge ------------------------------
(* The processes of one state directory, and what each of them does.       *)
EXTENDS MissionBridge

CONSTANTS panel, runtime, cli

MCContent == {1}
MCCaller == {panel, runtime, cli}

\* Everything around a run that was started.
MCDoes ==
    (panel :> {"dispatch", "reconcile", "readiness"})
    @@ (runtime :> {"advance"})
    @@ (cli :> {"verify", "prove", "pause", "resume", "cancel"})

\* What leads to a start, and ends it.
MCStarts ==
    (panel :> {"dispatch", "reconcile"})
    @@ (runtime :> {"advance"})
    @@ (cli :> {"cancel", "dispatch", "reconcile"})
=============================================================================
