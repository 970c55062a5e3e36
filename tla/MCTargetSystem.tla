--------------------------- MODULE MCTargetSystem ---------------------------
(* TargetSystem for TLC: the kinds of outside event the runs choose from. *)
EXTENDS TargetSystem

AllDisturbances ==
    {"fault", "crash", "telegram", "delete", "resume", "session", "policy"}
=============================================================================
