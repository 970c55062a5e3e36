--------------------------- MODULE MCDeliveryStore ---------------------------
(***************************************************************************)
(* DeliveryStore for TLC: proposals, ids, callers and drivers are model    *)
(* values and interchangeable.                                             *)
(***************************************************************************)
EXTENDS DeliveryStore, TLC

Interchangeable ==
    Permutations(Ids) \cup Permutations(Proposals)
        \cup Permutations(Callers) \cup Permutations(Drivers)
=============================================================================
