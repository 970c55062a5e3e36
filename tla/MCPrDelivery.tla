---------------------------- MODULE MCPrDelivery ----------------------------
(***************************************************************************)
(* PrDelivery for TLC.  The drivers are model values; those that are not   *)
(* the office are interchangeable.                                         *)
(***************************************************************************)
EXTENDS PrDelivery, TLC

DriverSymmetry == Permutations(Drivers \ OfficeDrivers)
=============================================================================
