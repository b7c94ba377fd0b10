--------------------------- MODULE MCCompanionLink ---------------------------
(***************************************************************************)
(* CompanionLink on small instances.  A policy is given by its four        *)
(* values, in tenths.                                                      *)
(***************************************************************************)
EXTENDS CompanionLink

Policy(action, timeout, options, gcs) ==
  [FS_GCS_ENABLE |-> action, FS_GCS_TIMEOUT |-> timeout,
   FS_OPTIONS |-> options, SYSID_MYGCS |-> gcs]

(***************************************************************************)
(* Acceptable for vehicle 1; for vehicle 2; and each with one parameter    *)
(* that alone is to blame.                                                 *)
(***************************************************************************)
Good == Policy(50, 50, 0, 10)

GoodForTwo == Policy(50, 50, 0, 20)

WrongOptions == Policy(50, 50, 160, 20)

TwoVehiclePolicies == {Good, GoodForTwo, WrongOptions}

OneVehiclePolicies ==
  {Good, Policy(40, 105, 0, 10), Policy(50, 50, 20, 10)}

PolicyValues == {0, 10, 20, 40, 50, 105, 160}
=============================================================================
