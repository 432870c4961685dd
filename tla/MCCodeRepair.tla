----------------------------- MODULE MCCodeRepair ----------------------------
(* The instance of CodeRepair for TLC is in the configuration; the files of  *)
(* the repair scope are interchangeable, but symmetry is not sound for the   *)
(* liveness property the run also checks.                                    *)
EXTENDS CodeRepair
=============================================================================
