---------------------------- MODULE MCCmoExecution ----------------------------
(* Instances of CmoExecution for TLC.                                        *)
EXTENDS CmoExecution

\* A clean console and a Lua error with its location.
TwoConsoles == {{}, {"location", "runtime"}}
===============================================================================
