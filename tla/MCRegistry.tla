---------------------------- MODULE MCRegistry ----------------------------
(* Registry with three detectors, so that one may fail, one panic and one  *)
(* succeed in the same run, and two kinds of error.                        *)
EXTENDS Registry
MCYields == {"none", "some"}
MCErrors == {"forbidden"}
=============================================================================
