---------------------------- MODULE MCIngestionRuns ----------------------------
(* Two processes that poll one source.                                     *)
EXTENDS IngestionRuns

CONSTANTS p1, p2
=============================================================================
