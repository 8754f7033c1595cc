---------------------------- MODULE MCCrowServer ----------------------------
(* Small instances of CrowServer for TLC. *)
EXTENDS CrowServer, TLC
=============================================================================
