---------------------------- MODULE MC_KextFiles ----------------------------
(* Model values for KextFiles.                                             *)
EXTENDS KextFiles

CONSTANTS t1, t2
=============================================================================
