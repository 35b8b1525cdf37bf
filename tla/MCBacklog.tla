----------------------------- MODULE MCBacklog -----------------------------
(* Small instances of SendBacklog for TLC.                                 *)
EXTENDS SendBacklog
=============================================================================
