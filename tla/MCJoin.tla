------------------------------ MODULE MCJoin -------------------------------
(* The seeding of joiners on a small instance.                             *)
EXTENDS JoinSeed
=============================================================================
