---------------------------- MODULE MCAdmission ----------------------------
(* Small instances of AdmissionBand for TLC.                               *)
EXTENDS AdmissionBand, TLC

CONSTANTS c1, c2, c3, k1, k2

\* Two sockets of one player (a dropped link and the rejoin), one of another.
RejoinKeys == c1 :> k1 @@ c2 :> k1 @@ c3 :> k2
=============================================================================
