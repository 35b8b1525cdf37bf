------------------------------ MODULE MCSlots ------------------------------
(* Small instances of SlotLifecycle for TLC.                               *)
EXTENDS SlotLifecycle, TLC

CONSTANTS c1, c2, c3, k1, k2, k3

\* Every peer is a different player; or the first two peers are one player's
\* links, the dropped one and the rejoin.
OwnKeys    == [c \in Conns |-> (c1 :> k1 @@ c2 :> k2 @@ c3 :> k3)[c]]
RejoinKeys == [c \in Conns |-> (c1 :> k1 @@ c2 :> k1 @@ c3 :> k3)[c]]
=============================================================================
