----------------------------- MODULE LobbySeats -----------------------------
(***************************************************************************)
(* What admission promises the rest of the host: a lobby of numbered seats *)
(* in which a player identity holds at most one seat, arrivals take the    *)
(* lowest free seat, a seat is lost only by leaving or by coming back, and *)
(* a player who comes back finds a seat however full the lobby is.         *)
(* AdmissionBand implements this (its INSTANCE Lobby).                     *)
(***************************************************************************)
EXTENDS Naturals

CONSTANTS Players, Nobody, NumSeats

Seats == 1..NumSeats

VARIABLE seat   \* who sits where: [Seats -> Players \cup {Nobody}]

Init == seat = [s \in Seats |-> Nobody]

Free(held)   == {s \in Seats : held[s] = Nobody}
Lowest(S)    == {s \in S : \A t \in S : s <= t}
SeatsOf(p)   == {s \in Seats : seat[s] = p}
Vacated(p)   == [s \in Seats |-> IF s \in SeatsOf(p) THEN Nobody ELSE seat[s]]

\* A player proves an identity: any older seat of that identity is given up
\* and the lowest free seat is taken.
Sit(p) == \E s \in Lowest(Free(Vacated(p))) :
            seat' = [Vacated(p) EXCEPT ![s] = p]

\* A seat's connection ends.
Leave(s) ==
  /\ seat[s] # Nobody
  /\ seat' = [seat EXCEPT ![s] = Nobody]

Next == (\E p \in Players : Sit(p)) \/ (\E s \in Seats : Leave(s))

Spec == Init /\ [][Next]_seat
=============================================================================
