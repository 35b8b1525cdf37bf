---------------------------- MODULE LaneChannel ----------------------------
(***************************************************************************)
(* What the send path promises one connection: lanes that are each first   *)
(* in first out, whose waiting messages move to the stream by priority,    *)
(* and which lose what waits, if at all, in all lanes at once.             *)
(***************************************************************************)
EXTENDS Naturals, Sequences

CONSTANTS
  Conn,   \* the connection
  Lanes   \* numbered by priority, 1 first

VARIABLES
  stream,    \* what entered the connection's stream, by lane
  promised,  \* how many messages were accepted, by lane
  waiting    \* what was accepted and is not in the stream, by lane

vars == <<stream, promised, waiting>>

Empty == [l \in Lanes |-> <<>>]

Init ==
  /\ stream = Empty
  /\ promised = [l \in Lanes |-> 0]
  /\ waiting = Empty

Accept(l) == promised' = [promised EXCEPT ![l] = @ + 1]
Fresh(l)  == [to |-> Conn, n |-> promised[l] + 1]

\* Into the stream, overtaking nothing of the lane.
Send(l) ==
  /\ waiting[l] = <<>>
  /\ Accept(l)
  /\ stream' = [stream EXCEPT ![l] = Append(@, Fresh(l))]
  /\ UNCHANGED waiting

Queue(l) ==
  /\ Accept(l)
  /\ waiting' = [waiting EXCEPT ![l] = Append(@, Fresh(l))]
  /\ UNCHANGED stream

\* The head of each lane moves; of a lane none while one before it waits.
Flush ==
  /\ \A l \in Lanes : \E k \in 0..Len(waiting[l]) :
       /\ stream'[l] = stream[l] \o SubSeq(waiting[l], 1, k)
       /\ waiting'[l] = SubSeq(waiting[l], k + 1, Len(waiting[l]))
       /\ k > 0 => \A h \in Lanes : h < l => waiting'[h] = <<>>
  /\ DOMAIN stream' = Lanes
  /\ DOMAIN waiting' = Lanes
  /\ UNCHANGED promised

Lose ==
  /\ waiting' = Empty
  /\ UNCHANGED <<stream, promised>>

Next == (\E l \in Lanes : Send(l) \/ Queue(l)) \/ Flush \/ Lose

Spec == Init /\ [][Next]_vars
=============================================================================
