------------------------ MODULE SlotTurnover_proofs ------------------------
(* Theorems about SlotLifecycle for a host whose game thread never kicks    *)
(* (the admin posts nothing and every peer runs its game version): slots    *)
(* turn over by leavers and by the net thread's own kicks, for any number   *)
(* of slots, handles and messages.  The last two want in addition that no   *)
(* player has two links, for a supersession in the middle of a batch leaves *)
(* the ghost's messages behind it.  The runs slots_generation and           *)
(* slots_epoch show what happens without these assumptions.                 *)
EXTENDS SlotLifecycle_proofs

\* The game thread has nobody to kick.
QuietGame   == MaxKicks = 0 /\ Mismatched = {}
\* No player has two links.
OwnIdentity == \A c, d \in Conns : KeyOf[c] = KeyOf[d] => c = d

TearStart == {"tearLanes", "tearEpoch", "tearInbox"}

\* Only the net thread tears slots down.
GameQuiet ==
  /\ pc["game"] \in {"idle", "reconcile", "birth", "drain", "more", "dispatch"}
  /\ token = NoToken

\* The generation is stored before the handle and cleared after it.
GenInv ==
  /\ \A s \in Seats : peerConns[s] # NoConn => peerGen[s] = genOf[peerConns[s]]
  /\ pc["net"] = "seat" => peerGen[onSlot["net"]] = genOf[handling.conn]
  /\ pc["net"] \in TearSlot => peerConns[onSlot["net"]] = NoConn
  /\ pc["net"] = "unregister" => peerConns[onSlot["net"]] = onConn["net"]
  /\ pc["net"] \in TearStart =>
       /\ onConn["net"] \in Conns
       /\ peerGen[onSlot["net"]] = genOf[onConn["net"]]

\* Lanes are up in a taken slot only, and the state follows the count.
StateInv ==
  /\ \A s \in Seats : lanes[s] => \/ peerConns[s] # NoConn
                                  \/ pc["net"] = "tearLanes" /\ onSlot["net"] = s
  /\ pc["net"] \in {"lanes", "connect"} => peerConns[onSlot["net"]] # NoConn
  /\ pc["net"] = "connect" => lanes[onSlot["net"]]
  /\ pc["net"] \notin Tearing \cup {"connect"} =>
       (state = "Connected" <=> ConnectedSlots # {})
  /\ pc["net"] \in TearSlot \cup {"tearCount"} =>
       (ConnectedSlots # {} => state = "Connected")
  /\ pc["net"] \in TearAll => ConnectedSlots = {}
  /\ pc["net"] \in {"tearEpochs", "tearQueue"} => state = "Disconnected"

\* A published identity was proved by a peer that has been minted.
GuidInv ==
  \A s \in Seats : provedGuid[s] # NoKey =>
    \E c \in Conns : genOf[c] # 0 /\ provedGuid[s] = KeyOf[c]

\* No teardown happens inside a batch.
NoGhosts ==
  pc["net"] \in Tearing \cup {"kick"} => back["net"] # "mint" /\ batch = {}

\* An admitted connection that is open holds its seat, or is on its way in or out.
LinkInv ==
  \A c \in Conns :
    /\ link[c] = "closed" => unread[c] = {}
    /\ genOf[c] # 0 /\ link[c] # "closed" =>
         \/ userData[c] \in Seats /\ peerConns[userData[c]] = c
         \/ pc["net"] = "seat" /\ handling.conn = c
         \/ pc["net"] = "tearLanes" /\ onConn["net"] = c

\* The tag and the seat agree.
TagInv ==
  /\ \A s \in Seats : peerConns[s] # NoConn => userData[peerConns[s]] = s
  /\ pc["net"] = "seat" => userData[handling.conn] = onSlot["net"]

\* What is handled was sent by the occupant.
SenderInv ==
  /\ \A m \in batch : m.n # 0 => m.ud \in Seats /\ peerConns[m.ud] = m.conn
  /\ pc["net"] = "append" => handling.ud \in Seats /\ peerConns[handling.ud] = handling.conn

\* The words of a slot name its occupant, or a leaver whose teardown has them to
\* clear.
EpochInv ==
  \A s \in Seats : epoch[s] # NoConn =>
    \/ peerConns[s] = epoch[s]
    \/ pc["net"] \in {"tearLanes", "tearEpoch"} /\ onSlot["net"] = s

InboxInv ==
  \A i \in DOMAIN inbox :
    \/ peerConns[inbox[i].slot] = inbox[i].conn
    \/ /\ pc["net"] \in TearStart
       /\ onSlot["net"] = inbox[i].slot /\ onConn["net"] = inbox[i].conn

-----------------------------------------------------------------------------

\* A game thread that has nothing to kick tears nothing down.
LEMMA QuietStep == QuietGame /\ LifeInv /\ GameQuiet /\ Next => GameQuiet'
<1> SUFFICES ASSUME QuietGame /\ LifeInv /\ GameQuiet, Next PROVE GameQuiet'
  OBVIOUS
<1> USE GensType, ConnsAssumption, BoundsAssumption DEF LifeInv, TypeOK,
    QuietGame, GameQuiet, Draining, Step, StepOn, CloseConnection, wireVars,
    threadVars, slotVars, mintVars, adminVars, Threads
<1>1. ASSUME NEW t \in Threads, Kick(t) PROVE GameQuiet'
  BY <1>1 DEF Kick
<1>2. ASSUME NEW t \in Threads, TearLanes(t) PROVE GameQuiet'
  BY <1>2 DEF TearLanes
<1>3. ASSUME NEW t \in Threads, ResetPeerRemoteState(t) PROVE GameQuiet'
  BY <1>3 DEF ResetPeerRemoteState
<1>4. ASSUME NEW t \in Threads, EraseInbox(t) PROVE GameQuiet'
  BY <1>4 DEF EraseInbox
<1>5. ASSUME NEW t \in Threads, ClearGeneration(t) PROVE GameQuiet'
  BY <1>5 DEF ClearGeneration
<1>6. ASSUME NEW t \in Threads, ClearGuid(t) PROVE GameQuiet'
  BY <1>6 DEF ClearGuid
<1>7. ASSUME NEW t \in Threads, CountPeers(t) PROVE GameQuiet'
  BY <1>7 DEF CountPeers
<1>8. ASSUME NEW t \in Threads, Disconnect(t) PROVE GameQuiet'
  BY <1>8 DEF Disconnect
<1>9. ASSUME NEW t \in Threads, ResetAllRemoteState(t) PROVE GameQuiet'
  BY <1>9 DEF ResetAllRemoteState
<1>10. ASSUME NEW t \in Threads, ClearInbox(t) PROVE GameQuiet'
  BY <1>10 DEF ClearInbox
<1>11. CASE Unregister
  BY <1>11 DEF Unregister
<1>12. CASE ReceiveBatch
  BY <1>12 DEF ReceiveBatch
<1>13. ASSUME NEW m \in batch, HandleReliable(m) PROVE GameQuiet'
  BY <1>13 DEF HandleReliable
<1>14. ASSUME NEW m \in batch, DropStaleEpoch(m) PROVE GameQuiet'
  BY <1>14 DEF DropStaleEpoch
<1>15. ASSUME NEW m \in batch, HandleProof(m) PROVE GameQuiet'
  BY <1>15 DEF HandleProof
<1>16. CASE AppendReliable
  BY <1>16 DEF AppendReliable
<1>17. CASE EndPass
  BY <1>17 DEF EndPass
<1>18. CASE MintGeneration
  BY <1>18 DEF MintGeneration
<1>19. CASE RefuseFull
  BY <1>19 DEF RefuseFull
<1>20. CASE TakeSeat
  BY <1>20 DEF TakeSeat
<1>21. CASE ConfigureLanes
  BY <1>21 DEF ConfigureLanes
<1>22. CASE FinishPeerConnected
  BY <1>22 DEF FinishPeerConnected
<1>23. CASE Admitted
  BY <1>23 DEF Admitted
<1>24. CASE PublishGuid
  BY <1>24 DEF PublishGuid
<1>25. CASE BeginTick
  BY <1>25 DEF BeginTick
<1>26. CASE ReconcileDeath
  BY <1>26 DEF ReconcileDeath
<1>27. CASE ReconcileBirth
  BY <1>27 DEF ReconcileBirth
<1>28. CASE PopReliable
  BY <1>28 DEF PopReliable
<1>29. CASE PopJoin
  BY <1>29 DEF PopJoin
<1>30. CASE HandleJoinMessage
  BY <1>30 DEF HandleJoinMessage
<1>31. CASE RefuseJoin
  BY <1>31 DEF RefuseJoin
<1>32. CASE EndTick
  BY <1>32 DEF EndTick
<1>33. ASSUME NEW s \in Seats, CaptureToken(s) PROVE GameQuiet'
  BY <1>33 DEF CaptureToken
<1>34. CASE PostedKick
  BY <1>34 DEF PostedKick
<1>35. CASE CheckGeneration
  BY <1>35 DEF CheckGeneration
<1>36. CASE ClaimByHandle
  BY <1>36 DEF ClaimByHandle
<1>37. ASSUME NEW c \in Conns, ConnectingEdge(c) PROVE GameQuiet'
  BY <1>37 DEF ConnectingEdge
<1>38. ASSUME NEW c \in Conns, ClosedEdge(c) PROVE GameQuiet'
  BY <1>38 DEF ClosedEdge
<1>39. ASSUME NEW c \in Conns, ClosedEdgeSlotless(c) PROVE GameQuiet'
  BY <1>39 DEF ClosedEdgeSlotless
<1>40. ASSUME NEW c \in Conns, Send(c) PROVE GameQuiet'
  BY <1>40 DEF Send
<1>41. ASSUME NEW s \in Seats, FatalCloseSlot(s) PROVE GameQuiet'
  BY <1>41 DEF FatalCloseSlot
<1> QED
  BY <1>1, <1>2, <1>3, <1>4, <1>5, <1>6, <1>7, <1>8, <1>9, <1>10, <1>11, <1>12,
      <1>13, <1>14, <1>15, <1>16, <1>17, <1>18, <1>19, <1>20, <1>21, <1>22, <1>23,
      <1>24, <1>25, <1>26, <1>27, <1>28, <1>29, <1>30, <1>31, <1>32, <1>33, <1>34,
      <1>35, <1>36, <1>37, <1>38, <1>39, <1>40, <1>41
  DEF Next, Net, Teardown, HandleBatch, Admit, Tick, AdminKick, Remote, Backlog,
      Threads

\* The generation of a seat, while one thread tears down.
LEMMA GenStep == LifeInv /\ SeatInv /\ GameQuiet /\ GenInv /\ Next => GenInv'
<1> SUFFICES ASSUME LifeInv /\ SeatInv /\ GameQuiet /\ GenInv, Next PROVE GenInv'
  OBVIOUS
<1> USE GensType, ConnsAssumption, BoundsAssumption DEF LifeInv, TypeOK,
    NetPhases, Holding, SeatInv, GameQuiet, GenInv, TearStart, NoMsg, Proving,
    ProofOf, Pulled, Step, StepOn, CloseConnection, wireVars, threadVars,
    slotVars, mintVars, adminVars, Tearing, TearSlot, TearAll, Seating, Threads
<1>1. ASSUME NEW t \in Threads, Kick(t) PROVE GenInv'
  BY <1>1 DEF Kick
<1>2. ASSUME NEW t \in Threads, TearLanes(t) PROVE GenInv'
  BY <1>2 DEF TearLanes
<1>3. ASSUME NEW t \in Threads, ResetPeerRemoteState(t) PROVE GenInv'
  BY <1>3 DEF ResetPeerRemoteState
<1>4. ASSUME NEW t \in Threads, EraseInbox(t) PROVE GenInv'
  BY <1>4 DEF EraseInbox
<1>5. ASSUME NEW t \in Threads, ClearGeneration(t) PROVE GenInv'
  BY <1>5 DEF ClearGeneration
<1>6. ASSUME NEW t \in Threads, ClearGuid(t) PROVE GenInv'
  BY <1>6 DEF ClearGuid
<1>7. ASSUME NEW t \in Threads, CountPeers(t) PROVE GenInv'
  BY <1>7 DEF CountPeers
<1>8. ASSUME NEW t \in Threads, Disconnect(t) PROVE GenInv'
  BY <1>8 DEF Disconnect
<1>9. ASSUME NEW t \in Threads, ResetAllRemoteState(t) PROVE GenInv'
  BY <1>9 DEF ResetAllRemoteState
<1>10. ASSUME NEW t \in Threads, ClearInbox(t) PROVE GenInv'
  BY <1>10 DEF ClearInbox
<1>11. CASE Unregister
  BY <1>11 DEF Unregister
<1>12. CASE ReceiveBatch
  BY <1>12 DEF ReceiveBatch
<1>13. ASSUME NEW m \in batch, HandleReliable(m) PROVE GenInv'
  BY <1>13 DEF HandleReliable
<1>14. ASSUME NEW m \in batch, DropStaleEpoch(m) PROVE GenInv'
  BY <1>14 DEF DropStaleEpoch
<1>15. ASSUME NEW m \in batch, HandleProof(m) PROVE GenInv'
  <2>1. /\ \/ StepOn("net", "handle", "mint", NoSlot, m.conn)
           \/ \E s \in Seats : StepOn("net", "handle", "kick", s, m.conn)
        /\ UNCHANGED <<peerConns, peerGen, genOf>>
    BY <1>15 DEF HandleProof
  <2>2. pc'["net"] \in {"mint", "kick"}
    BY <2>1
  <2> HIDE DEF LifeInv, TypeOK, NetPhases, Holding, SeatInv, GameQuiet, StepOn
  <2> QED BY <2>1, <2>2
<1>16. CASE AppendReliable
  BY <1>16 DEF AppendReliable
<1>17. CASE EndPass
  BY <1>17 DEF EndPass
<1>18. CASE MintGeneration
  <2> DEFINE c == handling.conn
  <2>1. c \in Conns /\ Proving(c) /\ \A m \in batch : m.conn # c
    BY <1>18 DEF MintGeneration, NetPhases, ProofOf, Pulled, LifeInv
  <2>2. PICK s \in FreeSeats :
          /\ StepOn("net", "mint", "seat", s, c)
          /\ userData' = [userData EXCEPT ![c] = s]
          /\ peerGen' = [peerGen EXCEPT ![s] = genCounter + 1]
    BY <1>18 DEF MintGeneration
  <2>3. s \in Seats /\ s # 0
    BY BoundsAssumption DEF FreeSeats, Seats
  <2>4. genCounter + 1 \in Nat /\ genCounter + 1 # 0
    BY GensType DEF LifeInv, TypeOK
  <2>5. /\ genOf' = [genOf EXCEPT ![c] = genCounter + 1]
        /\ UNCHANGED <<back, link, unread, sent, batch, handling, peerConns>>
    BY <1>18 DEF MintGeneration
  <2>6. \A t \in Seats : peerConns[t] # c
    BY <2>1
  <2>7. /\ peerConns[s] = NoConn /\ onSlot'["net"] = s /\ genOf'[c] = genCounter + 1
        /\ peerGen'[s] = genCounter + 1 /\ pc'["net"] = "seat"
    BY <2>1, <2>2, <2>3, <2>5 DEF FreeSeats
  <2>8. \A d \in Conns \ {c} : genOf'[d] = genOf[d]
    BY <2>1, <2>5
  <2>9. \A t \in Seats \ {s} : peerGen'[t] = peerGen[t]
    BY <2>2, <2>3
  <2> HIDE DEF StepOn, MintGeneration
  <2>10. ASSUME NEW t \in Seats, peerConns'[t] # NoConn
         PROVE  peerGen'[t] = genOf'[peerConns'[t]]
    <3>1. peerConns'[t] = peerConns[t] /\ t # s /\ peerConns[t] \in Conns \ {c}
      BY <2>5, <2>6, <2>7, <2>10
    <3> QED BY <2>8, <2>9, <2>10, <3>1
  <2>11. peerGen'[onSlot'["net"]] = genOf'[handling'.conn]
    BY <2>5, <2>7
  <2> HIDE DEF c
  <2> QED BY <2>7, <2>10, <2>11
<1>19. CASE RefuseFull
  BY <1>19 DEF RefuseFull
<1>20. CASE TakeSeat
  BY <1>20 DEF TakeSeat
<1>21. CASE ConfigureLanes
  BY <1>21 DEF ConfigureLanes
<1>22. CASE FinishPeerConnected
  BY <1>22 DEF FinishPeerConnected
<1>23. CASE Admitted
  BY <1>23 DEF Admitted
<1>24. CASE PublishGuid
  BY <1>24 DEF PublishGuid
<1>25. CASE Tick
  <2> HIDE DEF LifeInv, TypeOK, NetPhases, Holding, SeatInv, GameQuiet
  <2>1. OthersAlone
    BY <1>25, TickFrame
  <2> QED BY <2>1 DEF OthersAlone
<1>26. ASSUME NEW s \in Seats, CaptureToken(s) PROVE GenInv'
  BY <1>26 DEF CaptureToken
<1>27. CASE PostedKick
  BY <1>27 DEF PostedKick
<1>28. CASE CheckGeneration
  BY <1>28 DEF CheckGeneration
<1>29. CASE ClaimByHandle
  BY <1>29 DEF ClaimByHandle
<1>30. ASSUME NEW c \in Conns, ConnectingEdge(c) PROVE GenInv'
  BY <1>30 DEF ConnectingEdge
<1>31. ASSUME NEW c \in Conns, ClosedEdge(c) PROVE GenInv'
  BY <1>31 DEF ClosedEdge
<1>32. ASSUME NEW c \in Conns, ClosedEdgeSlotless(c) PROVE GenInv'
  BY <1>32 DEF ClosedEdgeSlotless
<1>33. ASSUME NEW c \in Conns, Send(c) PROVE GenInv'
  BY <1>33 DEF Send
<1>34. ASSUME NEW s \in Seats, FatalCloseSlot(s) PROVE GenInv'
  BY <1>34 DEF FatalCloseSlot
<1> QED
  BY <1>1, <1>2, <1>3, <1>4, <1>5, <1>6, <1>7, <1>8, <1>9, <1>10, <1>11, <1>12,
      <1>13, <1>14, <1>15, <1>16, <1>17, <1>18, <1>19, <1>20, <1>21, <1>22, <1>23,
      <1>24, <1>25, <1>26, <1>27, <1>28, <1>29, <1>30, <1>31, <1>32, <1>33, <1>34
  DEF Next, Net, Teardown, HandleBatch, Admit, AdminKick, Remote, Backlog, Threads

\* The aggregate state, through admissions and teardowns.
LEMMA StateStep ==
  LifeInv /\ SeatInv /\ GameQuiet /\ GenInv /\ StateInv /\ Next
    => StateInv'
<1> SUFFICES ASSUME LifeInv /\ SeatInv /\ GameQuiet /\ GenInv /\ StateInv, Next
             PROVE  StateInv'
  OBVIOUS
<1> USE GensType, ConnsAssumption, BoundsAssumption DEF LifeInv, TypeOK,
    NetPhases, SeatInv, GameQuiet, GenInv, StateInv, ConnectedSlots, ProofOf,
    Pulled, Step, StepOn, CloseConnection, wireVars, threadVars, slotVars,
    mintVars, adminVars, Tearing, TearSlot, TearAll, Seating, Threads
<1>1. ASSUME NEW t \in Threads, Kick(t) PROVE StateInv'
  <2> DEFINE s == onSlot["net"]
  <2>1. /\ t = "net" /\ pc["net"] = "kick" /\ s \in Seats /\ UNCHANGED <<back, lanes, state>>
        /\ onSlot'["net"] = s
        /\ peerConns' = [peerConns EXCEPT ![s] = NoConn]
        /\ pc'["net"] = IF peerConns[s] = NoConn THEN back["net"] ELSE "tearLanes"
    BY <1>1 DEF Kick
  <2>2. CASE peerConns[s] = NoConn
    <3>1. peerConns' = peerConns /\ pc'["net"] \in {"callbacks", "handle", "mint"}
      BY <2>1, <2>2
    <3>2. lanes' = lanes /\ state' = state /\ onSlot'["net"] = s /\ pc["net"] = "kick"
      BY <2>1
    <3> HIDE DEF LifeInv, TypeOK, NetPhases, SeatInv, GameQuiet, GenInv
    <3> QED BY <3>1, <3>2
  <2>3. CASE peerConns[s] # NoConn
    <3>1. pc'["net"] = "tearLanes" /\ ConnectedSlots' \subseteq ConnectedSlots
      BY <2>1, <2>3
    <3>2. \A u \in Seats : lanes'[u] => peerConns'[u] # NoConn \/ u = s
      BY <2>1
    <3>3. state = "Connected" <=> ConnectedSlots # {}
      BY <2>1
    <3> HIDE DEF ConnectedSlots
    <3> QED BY <2>1, <3>1, <3>2, <3>3
  <2> QED BY <2>2, <2>3
<1>2. ASSUME NEW t \in Threads, TearLanes(t) PROVE StateInv'
  BY <1>2 DEF TearLanes
<1>3. ASSUME NEW t \in Threads, ResetPeerRemoteState(t) PROVE StateInv'
  BY <1>3 DEF ResetPeerRemoteState
<1>4. ASSUME NEW t \in Threads, EraseInbox(t) PROVE StateInv'
  BY <1>4 DEF EraseInbox
<1>5. ASSUME NEW t \in Threads, ClearGeneration(t) PROVE StateInv'
  BY <1>5 DEF ClearGeneration
<1>6. ASSUME NEW t \in Threads, ClearGuid(t) PROVE StateInv'
  BY <1>6 DEF ClearGuid
<1>7. ASSUME NEW t \in Threads, CountPeers(t) PROVE StateInv'
  BY <1>7 DEF CountPeers
<1>8. ASSUME NEW t \in Threads, Disconnect(t) PROVE StateInv'
  BY <1>8 DEF Disconnect
<1>9. ASSUME NEW t \in Threads, ResetAllRemoteState(t) PROVE StateInv'
  BY <1>9 DEF ResetAllRemoteState
<1>10. ASSUME NEW t \in Threads, ClearInbox(t) PROVE StateInv'
  BY <1>10 DEF ClearInbox
<1>11. CASE Unregister
  BY <1>11 DEF Unregister
<1>12. CASE ReceiveBatch
  BY <1>12 DEF ReceiveBatch
<1>13. ASSUME NEW m \in batch, HandleReliable(m) PROVE StateInv'
  BY <1>13 DEF HandleReliable
<1>14. ASSUME NEW m \in batch, DropStaleEpoch(m) PROVE StateInv'
  BY <1>14 DEF DropStaleEpoch
<1>15. ASSUME NEW m \in batch, HandleProof(m) PROVE StateInv'
  <2>1. /\ \/ StepOn("net", "handle", "mint", NoSlot, m.conn)
           \/ \E s \in Seats : StepOn("net", "handle", "kick", s, m.conn)
        /\ UNCHANGED <<lanes, state, peerConns, peerGen, genOf, token>>
    BY <1>15 DEF HandleProof
  <2>2. pc["net"] = "handle" /\ pc'["net"] \in {"mint", "kick"}
    BY <2>1
  <2>3. /\ pc'["game"] = pc["game"] /\ onSlot'["game"] = onSlot["game"]
        /\ onConn'["game"] = onConn["game"]
    <3>1. /\ DOMAIN pc = Threads /\ DOMAIN onSlot = Threads /\ DOMAIN onConn = Threads
          /\ {"net", "game"} \subseteq Threads
      OBVIOUS
    <3> HIDE DEF LifeInv, TypeOK, NetPhases, SeatInv, GameQuiet, GenInv, StateInv
    <3> QED BY <2>1, <3>1
  <2>4. UNCHANGED <<lanes, state, peerConns, peerGen, genOf, token>>
    BY <2>1
  <2> HIDE DEF LifeInv, TypeOK, NetPhases, SeatInv, StepOn, GameQuiet, GenInv
  <2> QED BY <2>2, <2>3, <2>4
<1>16. CASE AppendReliable
  BY <1>16 DEF AppendReliable
<1>17. CASE EndPass
  BY <1>17 DEF EndPass
<1>18. CASE MintGeneration
  BY <1>18 DEF MintGeneration
<1>19. CASE RefuseFull
  BY <1>19 DEF RefuseFull
<1>20. CASE TakeSeat
  BY <1>20, SMTT(60) DEF TakeSeat
<1>21. CASE ConfigureLanes
  BY <1>21 DEF ConfigureLanes
<1>22. CASE FinishPeerConnected
  BY <1>22 DEF FinishPeerConnected
<1>23. CASE Admitted
  BY <1>23 DEF Admitted
<1>24. CASE PublishGuid
  BY <1>24 DEF PublishGuid
<1>25. CASE Tick
  <2> HIDE DEF LifeInv, TypeOK, NetPhases, SeatInv, GameQuiet, GenInv
  <2>1. OthersAlone
    BY <1>25, TickFrame
  <2> QED BY <2>1 DEF OthersAlone
<1>26. ASSUME NEW s \in Seats, CaptureToken(s) PROVE StateInv'
  BY <1>26 DEF CaptureToken
<1>27. CASE PostedKick
  BY <1>27 DEF PostedKick
<1>28. CASE CheckGeneration
  BY <1>28 DEF CheckGeneration
<1>29. CASE ClaimByHandle
  BY <1>29 DEF ClaimByHandle
<1>30. ASSUME NEW c \in Conns, ConnectingEdge(c) PROVE StateInv'
  BY <1>30 DEF ConnectingEdge
<1>31. ASSUME NEW c \in Conns, ClosedEdge(c) PROVE StateInv'
  BY <1>31 DEF ClosedEdge
<1>32. ASSUME NEW c \in Conns, ClosedEdgeSlotless(c) PROVE StateInv'
  BY <1>32 DEF ClosedEdgeSlotless
<1>33. ASSUME NEW c \in Conns, Send(c) PROVE StateInv'
  BY <1>33 DEF Send
<1>34. ASSUME NEW s \in Seats, FatalCloseSlot(s) PROVE StateInv'
  BY <1>34 DEF FatalCloseSlot
<1> QED
  BY <1>1, <1>2, <1>3, <1>4, <1>5, <1>6, <1>7, <1>8, <1>9, <1>10, <1>11, <1>12,
      <1>13, <1>14, <1>15, <1>16, <1>17, <1>18, <1>19, <1>20, <1>21, <1>22, <1>23,
      <1>24, <1>25, <1>26, <1>27, <1>28, <1>29, <1>30, <1>31, <1>32, <1>33, <1>34
  DEF Next, Net, Teardown, HandleBatch, Admit, AdminKick, Remote, Backlog, Threads

\* A published identity is that of a peer that was admitted.
LEMMA GuidStep == LifeInv /\ GuidInv /\ Next => GuidInv'
<1> SUFFICES ASSUME LifeInv /\ GuidInv, Next PROVE GuidInv'
  OBVIOUS
<1> USE GensType, ConnsAssumption, BoundsAssumption, KeysAssumption DEF LifeInv,
    TypeOK, NetPhases, GuidInv, ProofOf, Pulled, Step, StepOn, CloseConnection,
    wireVars, threadVars, slotVars, mintVars, adminVars, Tearing, TearSlot,
    TearAll, Seating, Threads
<1>1. ASSUME NEW t \in Threads, Kick(t) PROVE GuidInv'
  BY <1>1 DEF Kick
<1>2. ASSUME NEW t \in Threads, TearLanes(t) PROVE GuidInv'
  BY <1>2 DEF TearLanes
<1>3. ASSUME NEW t \in Threads, ResetPeerRemoteState(t) PROVE GuidInv'
  BY <1>3 DEF ResetPeerRemoteState
<1>4. ASSUME NEW t \in Threads, EraseInbox(t) PROVE GuidInv'
  BY <1>4 DEF EraseInbox
<1>5. ASSUME NEW t \in Threads, ClearGeneration(t) PROVE GuidInv'
  BY <1>5 DEF ClearGeneration
<1>6. ASSUME NEW t \in Threads, ClearGuid(t) PROVE GuidInv'
  BY <1>6 DEF ClearGuid
<1>7. ASSUME NEW t \in Threads, CountPeers(t) PROVE GuidInv'
  BY <1>7 DEF CountPeers
<1>8. ASSUME NEW t \in Threads, Disconnect(t) PROVE GuidInv'
  BY <1>8 DEF Disconnect
<1>9. ASSUME NEW t \in Threads, ResetAllRemoteState(t) PROVE GuidInv'
  BY <1>9 DEF ResetAllRemoteState
<1>10. ASSUME NEW t \in Threads, ClearInbox(t) PROVE GuidInv'
  BY <1>10 DEF ClearInbox
<1>11. CASE Unregister
  BY <1>11 DEF Unregister
<1>12. CASE ReceiveBatch
  BY <1>12 DEF ReceiveBatch
<1>13. ASSUME NEW m \in batch, HandleReliable(m) PROVE GuidInv'
  BY <1>13 DEF HandleReliable
<1>14. ASSUME NEW m \in batch, DropStaleEpoch(m) PROVE GuidInv'
  BY <1>14 DEF DropStaleEpoch
<1>15. ASSUME NEW m \in batch, HandleProof(m) PROVE GuidInv'
  BY <1>15 DEF HandleProof
<1>16. CASE AppendReliable
  BY <1>16 DEF AppendReliable
<1>17. CASE EndPass
  BY <1>17 DEF EndPass
<1>18. CASE MintGeneration
  BY <1>18 DEF MintGeneration
<1>19. CASE RefuseFull
  BY <1>19 DEF RefuseFull
<1>20. CASE TakeSeat
  BY <1>20 DEF TakeSeat
<1>21. CASE ConfigureLanes
  BY <1>21 DEF ConfigureLanes
<1>22. CASE FinishPeerConnected
  BY <1>22 DEF FinishPeerConnected
<1>23. CASE Admitted
  BY <1>23 DEF Admitted
<1>24. CASE PublishGuid
  BY <1>24 DEF PublishGuid
<1>25. CASE Tick
  <2> HIDE DEF LifeInv, TypeOK, NetPhases
  <2>1. OthersAlone
    BY <1>25, TickFrame
  <2> QED BY <2>1 DEF OthersAlone
<1>26. ASSUME NEW s \in Seats, CaptureToken(s) PROVE GuidInv'
  BY <1>26 DEF CaptureToken
<1>27. CASE PostedKick
  BY <1>27 DEF PostedKick
<1>28. CASE CheckGeneration
  BY <1>28 DEF CheckGeneration
<1>29. CASE ClaimByHandle
  BY <1>29 DEF ClaimByHandle
<1>30. ASSUME NEW c \in Conns, ConnectingEdge(c) PROVE GuidInv'
  BY <1>30 DEF ConnectingEdge
<1>31. ASSUME NEW c \in Conns, ClosedEdge(c) PROVE GuidInv'
  BY <1>31 DEF ClosedEdge
<1>32. ASSUME NEW c \in Conns, ClosedEdgeSlotless(c) PROVE GuidInv'
  BY <1>32 DEF ClosedEdgeSlotless
<1>33. ASSUME NEW c \in Conns, Send(c) PROVE GuidInv'
  BY <1>33 DEF Send
<1>34. ASSUME NEW s \in Seats, FatalCloseSlot(s) PROVE GuidInv'
  BY <1>34 DEF FatalCloseSlot
<1> QED
  BY <1>1, <1>2, <1>3, <1>4, <1>5, <1>6, <1>7, <1>8, <1>9, <1>10, <1>11, <1>12,
      <1>13, <1>14, <1>15, <1>16, <1>17, <1>18, <1>19, <1>20, <1>21, <1>22, <1>23,
      <1>24, <1>25, <1>26, <1>27, <1>28, <1>29, <1>30, <1>31, <1>32, <1>33, <1>34
  DEF Next, Net, Teardown, HandleBatch, Admit, AdminKick, Remote, Backlog, Threads

\* A verified proof finds no ghost: the net thread tears a slot down between
\* two batches only.
LEMMA NoGhostStep ==
  OwnIdentity /\ LifeInv /\ GuidInv /\ NoGhosts /\ Next
    => NoGhosts'
<1> SUFFICES ASSUME OwnIdentity /\ LifeInv /\ GuidInv /\ NoGhosts, Next
             PROVE  NoGhosts'
  OBVIOUS
<1> USE GensType, ConnsAssumption, BoundsAssumption, KeysAssumption DEF LifeInv,
    TypeOK, NetPhases, BatchOk, OwnIdentity, GuidInv, NoGhosts, Proving, ProofOf,
    Pulled, Step, StepOn, CloseConnection, wireVars, threadVars, slotVars,
    mintVars, adminVars, Tearing, TearSlot, TearAll, Seating, Threads
<1>1. ASSUME NEW t \in Threads, Kick(t) PROVE NoGhosts'
  BY <1>1 DEF Kick
<1>2. ASSUME NEW t \in Threads, TearLanes(t) PROVE NoGhosts'
  BY <1>2 DEF TearLanes
<1>3. ASSUME NEW t \in Threads, ResetPeerRemoteState(t) PROVE NoGhosts'
  BY <1>3 DEF ResetPeerRemoteState
<1>4. ASSUME NEW t \in Threads, EraseInbox(t) PROVE NoGhosts'
  BY <1>4 DEF EraseInbox
<1>5. ASSUME NEW t \in Threads, ClearGeneration(t) PROVE NoGhosts'
  BY <1>5 DEF ClearGeneration
<1>6. ASSUME NEW t \in Threads, ClearGuid(t) PROVE NoGhosts'
  BY <1>6 DEF ClearGuid
<1>7. ASSUME NEW t \in Threads, CountPeers(t) PROVE NoGhosts'
  BY <1>7 DEF CountPeers
<1>8. ASSUME NEW t \in Threads, Disconnect(t) PROVE NoGhosts'
  BY <1>8 DEF Disconnect
<1>9. ASSUME NEW t \in Threads, ResetAllRemoteState(t) PROVE NoGhosts'
  BY <1>9 DEF ResetAllRemoteState
<1>10. ASSUME NEW t \in Threads, ClearInbox(t) PROVE NoGhosts'
  BY <1>10 DEF ClearInbox
<1>11. CASE Unregister
  BY <1>11 DEF Unregister
<1>12. CASE ReceiveBatch
  BY <1>12 DEF ReceiveBatch
<1>13. ASSUME NEW m \in batch, HandleReliable(m) PROVE NoGhosts'
  BY <1>13 DEF HandleReliable
<1>14. ASSUME NEW m \in batch, DropStaleEpoch(m) PROVE NoGhosts'
  BY <1>14 DEF DropStaleEpoch
<1>15. ASSUME NEW m \in batch, HandleProof(m) PROVE NoGhosts'
  <2>1. m.conn \in Conns /\ genOf[m.conn] = 0
    BY <1>15 DEF HandleProof
  <2>2. \A s \in Seats : ~Holds(s, m.conn)
    <3> SUFFICES ASSUME NEW s \in Seats, Holds(s, m.conn) PROVE FALSE
      OBVIOUS
    <3>1. provedGuid[s] = KeyOf[m.conn] /\ provedGuid[s] # NoKey
      BY <2>1 DEF Holds
    <3>2. PICK d \in Conns : genOf[d] # 0 /\ provedGuid[s] = KeyOf[d]
      BY <3>1
    <3>3. \A a, b \in Conns : KeyOf[a] = KeyOf[b] => a = b
      OBVIOUS
    <3> HIDE DEF LifeInv, TypeOK, NetPhases, BatchOk, GuidInv, NoGhosts,
        OwnIdentity
    <3>4. m.conn = d
      BY <2>1, <3>1, <3>2, <3>3
    <3> QED BY <2>1, <3>2, <3>4
  <2>3. StepOn("net", "handle", "mint", NoSlot, m.conn)
    BY <1>15, <2>2 DEF HandleProof
  <2>4. pc'["net"] = "mint"
    BY <2>3
  <2> QED BY <2>4
<1>16. CASE AppendReliable
  BY <1>16 DEF AppendReliable
<1>17. CASE EndPass
  BY <1>17 DEF EndPass
<1>18. CASE MintGeneration
  BY <1>18 DEF MintGeneration
<1>19. CASE RefuseFull
  BY <1>19 DEF RefuseFull
<1>20. CASE TakeSeat
  BY <1>20 DEF TakeSeat
<1>21. CASE ConfigureLanes
  BY <1>21 DEF ConfigureLanes
<1>22. CASE FinishPeerConnected
  BY <1>22 DEF FinishPeerConnected
<1>23. CASE Admitted
  BY <1>23 DEF Admitted
<1>24. CASE PublishGuid
  BY <1>24 DEF PublishGuid
<1>25. CASE Tick
  <2> HIDE DEF LifeInv, TypeOK, NetPhases, BatchOk, OwnIdentity, GuidInv
  <2>1. OthersAlone
    BY <1>25, TickFrame
  <2> QED BY <2>1 DEF OthersAlone
<1>26. ASSUME NEW s \in Seats, CaptureToken(s) PROVE NoGhosts'
  BY <1>26 DEF CaptureToken
<1>27. CASE PostedKick
  BY <1>27 DEF PostedKick
<1>28. CASE CheckGeneration
  BY <1>28 DEF CheckGeneration
<1>29. CASE ClaimByHandle
  BY <1>29 DEF ClaimByHandle
<1>30. ASSUME NEW c \in Conns, ConnectingEdge(c) PROVE NoGhosts'
  BY <1>30 DEF ConnectingEdge
<1>31. ASSUME NEW c \in Conns, ClosedEdge(c) PROVE NoGhosts'
  BY <1>31 DEF ClosedEdge
<1>32. ASSUME NEW c \in Conns, ClosedEdgeSlotless(c) PROVE NoGhosts'
  BY <1>32 DEF ClosedEdgeSlotless
<1>33. ASSUME NEW c \in Conns, Send(c) PROVE NoGhosts'
  BY <1>33 DEF Send
<1>34. ASSUME NEW s \in Seats, FatalCloseSlot(s) PROVE NoGhosts'
  BY <1>34 DEF FatalCloseSlot
<1> QED
  BY <1>1, <1>2, <1>3, <1>4, <1>5, <1>6, <1>7, <1>8, <1>9, <1>10, <1>11, <1>12,
      <1>13, <1>14, <1>15, <1>16, <1>17, <1>18, <1>19, <1>20, <1>21, <1>22, <1>23,
      <1>24, <1>25, <1>26, <1>27, <1>28, <1>29, <1>30, <1>31, <1>32, <1>33, <1>34
  DEF Next, Net, Teardown, HandleBatch, Admit, AdminKick, Remote, Backlog, Threads

\* The user data of a seated handle is its seat.
LEMMA TagStep == LifeInv /\ SeatInv /\ GameQuiet /\ TagInv /\ Next => TagInv'
<1> SUFFICES ASSUME LifeInv /\ SeatInv /\ GameQuiet /\ TagInv, Next PROVE TagInv'
  OBVIOUS
<1> USE GensType, ConnsAssumption, BoundsAssumption DEF LifeInv, TypeOK,
    NetPhases, Holding, SeatInv, GameQuiet, TagInv, NoMsg, Proving, ProofOf,
    Pulled, Step, StepOn, CloseConnection, wireVars, threadVars, slotVars,
    mintVars, adminVars, Tearing, TearSlot, TearAll, Seating, Threads
<1>1. ASSUME NEW t \in Threads, Kick(t) PROVE TagInv'
  BY <1>1 DEF Kick
<1>2. ASSUME NEW t \in Threads, TearLanes(t) PROVE TagInv'
  BY <1>2 DEF TearLanes
<1>3. ASSUME NEW t \in Threads, ResetPeerRemoteState(t) PROVE TagInv'
  BY <1>3 DEF ResetPeerRemoteState
<1>4. ASSUME NEW t \in Threads, EraseInbox(t) PROVE TagInv'
  BY <1>4 DEF EraseInbox
<1>5. ASSUME NEW t \in Threads, ClearGeneration(t) PROVE TagInv'
  BY <1>5 DEF ClearGeneration
<1>6. ASSUME NEW t \in Threads, ClearGuid(t) PROVE TagInv'
  BY <1>6 DEF ClearGuid
<1>7. ASSUME NEW t \in Threads, CountPeers(t) PROVE TagInv'
  BY <1>7 DEF CountPeers
<1>8. ASSUME NEW t \in Threads, Disconnect(t) PROVE TagInv'
  BY <1>8 DEF Disconnect
<1>9. ASSUME NEW t \in Threads, ResetAllRemoteState(t) PROVE TagInv'
  BY <1>9 DEF ResetAllRemoteState
<1>10. ASSUME NEW t \in Threads, ClearInbox(t) PROVE TagInv'
  BY <1>10 DEF ClearInbox
<1>11. CASE Unregister
  BY <1>11 DEF Unregister
<1>12. CASE ReceiveBatch
  BY <1>12 DEF ReceiveBatch
<1>13. ASSUME NEW m \in batch, HandleReliable(m) PROVE TagInv'
  BY <1>13 DEF HandleReliable
<1>14. ASSUME NEW m \in batch, DropStaleEpoch(m) PROVE TagInv'
  BY <1>14 DEF DropStaleEpoch
<1>15. ASSUME NEW m \in batch, HandleProof(m) PROVE TagInv'
  BY <1>15 DEF HandleProof
<1>16. CASE AppendReliable
  BY <1>16 DEF AppendReliable
<1>17. CASE EndPass
  BY <1>17 DEF EndPass
<1>18. CASE MintGeneration
  BY <1>18 DEF MintGeneration
<1>19. CASE RefuseFull
  BY <1>19 DEF RefuseFull
<1>20. CASE TakeSeat
  BY <1>20 DEF TakeSeat
<1>21. CASE ConfigureLanes
  BY <1>21 DEF ConfigureLanes
<1>22. CASE FinishPeerConnected
  BY <1>22 DEF FinishPeerConnected
<1>23. CASE Admitted
  BY <1>23 DEF Admitted
<1>24. CASE PublishGuid
  BY <1>24 DEF PublishGuid
<1>25. CASE Tick
  <2> HIDE DEF LifeInv, TypeOK, NetPhases, Holding, SeatInv, GameQuiet
  <2>1. OthersAlone
    BY <1>25, TickFrame
  <2> QED BY <2>1 DEF OthersAlone
<1>26. ASSUME NEW s \in Seats, CaptureToken(s) PROVE TagInv'
  BY <1>26 DEF CaptureToken
<1>27. CASE PostedKick
  BY <1>27 DEF PostedKick
<1>28. CASE CheckGeneration
  BY <1>28 DEF CheckGeneration
<1>29. CASE ClaimByHandle
  BY <1>29 DEF ClaimByHandle
<1>30. ASSUME NEW c \in Conns, ConnectingEdge(c) PROVE TagInv'
  BY <1>30 DEF ConnectingEdge
<1>31. ASSUME NEW c \in Conns, ClosedEdge(c) PROVE TagInv'
  BY <1>31 DEF ClosedEdge
<1>32. ASSUME NEW c \in Conns, ClosedEdgeSlotless(c) PROVE TagInv'
  BY <1>32 DEF ClosedEdgeSlotless
<1>33. ASSUME NEW c \in Conns, Send(c) PROVE TagInv'
  BY <1>33 DEF Send
<1>34. ASSUME NEW s \in Seats, FatalCloseSlot(s) PROVE TagInv'
  BY <1>34 DEF FatalCloseSlot
<1> QED
  BY <1>1, <1>2, <1>3, <1>4, <1>5, <1>6, <1>7, <1>8, <1>9, <1>10, <1>11, <1>12,
      <1>13, <1>14, <1>15, <1>16, <1>17, <1>18, <1>19, <1>20, <1>21, <1>22, <1>23,
      <1>24, <1>25, <1>26, <1>27, <1>28, <1>29, <1>30, <1>31, <1>32, <1>33, <1>34
  DEF Next, Net, Teardown, HandleBatch, Admit, AdminKick, Remote, Backlog, Threads

\* A connection that was admitted and is open holds the seat it is tagged with.
LEMMA LinkStep ==
  LifeInv /\ SeatInv /\ GameQuiet /\ GenInv /\ TagInv /\ LinkInv /\ Next
    => LinkInv'
<1> SUFFICES ASSUME LifeInv /\ SeatInv /\ GameQuiet /\ GenInv /\ TagInv /\
                    LinkInv, Next
             PROVE  LinkInv'
  OBVIOUS
<1> USE GensType, ConnsAssumption, BoundsAssumption DEF LifeInv, TypeOK,
    NetPhases, Holding, Wire, SeatInv, GameQuiet, GenInv, TagInv, LinkInv,
    TearStart, NoMsg, Proving, ProofOf, Pulled, Step, StepOn, CloseConnection,
    wireVars, threadVars, slotVars, mintVars, adminVars, Tearing, TearSlot,
    TearAll, Seating, Threads
<1>1. ASSUME NEW t \in Threads, Kick(t) PROVE LinkInv'
  <2> DEFINE s == onSlot["net"]
  <2>1. /\ t = "net" /\ pc["net"] = "kick" /\ s \in Seats
        /\ UNCHANGED <<link, unread, genOf, userData>>
        /\ peerConns' = [peerConns EXCEPT ![s] = NoConn]
        /\ peerConns[s] # NoConn => pc'["net"] = "tearLanes" /\ onConn'["net"] = peerConns[s]
    BY <1>1 DEF Kick
  <2>2. peerConns \in [Seats -> Conns \cup {NoConn}] /\ NoConn \notin Conns
    OBVIOUS
  <2>3. \A c \in Conns : userData[c] \in Seats /\ peerConns[userData[c]] = c =>
          \/ userData[c] # s /\ peerConns'[userData[c]] = c
          \/ pc'["net"] = "tearLanes" /\ onConn'["net"] = c
    BY <2>1, <2>2
  <2>4. LinkInv
    OBVIOUS
  <2> HIDE DEF LifeInv, TypeOK, NetPhases, Holding, Wire, SeatInv, GameQuiet, GenInv, TagInv
  <2> QED BY <2>1, <2>3, <2>4
<1>2. ASSUME NEW t \in Threads, TearLanes(t) PROVE LinkInv'
  BY <1>2 DEF TearLanes
<1>3. ASSUME NEW t \in Threads, ResetPeerRemoteState(t) PROVE LinkInv'
  BY <1>3 DEF ResetPeerRemoteState
<1>4. ASSUME NEW t \in Threads, EraseInbox(t) PROVE LinkInv'
  BY <1>4 DEF EraseInbox
<1>5. ASSUME NEW t \in Threads, ClearGeneration(t) PROVE LinkInv'
  BY <1>5 DEF ClearGeneration
<1>6. ASSUME NEW t \in Threads, ClearGuid(t) PROVE LinkInv'
  BY <1>6 DEF ClearGuid
<1>7. ASSUME NEW t \in Threads, CountPeers(t) PROVE LinkInv'
  BY <1>7 DEF CountPeers
<1>8. ASSUME NEW t \in Threads, Disconnect(t) PROVE LinkInv'
  BY <1>8 DEF Disconnect
<1>9. ASSUME NEW t \in Threads, ResetAllRemoteState(t) PROVE LinkInv'
  BY <1>9 DEF ResetAllRemoteState
<1>10. ASSUME NEW t \in Threads, ClearInbox(t) PROVE LinkInv'
  BY <1>10 DEF ClearInbox
<1>11. CASE Unregister
  BY <1>11 DEF Unregister
<1>12. CASE ReceiveBatch
  BY <1>12, SMTT(30) DEF ReceiveBatch
<1>13. ASSUME NEW m \in batch, HandleReliable(m) PROVE LinkInv'
  BY <1>13 DEF HandleReliable
<1>14. ASSUME NEW m \in batch, DropStaleEpoch(m) PROVE LinkInv'
  BY <1>14 DEF DropStaleEpoch
<1>15. ASSUME NEW m \in batch, HandleProof(m) PROVE LinkInv'
  BY <1>15 DEF HandleProof
<1>16. CASE AppendReliable
  BY <1>16 DEF AppendReliable
<1>17. CASE EndPass
  BY <1>17 DEF EndPass
<1>18. CASE MintGeneration
  BY <1>18, SMTT(60) DEF MintGeneration
<1>19. CASE RefuseFull
  BY <1>19 DEF RefuseFull
<1>20. CASE TakeSeat
  BY <1>20, SMTT(60) DEF TakeSeat
<1>21. CASE ConfigureLanes
  BY <1>21 DEF ConfigureLanes
<1>22. CASE FinishPeerConnected
  BY <1>22, SMTT(60) DEF FinishPeerConnected
<1>23. CASE Admitted
  BY <1>23 DEF Admitted
<1>24. CASE PublishGuid
  BY <1>24 DEF PublishGuid
<1>25. CASE Tick
  <2> HIDE DEF LifeInv, TypeOK, NetPhases, Holding, Wire, SeatInv, GameQuiet,
      GenInv, TagInv
  <2>1. OthersAlone
    BY <1>25, TickFrame
  <2> QED BY <2>1 DEF OthersAlone
<1>26. ASSUME NEW s \in Seats, CaptureToken(s) PROVE LinkInv'
  BY <1>26 DEF CaptureToken
<1>27. CASE PostedKick
  BY <1>27 DEF PostedKick
<1>28. CASE CheckGeneration
  BY <1>28 DEF CheckGeneration
<1>29. CASE ClaimByHandle
  BY <1>29 DEF ClaimByHandle
<1>30. ASSUME NEW c \in Conns, ConnectingEdge(c) PROVE LinkInv'
  BY <1>30, SMTT(60) DEF ConnectingEdge
<1>31. ASSUME NEW c \in Conns, ClosedEdge(c) PROVE LinkInv'
  BY <1>31 DEF ClosedEdge
<1>32. ASSUME NEW c \in Conns, ClosedEdgeSlotless(c) PROVE LinkInv'
  BY <1>32 DEF ClosedEdgeSlotless
<1>33. ASSUME NEW c \in Conns, Send(c) PROVE LinkInv'
  BY <1>33, SMTT(60) DEF Send
<1>34. ASSUME NEW s \in Seats, FatalCloseSlot(s) PROVE LinkInv'
  BY <1>34 DEF FatalCloseSlot
<1> QED
  BY <1>1, <1>2, <1>3, <1>4, <1>5, <1>6, <1>7, <1>8, <1>9, <1>10, <1>11, <1>12,
      <1>13, <1>14, <1>15, <1>16, <1>17, <1>18, <1>19, <1>20, <1>21, <1>22, <1>23,
      <1>24, <1>25, <1>26, <1>27, <1>28, <1>29, <1>30, <1>31, <1>32, <1>33, <1>34
  DEF Next, Net, Teardown, HandleBatch, Admit, AdminKick, Remote, Backlog, Threads

\* What the net thread handles was sent by the occupant of its slot.
LEMMA SenderStep ==
  LifeInv /\ SeatInv /\ GameQuiet /\ GenInv /\ NoGhosts /\ TagInv /\ LinkInv
  /\ SenderInv /\ Next
    => SenderInv'
<1> SUFFICES ASSUME LifeInv /\ SeatInv /\ GameQuiet /\ GenInv /\ NoGhosts /\
                    TagInv /\ LinkInv /\ SenderInv, Next
             PROVE  SenderInv'
  OBVIOUS
<1> USE GensType, ConnsAssumption, BoundsAssumption DEF LifeInv, TypeOK,
    NetPhases, Wire, BatchOk, SeatInv, GameQuiet, GenInv, NoGhosts, TagInv,
    LinkInv, SenderInv, Arrived, NoMsg, Proving, ProofOf, Pulled, Step, StepOn,
    CloseConnection, wireVars, threadVars, slotVars, mintVars, adminVars,
    Tearing, TearSlot, TearAll, Seating, Threads
<1>1. ASSUME NEW t \in Threads, Kick(t) PROVE SenderInv'
  BY <1>1 DEF Kick
<1>2. ASSUME NEW t \in Threads, TearLanes(t) PROVE SenderInv'
  BY <1>2 DEF TearLanes
<1>3. ASSUME NEW t \in Threads, ResetPeerRemoteState(t) PROVE SenderInv'
  BY <1>3 DEF ResetPeerRemoteState
<1>4. ASSUME NEW t \in Threads, EraseInbox(t) PROVE SenderInv'
  BY <1>4 DEF EraseInbox
<1>5. ASSUME NEW t \in Threads, ClearGeneration(t) PROVE SenderInv'
  BY <1>5 DEF ClearGeneration
<1>6. ASSUME NEW t \in Threads, ClearGuid(t) PROVE SenderInv'
  BY <1>6 DEF ClearGuid
<1>7. ASSUME NEW t \in Threads, CountPeers(t) PROVE SenderInv'
  BY <1>7 DEF CountPeers
<1>8. ASSUME NEW t \in Threads, Disconnect(t) PROVE SenderInv'
  BY <1>8 DEF Disconnect
<1>9. ASSUME NEW t \in Threads, ResetAllRemoteState(t) PROVE SenderInv'
  BY <1>9 DEF ResetAllRemoteState
<1>10. ASSUME NEW t \in Threads, ClearInbox(t) PROVE SenderInv'
  BY <1>10 DEF ClearInbox
<1>11. CASE Unregister
  BY <1>11 DEF Unregister
<1>12. CASE ReceiveBatch
  BY <1>12 DEF ReceiveBatch
<1>13. ASSUME NEW m \in batch, HandleReliable(m) PROVE SenderInv'
  BY <1>13 DEF HandleReliable
<1>14. ASSUME NEW m \in batch, DropStaleEpoch(m) PROVE SenderInv'
  BY <1>14 DEF DropStaleEpoch
<1>15. ASSUME NEW m \in batch, HandleProof(m) PROVE SenderInv'
  BY <1>15 DEF HandleProof
<1>16. CASE AppendReliable
  BY <1>16 DEF AppendReliable
<1>17. CASE EndPass
  BY <1>17 DEF EndPass
<1>18. CASE MintGeneration
  BY <1>18 DEF MintGeneration
<1>19. CASE RefuseFull
  BY <1>19 DEF RefuseFull
<1>20. CASE TakeSeat
  BY <1>20 DEF TakeSeat
<1>21. CASE ConfigureLanes
  BY <1>21 DEF ConfigureLanes
<1>22. CASE FinishPeerConnected
  BY <1>22 DEF FinishPeerConnected
<1>23. CASE Admitted
  BY <1>23 DEF Admitted
<1>24. CASE PublishGuid
  BY <1>24 DEF PublishGuid
<1>25. CASE Tick
  <2> HIDE DEF LifeInv, TypeOK, NetPhases, Wire, BatchOk, SeatInv, GameQuiet,
      GenInv, NoGhosts, TagInv, LinkInv
  <2>1. OthersAlone
    BY <1>25, TickFrame
  <2> QED BY <2>1 DEF OthersAlone
<1>26. ASSUME NEW s \in Seats, CaptureToken(s) PROVE SenderInv'
  BY <1>26 DEF CaptureToken
<1>27. CASE PostedKick
  BY <1>27 DEF PostedKick
<1>28. CASE CheckGeneration
  BY <1>28 DEF CheckGeneration
<1>29. CASE ClaimByHandle
  BY <1>29 DEF ClaimByHandle
<1>30. ASSUME NEW c \in Conns, ConnectingEdge(c) PROVE SenderInv'
  BY <1>30 DEF ConnectingEdge
<1>31. ASSUME NEW c \in Conns, ClosedEdge(c) PROVE SenderInv'
  BY <1>31 DEF ClosedEdge
<1>32. ASSUME NEW c \in Conns, ClosedEdgeSlotless(c) PROVE SenderInv'
  BY <1>32 DEF ClosedEdgeSlotless
<1>33. ASSUME NEW c \in Conns, Send(c) PROVE SenderInv'
  BY <1>33 DEF Send
<1>34. ASSUME NEW s \in Seats, FatalCloseSlot(s) PROVE SenderInv'
  BY <1>34 DEF FatalCloseSlot
<1> QED
  BY <1>1, <1>2, <1>3, <1>4, <1>5, <1>6, <1>7, <1>8, <1>9, <1>10, <1>11, <1>12,
      <1>13, <1>14, <1>15, <1>16, <1>17, <1>18, <1>19, <1>20, <1>21, <1>22, <1>23,
      <1>24, <1>25, <1>26, <1>27, <1>28, <1>29, <1>30, <1>31, <1>32, <1>33, <1>34
  DEF Next, Net, Teardown, HandleBatch, Admit, AdminKick, Remote, Backlog, Threads

\* A latched epoch is the occupant's, or is about to be cleared.
LEMMA EpochStep ==
  LifeInv /\ SeatInv /\ GameQuiet /\ GenInv /\ NoGhosts /\ TagInv /\ LinkInv
  /\ SenderInv /\ EpochInv /\ Next
    => EpochInv'
<1> SUFFICES ASSUME LifeInv /\ SeatInv /\ GameQuiet /\ GenInv /\ NoGhosts /\
                    TagInv /\ LinkInv /\ SenderInv /\ EpochInv, Next
             PROVE  EpochInv'
  OBVIOUS
<1> USE GensType, ConnsAssumption, BoundsAssumption DEF LifeInv, TypeOK,
    NetPhases, BatchOk, SeatInv, GameQuiet, GenInv, NoGhosts, SenderInv, EpochInv,
    ProofOf, Pulled, Step, StepOn, CloseConnection, wireVars, threadVars,
    slotVars, mintVars, adminVars, Tearing, TearSlot, TearAll, Seating, Threads
<1>1. ASSUME NEW t \in Threads, Kick(t) PROVE EpochInv'
  BY <1>1 DEF Kick
<1>2. ASSUME NEW t \in Threads, TearLanes(t) PROVE EpochInv'
  BY <1>2 DEF TearLanes
<1>3. ASSUME NEW t \in Threads, ResetPeerRemoteState(t) PROVE EpochInv'
  BY <1>3 DEF ResetPeerRemoteState
<1>4. ASSUME NEW t \in Threads, EraseInbox(t) PROVE EpochInv'
  BY <1>4 DEF EraseInbox
<1>5. ASSUME NEW t \in Threads, ClearGeneration(t) PROVE EpochInv'
  BY <1>5 DEF ClearGeneration
<1>6. ASSUME NEW t \in Threads, ClearGuid(t) PROVE EpochInv'
  BY <1>6 DEF ClearGuid
<1>7. ASSUME NEW t \in Threads, CountPeers(t) PROVE EpochInv'
  BY <1>7 DEF CountPeers
<1>8. ASSUME NEW t \in Threads, Disconnect(t) PROVE EpochInv'
  BY <1>8 DEF Disconnect
<1>9. ASSUME NEW t \in Threads, ResetAllRemoteState(t) PROVE EpochInv'
  BY <1>9 DEF ResetAllRemoteState
<1>10. ASSUME NEW t \in Threads, ClearInbox(t) PROVE EpochInv'
  BY <1>10 DEF ClearInbox
<1>11. CASE Unregister
  BY <1>11 DEF Unregister
<1>12. CASE ReceiveBatch
  BY <1>12 DEF ReceiveBatch
<1>13. ASSUME NEW m \in batch, HandleReliable(m) PROVE EpochInv'
  BY <1>13 DEF HandleReliable
<1>14. ASSUME NEW m \in batch, DropStaleEpoch(m) PROVE EpochInv'
  BY <1>14 DEF DropStaleEpoch
<1>15. ASSUME NEW m \in batch, HandleProof(m) PROVE EpochInv'
  BY <1>15 DEF HandleProof
<1>16. CASE AppendReliable
  BY <1>16 DEF AppendReliable
<1>17. CASE EndPass
  BY <1>17 DEF EndPass
<1>18. CASE MintGeneration
  BY <1>18 DEF MintGeneration
<1>19. CASE RefuseFull
  BY <1>19 DEF RefuseFull
<1>20. CASE TakeSeat
  BY <1>20 DEF TakeSeat
<1>21. CASE ConfigureLanes
  BY <1>21 DEF ConfigureLanes
<1>22. CASE FinishPeerConnected
  BY <1>22 DEF FinishPeerConnected
<1>23. CASE Admitted
  BY <1>23 DEF Admitted
<1>24. CASE PublishGuid
  BY <1>24 DEF PublishGuid
<1>25. CASE Tick
  <2> HIDE DEF LifeInv, TypeOK, NetPhases, BatchOk, SeatInv, GameQuiet, GenInv,
      NoGhosts, SenderInv
  <2>1. OthersAlone
    BY <1>25, TickFrame
  <2> QED BY <2>1 DEF OthersAlone
<1>26. ASSUME NEW s \in Seats, CaptureToken(s) PROVE EpochInv'
  BY <1>26 DEF CaptureToken
<1>27. CASE PostedKick
  BY <1>27 DEF PostedKick
<1>28. CASE CheckGeneration
  BY <1>28 DEF CheckGeneration
<1>29. CASE ClaimByHandle
  BY <1>29 DEF ClaimByHandle
<1>30. ASSUME NEW c \in Conns, ConnectingEdge(c) PROVE EpochInv'
  BY <1>30 DEF ConnectingEdge
<1>31. ASSUME NEW c \in Conns, ClosedEdge(c) PROVE EpochInv'
  BY <1>31 DEF ClosedEdge
<1>32. ASSUME NEW c \in Conns, ClosedEdgeSlotless(c) PROVE EpochInv'
  BY <1>32 DEF ClosedEdgeSlotless
<1>33. ASSUME NEW c \in Conns, Send(c) PROVE EpochInv'
  BY <1>33 DEF Send
<1>34. ASSUME NEW s \in Seats, FatalCloseSlot(s) PROVE EpochInv'
  BY <1>34 DEF FatalCloseSlot
<1> QED
  BY <1>1, <1>2, <1>3, <1>4, <1>5, <1>6, <1>7, <1>8, <1>9, <1>10, <1>11, <1>12,
      <1>13, <1>14, <1>15, <1>16, <1>17, <1>18, <1>19, <1>20, <1>21, <1>22, <1>23,
      <1>24, <1>25, <1>26, <1>27, <1>28, <1>29, <1>30, <1>31, <1>32, <1>33, <1>34
  DEF Next, Net, Teardown, HandleBatch, Admit, AdminKick, Remote, Backlog, Threads

\* A queued message is the occupant's, or is about to be erased.
LEMMA InboxStep ==
  LifeInv /\ SeatInv /\ GameQuiet /\ GenInv /\ NoGhosts /\ TagInv /\ LinkInv
  /\ SenderInv /\ InboxInv /\ Next
    => InboxInv'
<1> SUFFICES ASSUME LifeInv /\ SeatInv /\ GameQuiet /\ GenInv /\ NoGhosts /\
                    TagInv /\ LinkInv /\ SenderInv /\ InboxInv, Next
             PROVE  InboxInv'
  OBVIOUS
<1> USE GensType, ConnsAssumption, BoundsAssumption DEF LifeInv, TypeOK,
    NetPhases, SeatInv, GameQuiet, GenInv, NoGhosts, SenderInv, InboxInv,
    TearStart, ProofOf, Pulled, Step, StepOn, CloseConnection, wireVars,
    threadVars, slotVars, mintVars, adminVars, Tearing, TearSlot, TearAll,
    Seating, Threads
<1>1. ASSUME NEW t \in Threads, Kick(t) PROVE InboxInv'
  <2> DEFINE s == onSlot["net"]
  <2>1. /\ t = "net" /\ pc["net"] = "kick" /\ s \in Seats /\ inbox' = inbox
        /\ onSlot'["net"] = s /\ onConn'["net"] = peerConns[s]
        /\ peerConns' = [peerConns EXCEPT ![s] = NoConn]
        /\ pc'["net"] = IF peerConns[s] = NoConn THEN back["net"] ELSE "tearLanes"
    BY <1>1 DEF Kick
  <2> SUFFICES ASSUME NEW i \in DOMAIN inbox
               PROVE  \/ peerConns'[inbox[i].slot] = inbox[i].conn
                      \/ /\ pc'["net"] = "tearLanes" /\ s = inbox[i].slot
                         /\ onConn'["net"] = inbox[i].conn
    BY <2>1
  <2>2. inbox[i] \in Queued
    OBVIOUS
  <2>3. inbox[i].slot \in Seats /\ inbox[i].conn # NoConn
    BY <2>2 DEF Queued
  <2>4. peerConns[inbox[i].slot] = inbox[i].conn
    BY <2>1
  <2> QED BY <2>1, <2>3, <2>4
<1>2. ASSUME NEW t \in Threads, TearLanes(t) PROVE InboxInv'
  BY <1>2 DEF TearLanes
<1>3. ASSUME NEW t \in Threads, ResetPeerRemoteState(t) PROVE InboxInv'
  BY <1>3 DEF ResetPeerRemoteState
<1>4. ASSUME NEW t \in Threads, EraseInbox(t) PROVE InboxInv'
  <2>1. /\ t = "net" /\ UNCHANGED <<peerConns, onSlot, onConn>>
        /\ pc["net"] = "tearInbox"
    BY <1>4 DEF EraseInbox
  <2>2. PICK f \in [1..Cardinality(OfOthers(onSlot["net"])) -> OfOthers(onSlot["net"])] :
          inbox' = [i \in DOMAIN f |-> inbox[f[i]]]
    BY <1>4, <2>1 DEF EraseInbox
  <2> SUFFICES ASSUME NEW i \in DOMAIN inbox'
               PROVE  peerConns[inbox'[i].slot] = inbox'[i].conn
    BY <2>1
  <2>3. f[i] \in OfOthers(onSlot["net"]) /\ inbox'[i] = inbox[f[i]]
    BY <2>2
  <2>4. f[i] \in DOMAIN inbox /\ inbox[f[i]].slot # onSlot["net"]
    BY <2>3 DEF OfOthers
  <2> HIDE DEF LifeInv, TypeOK, NetPhases, SeatInv, GameQuiet, GenInv, NoGhosts,
      SenderInv
  <2>5. peerConns[inbox[f[i]].slot] = inbox[f[i]].conn
    BY <2>1, <2>4
  <2> QED BY <2>3, <2>5
<1>5. ASSUME NEW t \in Threads, ClearGeneration(t) PROVE InboxInv'
  BY <1>5 DEF ClearGeneration
<1>6. ASSUME NEW t \in Threads, ClearGuid(t) PROVE InboxInv'
  BY <1>6 DEF ClearGuid
<1>7. ASSUME NEW t \in Threads, CountPeers(t) PROVE InboxInv'
  BY <1>7 DEF CountPeers
<1>8. ASSUME NEW t \in Threads, Disconnect(t) PROVE InboxInv'
  BY <1>8 DEF Disconnect
<1>9. ASSUME NEW t \in Threads, ResetAllRemoteState(t) PROVE InboxInv'
  BY <1>9 DEF ResetAllRemoteState
<1>10. ASSUME NEW t \in Threads, ClearInbox(t) PROVE InboxInv'
  BY <1>10 DEF ClearInbox
<1>11. CASE Unregister
  BY <1>11 DEF Unregister
<1>12. CASE ReceiveBatch
  BY <1>12 DEF ReceiveBatch
<1>13. ASSUME NEW m \in batch, HandleReliable(m) PROVE InboxInv'
  BY <1>13 DEF HandleReliable
<1>14. ASSUME NEW m \in batch, DropStaleEpoch(m) PROVE InboxInv'
  BY <1>14 DEF DropStaleEpoch
<1>15. ASSUME NEW m \in batch, HandleProof(m) PROVE InboxInv'
  BY <1>15 DEF HandleProof
<1>16. CASE AppendReliable
  <2>1. /\ pc["net"] = "append" /\ pc'["net"] = "handle" /\ UNCHANGED peerConns
        /\ inbox' = Append(inbox, [slot |-> handling.ud, conn |-> handling.conn,
                                   n |-> handling.n])
    BY <1>16 DEF AppendReliable
  <2>2. peerConns[handling.ud] = handling.conn
    BY <2>1
  <2>3. inbox \in Seq(Queued)
    OBVIOUS
  <2> HIDE DEF LifeInv, TypeOK, NetPhases, SeatInv, GameQuiet, GenInv, NoGhosts,
      SenderInv
  <2>4. /\ Len(inbox) \in Nat /\ DOMAIN inbox = 1..Len(inbox)
        /\ DOMAIN inbox' = 1..Len(inbox) + 1
    BY <2>1, <2>3
  <2> SUFFICES ASSUME NEW i \in DOMAIN inbox'
               PROVE  peerConns[inbox'[i].slot] = inbox'[i].conn
    BY <2>1
  <2>5. CASE i \in DOMAIN inbox
    BY <2>1, <2>3, <2>5
  <2>6. CASE i = Len(inbox) + 1
    BY <2>1, <2>2, <2>3, <2>6
  <2> QED BY <2>4, <2>5, <2>6
<1>17. CASE EndPass
  BY <1>17 DEF EndPass
<1>18. CASE MintGeneration
  BY <1>18 DEF MintGeneration
<1>19. CASE RefuseFull
  BY <1>19 DEF RefuseFull
<1>20. CASE TakeSeat
  <2>1. /\ inbox' = inbox /\ pc["net"] = "seat"
        /\ peerConns' = [peerConns EXCEPT ![onSlot["net"]] = handling.conn]
    BY <1>20 DEF TakeSeat
  <2> SUFFICES ASSUME NEW i \in DOMAIN inbox
               PROVE  peerConns'[inbox[i].slot] = inbox[i].conn
    BY <2>1
  <2>2. inbox[i] \in Queued
    OBVIOUS
  <2>3. inbox[i].slot \in Seats /\ inbox[i].conn \in Conns
    BY <2>2 DEF Queued
  <2>4. peerConns[inbox[i].slot] = inbox[i].conn
    BY <2>1
  <2>5. inbox[i].slot # onSlot["net"]
    BY <2>1, <2>3, <2>4
  <2> QED BY <2>1, <2>3, <2>4, <2>5
<1>21. CASE ConfigureLanes
  BY <1>21 DEF ConfigureLanes
<1>22. CASE FinishPeerConnected
  BY <1>22 DEF FinishPeerConnected
<1>23. CASE Admitted
  BY <1>23 DEF Admitted
<1>24. CASE PublishGuid
  BY <1>24 DEF PublishGuid
<1>25. CASE BeginTick
  BY <1>25 DEF BeginTick
<1>26. CASE ReconcileDeath
  BY <1>26 DEF ReconcileDeath
<1>27. CASE ReconcileBirth
  BY <1>27 DEF ReconcileBirth
<1>28. CASE PopReliable
  <2>1. inbox # <<>> /\ inbox' = Tail(inbox)
    BY <1>28 DEF PopReliable
  <2>2. /\ pc'["net"] = pc["net"] /\ onSlot'["net"] = onSlot["net"]
        /\ onConn'["net"] = onConn["net"] /\ UNCHANGED peerConns
    BY <1>28, TickFrame DEF Tick, OthersAlone
  <2>3. \A i \in DOMAIN inbox' : i + 1 \in DOMAIN inbox /\ inbox'[i] = inbox[i + 1]
    BY <2>1
  <2> HIDE DEF LifeInv, TypeOK, NetPhases, SeatInv, GameQuiet, GenInv, NoGhosts,
      SenderInv
  <2> QED BY <2>2, <2>3
<1>29. CASE PopJoin
  <2>1. inbox # <<>> /\ inbox' = Tail(inbox)
    BY <1>29 DEF PopJoin
  <2>2. /\ pc'["net"] = pc["net"] /\ onSlot'["net"] = onSlot["net"]
        /\ onConn'["net"] = onConn["net"] /\ UNCHANGED peerConns
    BY <1>29, TickFrame DEF Tick, OthersAlone
  <2>3. \A i \in DOMAIN inbox' : i + 1 \in DOMAIN inbox /\ inbox'[i] = inbox[i + 1]
    BY <2>1
  <2> HIDE DEF LifeInv, TypeOK, NetPhases, SeatInv, GameQuiet, GenInv, NoGhosts,
      SenderInv
  <2> QED BY <2>2, <2>3
<1>30. CASE HandleJoinMessage
  BY <1>30 DEF HandleJoinMessage
<1>31. CASE RefuseJoin
  BY <1>31 DEF RefuseJoin
<1>32. CASE EndTick
  <2>1. inbox' = inbox
    BY <1>32 DEF EndTick
  <2>2. /\ pc'["net"] = pc["net"] /\ onSlot'["net"] = onSlot["net"]
        /\ onConn'["net"] = onConn["net"] /\ UNCHANGED peerConns
    BY <1>32, TickFrame DEF Tick, OthersAlone
  <2> HIDE DEF LifeInv, TypeOK, NetPhases, SeatInv, GameQuiet, GenInv, NoGhosts,
      SenderInv
  <2> QED BY <2>1, <2>2
<1>33. ASSUME NEW s \in Seats, CaptureToken(s) PROVE InboxInv'
  BY <1>33 DEF CaptureToken
<1>34. CASE PostedKick
  BY <1>34 DEF PostedKick
<1>35. CASE CheckGeneration
  BY <1>35 DEF CheckGeneration
<1>36. CASE ClaimByHandle
  BY <1>36 DEF ClaimByHandle
<1>37. ASSUME NEW c \in Conns, ConnectingEdge(c) PROVE InboxInv'
  BY <1>37 DEF ConnectingEdge
<1>38. ASSUME NEW c \in Conns, ClosedEdge(c) PROVE InboxInv'
  BY <1>38 DEF ClosedEdge
<1>39. ASSUME NEW c \in Conns, ClosedEdgeSlotless(c) PROVE InboxInv'
  BY <1>39 DEF ClosedEdgeSlotless
<1>40. ASSUME NEW c \in Conns, Send(c) PROVE InboxInv'
  BY <1>40 DEF Send
<1>41. ASSUME NEW s \in Seats, FatalCloseSlot(s) PROVE InboxInv'
  BY <1>41 DEF FatalCloseSlot
<1> QED
  BY <1>1, <1>2, <1>3, <1>4, <1>5, <1>6, <1>7, <1>8, <1>9, <1>10, <1>11, <1>12,
      <1>13, <1>14, <1>15, <1>16, <1>17, <1>18, <1>19, <1>20, <1>21, <1>22, <1>23,
      <1>24, <1>25, <1>26, <1>27, <1>28, <1>29, <1>30, <1>31, <1>32, <1>33, <1>34,
      <1>35, <1>36, <1>37, <1>38, <1>39, <1>40, <1>41
  DEF Next, Net, Teardown, HandleBatch, Admit, Tick, AdminKick, Remote, Backlog,
      Threads

-----------------------------------------------------------------------------
\* The invariant of a host with a quiet game thread, and of one whose players
\* have one link each.
AloneInv == LifeInv /\ SeatInv /\ GameQuiet /\ GenInv /\ StateInv
OneLinkInv ==
  AloneInv /\ GuidInv /\ NoGhosts /\ TagInv /\ LinkInv /\ SenderInv /\ EpochInv /\ InboxInv

\* Nothing has happened yet.
LEMMA InitAlone == Init => OneLinkInv
<1> SUFFICES ASSUME Init PROVE OneLinkInv
  OBVIOUS
<1> USE BoundsAssumption DEF Init, Threads
<1>1. LifeInv /\ SeatInv
  BY InitLife
<1>2. GameQuiet /\ GenInv /\ GuidInv /\ NoGhosts /\ TagInv
  BY DEF GameQuiet, GenInv, GuidInv, NoGhosts, TagInv, TearSlot, TearStart, TearAll,
         Tearing
<1>3. ConnectedSlots = {}
  BY DEF ConnectedSlots
<1>4. StateInv
  BY <1>3 DEF StateInv, TearSlot, TearAll, Tearing
<1>5. LinkInv /\ SenderInv /\ EpochInv /\ InboxInv
  BY DEF LinkInv, SenderInv, EpochInv, InboxInv
<1> QED BY <1>1, <1>2, <1>4, <1>5 DEF OneLinkInv, AloneInv

\* Steps that leave everything as it is.
LEMMA StutterAlone == UNCHANGED vars /\ OneLinkInv => OneLinkInv'
<1> SUFFICES ASSUME UNCHANGED vars, OneLinkInv PROVE OneLinkInv'
  OBVIOUS
<1> USE DEF vars, OneLinkInv, AloneInv
<1>1. LifeInv' /\ SeatInv'
  BY Stutter
<1>2. GameQuiet' /\ GenInv' /\ GuidInv' /\ NoGhosts' /\ TagInv'
  BY DEF GameQuiet, GenInv, GuidInv, NoGhosts, TagInv
<1>3. StateInv'
  BY DEF StateInv, ConnectedSlots
<1>4. LinkInv' /\ SenderInv' /\ EpochInv' /\ InboxInv'
  BY DEF LinkInv, SenderInv, EpochInv, InboxInv
<1> QED BY <1>1, <1>2, <1>3, <1>4

\* Steps that leave everything as it is, of the weaker invariant.
LEMMA StutterQuiet == UNCHANGED vars /\ AloneInv => AloneInv'
<1> SUFFICES ASSUME UNCHANGED vars, AloneInv PROVE AloneInv'
  OBVIOUS
<1> USE DEF vars, AloneInv
<1>1. LifeInv' /\ SeatInv'
  BY Stutter
<1>2. GameQuiet' /\ GenInv'
  BY DEF GameQuiet, GenInv
<1>3. StateInv'
  BY DEF StateInv, ConnectedSlots
<1> QED BY <1>1, <1>2, <1>3

\* AloneInv is an invariant of a host with a quiet game thread ...
LEMMA AloneHolds == ASSUME QuietGame PROVE Spec => []AloneInv
<1>1. Init => AloneInv
  BY InitAlone DEF OneLinkInv
<1>2. AloneInv /\ [Next]_vars => AloneInv'
  BY LifeStep, SeatStep, QuietStep, GenStep, StateStep, StutterQuiet DEF AloneInv
<1> QED BY <1>1, <1>2, PTL DEF Spec

\* ... and OneLinkInv of one whose players have one link each besides.
LEMMA OneLinkHolds == ASSUME QuietGame, OwnIdentity PROVE Spec => []OneLinkInv
<1>1. Init => OneLinkInv
  BY InitAlone
<1>2. OneLinkInv /\ [Next]_vars => OneLinkInv'
  BY LifeStep, SeatStep, QuietStep, GenStep, StateStep, GuidStep, NoGhostStep, TagStep,
     LinkStep, SenderStep, EpochStep, InboxStep, StutterAlone DEF OneLinkInv, AloneInv
<1> QED BY <1>1, <1>2, PTL DEF Spec

\* With one thread tearing down, whoever sees a slot's connection sees its own
\* generation: supersessions and the backlog's kicks included.
THEOREM GenerationIsOccupants == ASSUME QuietGame PROVE Spec => []GenPublishedFirst
<1>1. AloneInv => GenPublishedFirst
  BY DEF AloneInv, GenInv, GenPublishedFirst
<1> QED BY <1>1, AloneHolds, PTL

\* Between two passes of the net thread, the session is Connected exactly when a
\* peer is, through every admission and teardown.
THEOREM StateIsPeers == ASSUME QuietGame PROVE Spec => []StateMatchesPeers
<1>1. AloneInv => StateMatchesPeers
  BY DEF AloneInv, StateInv, StateMatchesPeers, Tearing, TearSlot, TearAll
<1> QED BY <1>1, AloneHolds, PTL

\* If players do not rejoin over a link that is still up, a slot never keeps
\* another session's epoch, which would drop all its occupant sends.
THEOREM EpochOfOccupant ==
  ASSUME QuietGame, OwnIdentity PROVE Spec => []EpochIsOccupants
<1>1. OneLinkInv => EpochIsOccupants
  <2> SUFFICES ASSUME OneLinkInv, NEW s \in Seats, peerConns[s] # NoConn
               PROVE  epoch[s] \in {NoConn, peerConns[s]}
    BY DEF EpochIsOccupants
  <2>1. pc["net"] \in {"tearLanes", "tearEpoch"} => s # onSlot["net"]
    BY DEF OneLinkInv, AloneInv, GenInv, TearSlot
  <2> QED BY <2>1 DEF OneLinkInv, EpochInv
<1> QED BY <1>1, OneLinkHolds, PTL

\* Nor is a message queued under a generation that is not its sender's: what a
\* leaver queued is erased before its generation is.
THEOREM InboxOfOccupants ==
  ASSUME QuietGame, OwnIdentity PROVE Spec => []InboxIsOccupants
<1>1. OneLinkInv => InboxIsOccupants
  <2> SUFFICES ASSUME OneLinkInv, NEW i \in DOMAIN inbox
               PROVE  peerGen[inbox[i].slot] = genOf[inbox[i].conn]
    BY DEF InboxIsOccupants
  <2>1. inbox[i] \in Queued
    BY DEF OneLinkInv, AloneInv, LifeInv, TypeOK
  <2>2. inbox[i].slot \in Seats /\ inbox[i].conn # NoConn
    BY <2>1, ConnsAssumption DEF Queued
  <2> QED BY <2>2 DEF OneLinkInv, AloneInv, GenInv, InboxInv
<1> QED BY <1>1, OneLinkHolds, PTL
=============================================================================
