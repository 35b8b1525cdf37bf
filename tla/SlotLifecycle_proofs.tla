------------------------ MODULE SlotLifecycle_proofs ------------------------
(* Theorems about SlotLifecycle for any number of slots, handles, messages  *)
(* and kicks, with refused Joins and supersessions: the kicks of the game   *)
(* thread race the net thread's teardowns.                                  *)
(*                                                                          *)
(* LifeInv says where the threads are and what a connection has been        *)
(* through; SeatInv and TokenInv rest on it.                                *)
EXTENDS SlotLifecycle, FiniteSetTheorems, TLAPS

\* Where a thread can be: at the words of one slot, at those of the session.
TearSlot   == {"tearLanes", "tearEpoch", "tearInbox", "tearGen", "tearGuid"}
TearAll    == {"tearState", "tearEpochs", "tearQueue"}
Tearing   == TearSlot \cup {"tearCount"} \cup TearAll
Seating    == {"seat", "lanes", "connect", "admitted", "guid"}
NetLabels  == Tearing \cup Seating \cup
              {"callbacks", "unregister", "handle", "append", "kick", "mint"}
GameLabels == Tearing \cup {"idle", "reconcile", "birth", "drain", "more", "dispatch",
                            "kick", "check", "claim"}

\* c's proof is in the batch or being handled, and c has no seat yet.
Proving(c) ==
  /\ link[c] = "pending" /\ userData[c] = 0 /\ genOf[c] = 0
  /\ 0 \notin unread[c]

ProofOf(m) == m \in Pulled /\ m.n = 0 /\ m.ud = 0

\* What the net thread's registers hold at each of its steps.
NetPhases ==
  /\ pc["net"] \in NetLabels
  /\ pc["net"] \in {"callbacks", "unregister"} => batch = {}
  /\ pc["net"] \in {"callbacks", "unregister", "handle"} => handling = NoMsg
  /\ pc["net"] = "append" => handling \in Pulled /\ handling.ud # 0 /\ handling.n # 0
  /\ pc["net"] = "unregister" => back["net"] = "callbacks"
  /\ pc["net"] = "mint" => ProofOf(handling)
  /\ pc["net"] \in Seating =>
       ProofOf(handling) /\ onSlot["net"] \in Seats /\ genOf[handling.conn] # 0
  /\ pc["net"] \in TearSlot \cup {"kick", "unregister"} => onSlot["net"] \in Seats
  /\ pc["net"] \in Tearing \cup {"kick"} =>
       \/ back["net"] = "callbacks" /\ batch = {} /\ handling = NoMsg
       \/ back["net"] = "handle" /\ batch = {} /\ handling = NoMsg
       \/ back["net"] = "mint" /\ ProofOf(handling)
  /\ (pc["net"] = "mint" \/ (pc["net"] \in Tearing \cup {"kick"} /\ back["net"] = "mint"))
       => Proving(handling.conn) /\ \A m \in batch : m.conn # handling.conn

\* The same of the game thread, and of the token it kicks with.
GamePhases ==
  /\ pc["game"] \in GameLabels
  /\ pc["game"] \in TearSlot \cup {"reconcile", "birth", "dispatch", "kick"} =>
       onSlot["game"] \in Seats
  /\ pc["game"] \in Tearing \cup {"kick", "check", "claim"} =>
       back["game"] \in {"idle", "more"}
  /\ pc["game"] \in {"check", "claim"} => token # NoToken /\ onSlot["game"] = token.slot
  /\ token # NoToken => token.slot \in Seats /\ token.gen # 0
  /\ token # NoToken /\ pc["game"] \notin {"check", "claim"} => kicks < MaxKicks

\* A handle a teardown works on, or a seat holds, was minted a generation.
Holding ==
  /\ pc["net"] \in {"unregister", "tearLanes"} =>
       onConn["net"] \in Conns /\ genOf[onConn["net"]] # 0
  /\ pc["game"] \in {"check", "claim", "tearLanes"} =>
       onConn["game"] \in Conns /\ genOf[onConn["game"]] # 0
  /\ \A s \in Seats : peerConns[s] # NoConn => genOf[peerConns[s]] # 0

\* Only a proof comes before the generation, only the rest after it.
Wire ==
  \A c \in Conns :
    /\ link[c] = "new" => unread[c] = {} /\ userData[c] = 0 /\ genOf[c] = 0
    /\ link[c] = "seated" => userData[c] # 0 /\ genOf[c] # 0
    /\ 0 \in unread[c] => link[c] = "pending" /\ userData[c] = 0 /\ genOf[c] = 0
    /\ \A n \in unread[c] : n # 0 => userData[c] # 0 /\ genOf[c] # 0
    /\ genOf[c] # 0 => userData[c] # 0

BatchOk ==
  \A m \in batch :
    /\ m.n = 0 <=> m.ud = 0
    /\ m.n = 0 => Proving(m.conn)
    /\ m.n # 0 => genOf[m.conn] # 0

Minted == genCounter = Cardinality({c \in Conns : genOf[c] # 0})

LifeInv ==
  TypeOK /\ NetPhases /\ GamePhases /\ Holding /\ Wire /\ BatchOk /\ Minted

\* A handle is in one seat at most and open there: whoever releases it has
\* taken it out of its seat before, and it is seated before it is released.
SeatInv ==
  /\ \A s, t \in Seats : peerConns[s] # NoConn /\ peerConns[s] = peerConns[t] => s = t
  /\ \A s \in Seats : peerConns[s] # NoConn =>
       \/ link[peerConns[s]] = "seated"
       \/ /\ pc["net"] \in {"lanes", "connect"}
          /\ handling.conn = peerConns[s] /\ link[peerConns[s]] = "pending"
  /\ \A t \in Threads : pc[t] = "tearLanes" => \A s \in Seats : peerConns[s] # onConn[t]
  /\ pc["net"] = "seat" =>
       /\ link[handling.conn] = "pending" /\ peerConns[onSlot["net"]] = NoConn
       /\ \A s \in Seats : peerConns[s] # handling.conn
       /\ pc["game"] \in {"check", "claim", "tearLanes"} => onConn["game"] # handling.conn
  /\ pc["net"] = "unregister" =>
       /\ \A s \in Seats : s # onSlot["net"] => peerConns[s] # onConn["net"]
       /\ peerConns[onSlot["net"]] \in {NoConn, onConn["net"]}

\* A teardown by the other thread may have cleared the generation of a seat
\* that is taken again, but nothing writes a stranger's.
TokenInv ==
  /\ \A s \in Seats : peerConns[s] # NoConn => peerGen[s] \in {0, genOf[peerConns[s]]}
  /\ pc["net"] = "seat" => peerGen[onSlot["net"]] \in {0, genOf[handling.conn]}
  /\ pc["game"] = "claim" /\ peerConns[onSlot["game"]] = onConn["game"] =>
       genOf[onConn["game"]] = token.gen

\* TokenKicksItsTarget of one step.
ClaimFits ==
  pc["game"] = "claim" /\ pc'["game"] = "tearLanes" =>
    genOf[peerConns[onSlot["game"]]] = token.gen

-----------------------------------------------------------------------------

\* Generations are numbers, and there is a 0.
LEMMA GensType == 0 \in Gens /\ Gens \subseteq Nat /\ Cardinality(Conns) \in Nat
<1>1. Cardinality(Conns) \in Nat
  BY ConnsAssumption, FS_CardinalityType
<1> QED BY <1>1 DEF Gens

\* The labels of the two threads are labels.
LEMMA LabelsHold == NetLabels \subseteq Labels /\ GameLabels \subseteq Labels
BY DEF NetLabels, GameLabels, Tearing, TearSlot, TearAll, Seating, Labels

\* A step of the game thread's tick leaves the net thread, the slots and the wire
\* alone, and does not end in the middle of a kick.
OthersAlone ==
  /\ pc'["net"] = pc["net"] /\ back'["net"] = back["net"]
  /\ onSlot'["net"] = onSlot["net"] /\ onConn'["net"] = onConn["net"]
  /\ pc["game"] # "claim" /\ pc'["game"] \notin {"check", "claim", "tearLanes"}
  /\ UNCHANGED <<link, userData, unread, sent, batch, handling, peerConns, peerGen,
                 lanes, epoch, provedGuid, state, genCounter, genOf, token, kicks>>

\* Each of the tick's steps is such a step.
LEMMA TickFrame == LifeInv /\ Tick => OthersAlone
<1> SUFFICES ASSUME LifeInv, Tick PROVE OthersAlone
  OBVIOUS
<1>1. /\ pc \in [Threads -> Labels] /\ back \in [Threads -> Labels]
      /\ onSlot \in [Threads -> 0..NumSeats] /\ onConn \in [Threads -> Conns \cup {NoConn}]
  BY DEF LifeInv, TypeOK
<1> HIDE DEF LifeInv
<1> USE <1>1 DEF OthersAlone, Threads, Step, StepOn, wireVars, slotVars,
    mintVars, adminVars
<1>2. CASE BeginTick
  BY <1>2 DEF BeginTick
<1>3. CASE ReconcileDeath
  BY <1>3 DEF ReconcileDeath
<1>4. CASE ReconcileBirth
  <2> DEFINE s == onSlot["game"]
  <2>1. \/ StepOn("game", "birth", "drain", NoSlot, NoConn)
        \/ StepOn("game", "birth", "reconcile", s + 1, NoConn)
    BY <1>4 DEF ReconcileBirth
  <2>2. /\ pc'["net"] = pc["net"] /\ pc["game"] = "birth"
        /\ onSlot'["net"] = onSlot["net"] /\ onConn'["net"] = onConn["net"]
        /\ pc'["game"] \notin {"check", "claim", "tearLanes"}
    BY <2>1
  <2> QED BY <1>4, <2>2 DEF ReconcileBirth
<1>5. CASE PopReliable
  BY <1>5 DEF PopReliable, Draining
<1>6. CASE PopJoin
  BY <1>6 DEF PopJoin, Draining
<1>7. CASE HandleJoinMessage
  BY <1>7 DEF HandleJoinMessage
<1>8. CASE RefuseJoin
  BY <1>8 DEF RefuseJoin
<1>9. CASE EndTick
  BY <1>9 DEF EndTick
<1> QED BY <1>2, <1>3, <1>4, <1>5, <1>6, <1>7, <1>8, <1>9 DEF Tick

\* A step of one thread keeps the four thread registers in their types.
LEMMA StepOnType ==
  ASSUME TypeOK, NEW t \in Threads, NEW l, NEW m \in Labels, NEW s \in 0..NumSeats,
         NEW c \in Conns \cup {NoConn}, StepOn(t, l, m, s, c)
  PROVE  /\ pc' \in [Threads -> Labels] /\ onSlot' \in [Threads -> 0..NumSeats]
         /\ onConn' \in [Threads -> Conns \cup {NoConn}]
BY DEF StepOn, TypeOK

\* The same of a step that keeps the slot and the handle.
LEMMA StepType ==
  ASSUME TypeOK, NEW t \in Threads, NEW l, NEW m \in Labels, Step(t, l, m)
  PROVE  /\ pc' \in [Threads -> Labels] /\ back' = back /\ onSlot' = onSlot
         /\ onConn' = onConn
BY DEF Step, TypeOK

\* Type correctness is kept.  The generation counter stays within Gens
\* because a handle is minted a generation once (Minted).
LEMMA TypeStep == LifeInv /\ Next => TypeOK'
<1> SUFFICES ASSUME LifeInv, Next PROVE TypeOK'
  OBVIOUS
<1> USE GensType, LabelsHold, ConnsAssumption, KeysAssumption, BoundsAssumption
    DEF LifeInv, Step, StepOn, CloseConnection, wireVars, threadVars, slotVars,
    mintVars, adminVars
<1>1. ASSUME NEW t \in Threads, Kick(t) PROVE TypeOK'
  <2> DEFINE s == onSlot[t]
             c == peerConns[s]
             l == IF c = NoConn THEN back[t] ELSE "tearLanes"
  <2>1. StepOn(t, "kick", l, s, c) /\ back' = back
        /\ peerConns' = [peerConns EXCEPT ![s] = NoConn]
    BY <1>1, KeysAssumption, BoundsAssumption DEF Kick, NetPhases, GamePhases,
        Threads, Labels, TypeOK
  <2>2. s \in Seats
    BY <2>1 DEF NetPhases, GamePhases, Threads
  <2>3. c \in Conns \cup {NoConn} /\ s \in 0..NumSeats
    BY <2>2 DEF TypeOK
  <2>4. "tearLanes" \in Labels
    BY DEF Labels
  <2>5. l \in Labels /\ TypeOK
    BY <2>4 DEF TypeOK
  <2> HIDE DEF StepOn, s, c, l, LifeInv
  <2>6. /\ pc' \in [Threads -> Labels] /\ onSlot' \in [Threads -> 0..NumSeats]
        /\ onConn' \in [Threads -> Conns \cup {NoConn}]
    BY <2>1, <2>3, <2>5, StepOnType
  <2>7. peerConns' \in [Seats -> Conns \cup {NoConn}]
    BY <2>1, <2>5 DEF TypeOK
  <2> QED BY <1>1, <2>1, <2>5, <2>6, <2>7 DEF Kick, TypeOK
<1>2. ASSUME NEW t \in Threads, TearLanes(t) PROVE TypeOK'
  BY <1>2 DEF TearLanes, Labels, Threads, TypeOK
<1>3. ASSUME NEW t \in Threads, ResetPeerRemoteState(t) PROVE TypeOK'
  BY <1>3 DEF ResetPeerRemoteState, Labels, TypeOK
<1>4. ASSUME NEW t \in Threads, EraseInbox(t) PROVE TypeOK'
  <2>1. IsFiniteSet(OfOthers(onSlot[t])) /\ OfOthers(onSlot[t]) \subseteq DOMAIN inbox
    <3>1. DOMAIN inbox = 1..Len(inbox) /\ Len(inbox) \in Nat
      BY DEF TypeOK
    <3>2. IsFiniteSet(1..Len(inbox))
      BY <3>1, FS_Interval
    <3> QED BY <3>1, <3>2, FS_Subset DEF OfOthers
  <2>2. Cardinality(OfOthers(onSlot[t])) \in Nat
    BY <2>1, FS_CardinalityType
  <2>3. inbox' \in Seq(Queued)
    <3> DEFINE n == Cardinality(OfOthers(onSlot[t]))
    <3>1. PICK f \in [1..n -> OfOthers(onSlot[t])] : inbox' = [i \in DOMAIN f |-> inbox[f[i]]]
      BY <1>4 DEF EraseInbox
    <3>2. \A i \in 1..n : inbox[f[i]] \in Queued
      <4>1. \A i \in DOMAIN inbox : inbox[i] \in Queued
        BY DEF TypeOK
      <4> HIDE DEF n
      <4>2. \A i \in 1..n : f[i] \in OfOthers(onSlot[t])
        BY <3>1
      <4> QED BY <2>1, <4>1, <4>2
    <3>3. inbox' \in [1..n -> Queued]
      BY <3>1, <3>2
    <3> QED BY <2>2, <3>3
  <2> QED BY <1>4, <2>3 DEF EraseInbox, Labels, TypeOK
<1>5. ASSUME NEW t \in Threads, ClearGeneration(t) PROVE TypeOK'
  BY <1>5 DEF ClearGeneration, Labels, TypeOK
<1>6. ASSUME NEW t \in Threads, ClearGuid(t) PROVE TypeOK'
  BY <1>6 DEF ClearGuid, Labels, TypeOK
<1>7. ASSUME NEW t \in Threads, CountPeers(t) PROVE TypeOK'
  BY <1>7 DEF CountPeers, Labels, TypeOK
<1>8. ASSUME NEW t \in Threads, Disconnect(t) PROVE TypeOK'
  BY <1>8 DEF Disconnect, Labels, TypeOK
<1>9. ASSUME NEW t \in Threads, ResetAllRemoteState(t) PROVE TypeOK'
  BY <1>9 DEF ResetAllRemoteState, Labels, TypeOK
<1>10. ASSUME NEW t \in Threads, ClearInbox(t) PROVE TypeOK'
  BY <1>10 DEF ClearInbox, Labels, TypeOK
<1>11. CASE Unregister
  BY <1>11 DEF Unregister, Labels, Threads, TypeOK
<1>12. CASE ReceiveBatch
  BY <1>12, SMTT(60) DEF ReceiveBatch, Labels, Pulled, Arrived, Threads, TypeOK
<1>13. ASSUME NEW m \in batch, HandleReliable(m) PROVE TypeOK'
  BY <1>13 DEF HandleReliable, Labels, Threads, Pulled, Seats, TypeOK
<1>14. ASSUME NEW m \in batch, DropStaleEpoch(m) PROVE TypeOK'
  BY <1>14 DEF DropStaleEpoch, Labels, Threads, TypeOK
<1>15. ASSUME NEW m \in batch, HandleProof(m) PROVE TypeOK'
  <2>1. m \in Pulled /\ m.conn \in Conns
    BY DEF TypeOK, Pulled
  <2>2. /\ pc' \in [Threads -> Labels] /\ back' \in [Threads -> Labels]
        /\ onSlot' \in [Threads -> 0..NumSeats] /\ onConn' \in [Threads -> Conns \cup {NoConn}]
    <3>0. back' = [back EXCEPT !["net"] = "mint"]
      BY <1>15 DEF HandleProof
    <3>4. ASSUME NEW c \in Conns, NEW s \in 0..NumSeats, NEW l \in Labels,
                 StepOn("net", "handle", l, s, c)
          PROVE  /\ pc' \in [Threads -> Labels] /\ back' \in [Threads -> Labels]
                 /\ onSlot' \in [Threads -> 0..NumSeats]
                 /\ onConn' \in [Threads -> Conns \cup {NoConn}]
      BY <3>0, <3>4 DEF TypeOK, Labels
    <3>1. CASE StepOn("net", "handle", "mint", NoSlot, m.conn)
      <4>1. NoSlot \in 0..NumSeats /\ "mint" \in Labels
        BY BoundsAssumption DEF NoSlot, Labels
      <4> HIDE DEF StepOn
      <4> QED BY <2>1, <3>1, <3>4, <4>1
    <3>2. ASSUME NEW s \in Seats, StepOn("net", "handle", "kick", s, m.conn)
          PROVE  /\ pc' \in [Threads -> Labels] /\ back' \in [Threads -> Labels]
                 /\ onSlot' \in [Threads -> 0..NumSeats]
                 /\ onConn' \in [Threads -> Conns \cup {NoConn}]
      <4>1. s \in 0..NumSeats /\ "kick" \in Labels
        BY BoundsAssumption DEF Seats, Labels
      <4> HIDE DEF StepOn
      <4> QED BY <2>1, <3>2, <3>4, <4>1
    <3> QED BY <1>15, <3>1, <3>2 DEF HandleProof
  <2>3. batch' \subseteq Pulled /\ handling' \in Pulled
    BY <1>15, <2>1 DEF HandleProof, TypeOK
  <2> HIDE DEF StepOn
  <2> QED BY <1>15, <2>2, <2>3 DEF HandleProof, TypeOK
<1>16. CASE AppendReliable
  <2>1. [slot |-> handling.ud, conn |-> handling.conn, n |-> handling.n] \in Queued
    BY <1>16, BoundsAssumption DEF AppendReliable, NetPhases, Queued, Pulled,
        Seats
  <2>2. inbox' \in Seq(Queued)
    BY <1>16, <2>1 DEF AppendReliable, TypeOK
  <2> QED BY <1>16, <2>2 DEF AppendReliable, Labels, TypeOK
<1>17. CASE EndPass
  BY <1>17 DEF EndPass, Labels, TypeOK
<1>18. CASE MintGeneration
  <2> DEFINE c == handling.conn
  <2>1. c \in Conns /\ genOf[c] = 0
    BY <1>18 DEF MintGeneration, NetPhases, ProofOf, Proving, Pulled, TypeOK
  <2>2. genCounter + 1 \in Gens
    <3> DEFINE M == {d \in Conns : genOf[d] # 0}
    <3>1. IsFiniteSet(M) /\ c \notin M /\ M \cup {c} \subseteq Conns
      BY <2>1, FS_Subset
    <3>2. Cardinality(M \cup {c}) = Cardinality(M) + 1
      BY <3>1, FS_AddElement
    <3>3. Cardinality(M \cup {c}) <= Cardinality(Conns)
      BY <3>1, FS_Subset
    <3>4. genCounter = Cardinality(M)
      BY DEF Minted
    <3> QED BY <3>2, <3>3, <3>4 DEF TypeOK, Gens
  <2>3. PICK s \in FreeSeats :
          /\ StepOn("net", "mint", "seat", s, c)
          /\ userData' = [userData EXCEPT ![c] = s]
          /\ peerGen' = [peerGen EXCEPT ![s] = genCounter + 1]
    BY <1>18 DEF MintGeneration, TypeOK
  <2>4. s \in Seats
    BY DEF FreeSeats
  <2>5. s \in 0..NumSeats
    BY <2>4, BoundsAssumption DEF Seats
  <2>6. /\ pc' \in [Threads -> Labels] /\ back' \in [Threads -> Labels]
        /\ onSlot' \in [Threads -> 0..NumSeats] /\ onConn' \in [Threads -> Conns \cup {NoConn}]
    BY <1>18, <2>1, <2>3, <2>5 DEF MintGeneration, Labels, TypeOK
  <2>7. peerGen' \in [Seats -> Gens] /\ genCounter' \in Gens /\ genOf' \in [Conns -> Gens]
    BY <1>18, <2>2, <2>3 DEF MintGeneration, TypeOK
  <2>8. userData' \in [Conns -> 0..NumSeats]
    BY <2>3, <2>5 DEF TypeOK
  <2> HIDE DEF StepOn
  <2> QED BY <1>18, <2>6, <2>7, <2>8 DEF MintGeneration, TypeOK
<1>19. CASE RefuseFull
  BY <1>19 DEF RefuseFull, Labels, NoMsg, TypeOK
<1>20. CASE TakeSeat
  BY <1>20 DEF TakeSeat, Labels, NetPhases, Seating, ProofOf, Pulled, TypeOK
<1>21. CASE ConfigureLanes
  BY <1>21 DEF ConfigureLanes, Labels, TypeOK
<1>22. CASE FinishPeerConnected
  BY <1>22 DEF FinishPeerConnected, Labels, TypeOK
<1>23. CASE Admitted
  BY <1>23 DEF Admitted, Labels, TypeOK
<1>24. CASE PublishGuid
  BY <1>24, KeysAssumption, BoundsAssumption DEF PublishGuid, Labels, NoMsg,
      NetPhases, Seating, ProofOf, Pulled, TypeOK
<1>25. CASE BeginTick
  <2>1. StepOn("game", "idle", "reconcile", 1, NoConn)
    BY <1>25, KeysAssumption, BoundsAssumption DEF BeginTick, Labels, Seats,
        Threads, TypeOK
  <2>2. "reconcile" \in Labels /\ 1 \in 0..NumSeats /\ "game" \in Threads
    BY DEF Labels, Threads
  <2> HIDE DEF StepOn
  <2>3. /\ pc' \in [Threads -> Labels] /\ onSlot' \in [Threads -> 0..NumSeats]
        /\ onConn' \in [Threads -> Conns \cup {NoConn}]
    BY <2>1, <2>2, StepOnType
  <2> QED BY <1>25, <2>3 DEF BeginTick, TypeOK
<1>26. CASE ReconcileDeath
  BY <1>26 DEF ReconcileDeath, Labels, GamePhases, NoRow, TypeOK
<1>27. CASE ReconcileBirth
  <2> DEFINE s == onSlot["game"]
  <2>1. s \in Seats /\ s + 1 \in 0..NumSeats + 1 /\ (s # NumSeats => s + 1 \in Seats)
    BY <1>27 DEF ReconcileBirth, GamePhases, Seats, TypeOK
  <2>2. /\ pc' \in [Threads -> Labels]
        /\ onSlot' \in [Threads -> 0..NumSeats] /\ onConn' \in [Threads -> Conns \cup {NoConn}]
    BY <1>27, <2>1, SMTT(60) DEF ReconcileBirth, TypeOK, Labels, NoSlot, Threads,
        Seats
  <2>3. rows' \in [Seats -> [gen : Gens, name : Conns \cup {NoConn}]]
    BY <1>27 DEF ReconcileBirth, TypeOK, TypeOK
  <2> HIDE DEF StepOn
  <2> QED BY <1>27, <2>2, <2>3 DEF ReconcileBirth, TypeOK
<1>28. CASE PopReliable
  <2>1. inbox' \in Seq(Queued)
    BY <1>28 DEF PopReliable, TypeOK, TypeOK
  <2> QED BY <1>28, <2>1 DEF PopReliable, Labels, TypeOK
<1>29. CASE PopJoin
  <2>1. inbox' \in Seq(Queued) /\ Head(inbox) \in Queued
    BY <1>29 DEF PopJoin, TypeOK, TypeOK
  <2>2. Head(inbox).slot \in Seats /\ Head(inbox).conn \in Conns
    BY <2>1 DEF Queued
  <2>3. PICK l \in Draining :
          StepOn("game", l, "dispatch", Head(inbox).slot, Head(inbox).conn)
    BY <1>29 DEF PopJoin, Draining, Labels, Queued, Seats, Threads, TypeOK
  <2>4. Head(inbox).slot \in 0..NumSeats
    BY <2>2, BoundsAssumption DEF Seats
  <2> QED BY <1>29, <2>1, <2>2, <2>3, <2>4 DEF PopJoin, Labels, TypeOK
<1>30. CASE HandleJoinMessage
  <2>1. rows' \in [Seats -> [gen : Gens, name : Conns \cup {NoConn}]]
    <3> DEFINE s == onSlot["game"]
               name == IF rows[s].gen # 0 THEN onConn["game"] ELSE rows[s].name
    <3>1. s \in Seats /\ rows[s] \in [gen : Gens, name : Conns \cup {NoConn}]
      BY <1>30 DEF HandleJoinMessage, GamePhases, TypeOK, TypeOK
    <3>2. name \in Conns \cup {NoConn}
      BY <3>1 DEF TypeOK, Threads
    <3>3. [rows[s] EXCEPT !.name = name] \in [gen : Gens, name : Conns \cup {NoConn}]
      BY <3>1, <3>2
    <3>4. rows' = [rows EXCEPT ![s] = [@ EXCEPT !.name = name]]
      BY <1>30 DEF HandleJoinMessage, Labels, GamePhases, TypeOK
    <3> QED BY <3>1, <3>3, <3>4 DEF TypeOK
  <2> QED BY <1>30, <2>1 DEF HandleJoinMessage, Labels, TypeOK
<1>31. CASE RefuseJoin
  BY <1>31 DEF RefuseJoin, Labels, TypeOK
<1>32. CASE EndTick
  <2>1. \E l \in {"drain", "more"} : Step("game", l, "idle")
    BY <1>32 DEF EndTick, Labels, TypeOK
  <2>2. "idle" \in Labels /\ "game" \in Threads
    BY DEF Labels, Threads
  <2> HIDE DEF Step
  <2>3. pc' \in [Threads -> Labels] /\ back' = back /\ onSlot' = onSlot /\ onConn' = onConn
    BY <2>1, <2>2, StepType
  <2> QED BY <1>32, <2>3 DEF EndTick, TypeOK
<1>33. ASSUME NEW s \in Seats, CaptureToken(s) PROVE TypeOK'
  <2>1. token' \in [slot : 0..NumSeats, gen : Gens]
    BY <1>33 DEF CaptureToken, TypeOK, Seats, TypeOK
  <2> QED BY <1>33, <2>1 DEF CaptureToken, Labels, TypeOK
<1>34. CASE PostedKick
  <2>1. token' \in [slot : 0..NumSeats, gen : Gens]
    BY <1>34 DEF PostedKick, NoToken, TypeOK, TypeOK
  <2>2. kicks' \in 0..MaxKicks
    BY <1>34, BoundsAssumption DEF PostedKick, GamePhases, TypeOK
  <2>3. (IF token = NoToken THEN NoConn ELSE peerConns[token.slot]) \in Conns \cup {NoConn}
    BY DEF GamePhases, TypeOK
  <2>4. /\ pc' \in [Threads -> Labels] /\ back' \in [Threads -> Labels]
        /\ onSlot' \in [Threads -> 0..NumSeats] /\ onConn' \in [Threads -> Conns \cup {NoConn}]
    BY <1>34, <2>3 DEF PostedKick, GamePhases, TypeOK, Labels
  <2> HIDE DEF StepOn
  <2> QED BY <1>34, <2>1, <2>2, <2>4 DEF PostedKick, TypeOK
<1>35. CASE CheckGeneration
  <2>1. token' \in [slot : 0..NumSeats, gen : Gens]
    BY <1>35 DEF CheckGeneration, NoToken, TypeOK, TypeOK
  <2> QED BY <1>35, <2>1 DEF CheckGeneration, Labels, TypeOK
<1>36. CASE ClaimByHandle
  <2>1. token' \in [slot : 0..NumSeats, gen : Gens]
    BY <1>36 DEF ClaimByHandle, NoToken, TypeOK
  <2>2. peerConns' \in [Seats -> Conns \cup {NoConn}]
    BY <1>36 DEF ClaimByHandle, TypeOK, TypeOK
  <2> QED BY <1>36, <2>1, <2>2 DEF ClaimByHandle, Labels, TypeOK
<1>37. ASSUME NEW c \in Conns, ConnectingEdge(c) PROVE TypeOK'
  BY <1>37, SMTT(60) DEF ConnectingEdge, TypeOK
<1>38. ASSUME NEW c \in Conns, ClosedEdge(c) PROVE TypeOK'
  <2>1. PICK s \in Seats : StepOn("net", "callbacks", "unregister", s, c)
    BY <1>38 DEF ClosedEdge, Labels, Seats, Threads, TypeOK
  <2>2. s \in 0..NumSeats
    BY BoundsAssumption DEF Seats
  <2> QED BY <1>38, <2>1, <2>2 DEF ClosedEdge, Labels, TypeOK
<1>39. ASSUME NEW c \in Conns, ClosedEdgeSlotless(c) PROVE TypeOK'
  BY <1>39, SMTT(60) DEF ClosedEdgeSlotless, Labels, NoSlot, Threads, TypeOK
<1>40. ASSUME NEW c \in Conns, Send(c) PROVE TypeOK'
  BY <1>40 DEF Send, Wire, TypeOK
<1>41. ASSUME NEW s \in Seats, FatalCloseSlot(s) PROVE TypeOK'
  <2>1. s \in 0..NumSeats
    BY BoundsAssumption DEF Seats
  <2> QED BY <1>41, <2>1 DEF FatalCloseSlot, Labels, TypeOK
<1> QED
  BY <1>1, <1>2, <1>3, <1>4, <1>5, <1>6, <1>7, <1>8, <1>9, <1>10, <1>11, <1>12,
      <1>13, <1>14, <1>15, <1>16, <1>17, <1>18, <1>19, <1>20, <1>21, <1>22, <1>23,
      <1>24, <1>25, <1>26, <1>27, <1>28, <1>29, <1>30, <1>31, <1>32, <1>33, <1>34,
      <1>35, <1>36, <1>37, <1>38, <1>39, <1>40, <1>41
  DEF Next, Net, Teardown, HandleBatch, Admit, Tick, AdminKick, Remote, Backlog,
      Threads

\* The net thread's phases.
LEMMA NetStep == LifeInv /\ Next => NetPhases'
<1> SUFFICES ASSUME LifeInv, Next PROVE NetPhases'
  OBVIOUS
<1> USE ConnsAssumption DEF LifeInv, TypeOK, NetPhases, Holding, Wire, BatchOk,
    Step, StepOn, CloseConnection, wireVars, threadVars, slotVars, mintVars,
    adminVars, NetLabels, Tearing, TearSlot, TearAll, Seating, ProofOf, Proving,
    Threads, NoMsg, Pulled
<1>1. ASSUME NEW t \in Threads, Kick(t) PROVE NetPhases'
  BY <1>1 DEF Kick
<1>2. ASSUME NEW t \in Threads, TearLanes(t) PROVE NetPhases'
  BY <1>2 DEF TearLanes
<1>3. ASSUME NEW t \in Threads, ResetPeerRemoteState(t) PROVE NetPhases'
  BY <1>3 DEF ResetPeerRemoteState
<1>4. ASSUME NEW t \in Threads, EraseInbox(t) PROVE NetPhases'
  BY <1>4 DEF EraseInbox
<1>5. ASSUME NEW t \in Threads, ClearGeneration(t) PROVE NetPhases'
  BY <1>5 DEF ClearGeneration
<1>6. ASSUME NEW t \in Threads, ClearGuid(t) PROVE NetPhases'
  BY <1>6 DEF ClearGuid
<1>7. ASSUME NEW t \in Threads, CountPeers(t) PROVE NetPhases'
  BY <1>7 DEF CountPeers
<1>8. ASSUME NEW t \in Threads, Disconnect(t) PROVE NetPhases'
  BY <1>8 DEF Disconnect
<1>9. ASSUME NEW t \in Threads, ResetAllRemoteState(t) PROVE NetPhases'
  BY <1>9 DEF ResetAllRemoteState
<1>10. ASSUME NEW t \in Threads, ClearInbox(t) PROVE NetPhases'
  BY <1>10 DEF ClearInbox
<1>11. CASE Unregister
  BY <1>11 DEF Unregister
<1>12. CASE ReceiveBatch
  BY <1>12 DEF ReceiveBatch
<1>13. ASSUME NEW m \in batch, HandleReliable(m) PROVE NetPhases'
  BY <1>13 DEF HandleReliable
<1>14. ASSUME NEW m \in batch, DropStaleEpoch(m) PROVE NetPhases'
  BY <1>14 DEF DropStaleEpoch
<1>15. ASSUME NEW m \in batch, HandleProof(m) PROVE NetPhases'
  BY <1>15 DEF HandleProof
<1>16. CASE AppendReliable
  BY <1>16 DEF AppendReliable
<1>17. CASE EndPass
  BY <1>17 DEF EndPass
<1>18. CASE MintGeneration
  <2> DEFINE c == handling.conn
  <2>1. c \in Conns /\ Proving(c) /\ \A m \in batch : m.conn # c
    BY <1>18 DEF MintGeneration, NetPhases, ProofOf, Pulled, LifeInv
  <2>2. PICK s \in FreeSeats :
          /\ StepOn("net", "mint", "seat", s, c)
          /\ userData' = [userData EXCEPT ![c] = s]
          /\ peerGen' = [peerGen EXCEPT ![s] = genCounter + 1]
    BY <1>18 DEF MintGeneration
  <2>3. s \in Seats /\ s # 0
    BY BoundsAssumption DEF FreeSeats, Seats
  <2>4. genCounter + 1 \in Nat /\ genCounter + 1 # 0
    BY GensType DEF LifeInv, TypeOK
  <2>5. /\ genOf' = [genOf EXCEPT ![c] = genCounter + 1]
        /\ UNCHANGED <<back, link, unread, sent, batch, handling, peerConns>>
    BY <1>18 DEF MintGeneration
  <2>6. ProofOf(handling') /\ onSlot'["net"] \in Seats /\ genOf'[handling'.conn] # 0
    BY <1>18, <2>1, <2>2, <2>3, <2>4, <2>5 DEF MintGeneration
  <2>7. pc' = [pc EXCEPT !["net"] = "seat"]
    BY <2>2
  <2> HIDE DEF StepOn, MintGeneration
  <2> QED BY <2>6, <2>7
<1>19. CASE RefuseFull
  BY <1>19 DEF RefuseFull
<1>20. CASE TakeSeat
  BY <1>20 DEF TakeSeat
<1>21. CASE ConfigureLanes
  BY <1>21 DEF ConfigureLanes
<1>22. CASE FinishPeerConnected
  BY <1>22 DEF FinishPeerConnected
<1>23. CASE Admitted
  BY <1>23 DEF Admitted
<1>24. CASE PublishGuid
  BY <1>24 DEF PublishGuid
<1>25. CASE Tick
  <2> HIDE DEF LifeInv, TypeOK, Holding, Wire, BatchOk
  <2>1. OthersAlone
    BY <1>25, TickFrame
  <2>2. NetPhases
    BY DEF LifeInv
  <2> QED BY <2>1, <2>2 DEF OthersAlone
<1>26. ASSUME NEW s \in Seats, CaptureToken(s) PROVE NetPhases'
  BY <1>26, SMTT(30) DEF CaptureToken
<1>27. CASE PostedKick
  BY <1>27 DEF PostedKick
<1>28. CASE CheckGeneration
  BY <1>28 DEF CheckGeneration
<1>29. CASE ClaimByHandle
  BY <1>29 DEF ClaimByHandle
<1>30. ASSUME NEW c \in Conns, ConnectingEdge(c) PROVE NetPhases'
  BY <1>30 DEF ConnectingEdge
<1>31. ASSUME NEW c \in Conns, ClosedEdge(c) PROVE NetPhases'
  BY <1>31 DEF ClosedEdge
<1>32. ASSUME NEW c \in Conns, ClosedEdgeSlotless(c) PROVE NetPhases'
  BY <1>32 DEF ClosedEdgeSlotless
<1>33. ASSUME NEW c \in Conns, Send(c) PROVE NetPhases'
  BY <1>33 DEF Send
<1>34. ASSUME NEW s \in Seats, FatalCloseSlot(s) PROVE NetPhases'
  BY <1>34 DEF FatalCloseSlot
<1> QED
  BY <1>1, <1>2, <1>3, <1>4, <1>5, <1>6, <1>7, <1>8, <1>9, <1>10, <1>11, <1>12,
      <1>13, <1>14, <1>15, <1>16, <1>17, <1>18, <1>19, <1>20, <1>21, <1>22, <1>23,
      <1>24, <1>25, <1>26, <1>27, <1>28, <1>29, <1>30, <1>31, <1>32, <1>33, <1>34
  DEF Next, Net, Teardown, HandleBatch, Admit, AdminKick, Remote, Backlog, Threads

\* The game thread's phases.
LEMMA GameStep == LifeInv /\ Next => GamePhases'
<1> SUFFICES ASSUME LifeInv, Next PROVE GamePhases'
  OBVIOUS
<1> USE ConnsAssumption, BoundsAssumption DEF LifeInv, TypeOK, GamePhases, Step,
    StepOn, CloseConnection, wireVars, threadVars, slotVars, mintVars, adminVars,
    GameLabels, Tearing, TearSlot, TearAll, Threads, NoToken, Seats, Queued,
    NetPhases, NetLabels, Seating
<1>1. ASSUME NEW t \in Threads, Kick(t) PROVE GamePhases'
  BY <1>1 DEF Kick
<1>2. ASSUME NEW t \in Threads, TearLanes(t) PROVE GamePhases'
  BY <1>2 DEF TearLanes
<1>3. ASSUME NEW t \in Threads, ResetPeerRemoteState(t) PROVE GamePhases'
  BY <1>3 DEF ResetPeerRemoteState
<1>4. ASSUME NEW t \in Threads, EraseInbox(t) PROVE GamePhases'
  BY <1>4 DEF EraseInbox
<1>5. ASSUME NEW t \in Threads, ClearGeneration(t) PROVE GamePhases'
  BY <1>5 DEF ClearGeneration
<1>6. ASSUME NEW t \in Threads, ClearGuid(t) PROVE GamePhases'
  BY <1>6 DEF ClearGuid
<1>7. ASSUME NEW t \in Threads, CountPeers(t) PROVE GamePhases'
  BY <1>7 DEF CountPeers
<1>8. ASSUME NEW t \in Threads, Disconnect(t) PROVE GamePhases'
  BY <1>8 DEF Disconnect
<1>9. ASSUME NEW t \in Threads, ResetAllRemoteState(t) PROVE GamePhases'
  BY <1>9 DEF ResetAllRemoteState
<1>10. ASSUME NEW t \in Threads, ClearInbox(t) PROVE GamePhases'
  BY <1>10 DEF ClearInbox
<1>11. CASE Unregister
  BY <1>11 DEF Unregister
<1>12. CASE ReceiveBatch
  BY <1>12 DEF ReceiveBatch
<1>13. ASSUME NEW m \in batch, HandleReliable(m) PROVE GamePhases'
  BY <1>13 DEF HandleReliable
<1>14. ASSUME NEW m \in batch, DropStaleEpoch(m) PROVE GamePhases'
  BY <1>14 DEF DropStaleEpoch
<1>15. ASSUME NEW m \in batch, HandleProof(m) PROVE GamePhases'
  BY <1>15 DEF HandleProof
<1>16. CASE AppendReliable
  BY <1>16 DEF AppendReliable
<1>17. CASE EndPass
  BY <1>17 DEF EndPass
<1>18. CASE MintGeneration
  BY <1>18 DEF MintGeneration
<1>19. CASE RefuseFull
  BY <1>19 DEF RefuseFull
<1>20. CASE TakeSeat
  BY <1>20 DEF TakeSeat
<1>21. CASE ConfigureLanes
  BY <1>21 DEF ConfigureLanes
<1>22. CASE FinishPeerConnected
  BY <1>22 DEF FinishPeerConnected
<1>23. CASE Admitted
  BY <1>23 DEF Admitted
<1>24. CASE PublishGuid
  BY <1>24 DEF PublishGuid
<1>25. CASE BeginTick
  BY <1>25 DEF BeginTick
<1>26. CASE ReconcileDeath
  BY <1>26 DEF ReconcileDeath
<1>27. CASE ReconcileBirth
  <2> DEFINE s == onSlot["game"]
  <2>1. s \in Seats /\ UNCHANGED <<back, token, kicks>>
    BY <1>27 DEF ReconcileBirth
  <2>2. \/ StepOn("game", "birth", "drain", NoSlot, NoConn)
        \/ s # NumSeats /\ StepOn("game", "birth", "reconcile", s + 1, NoConn)
    BY <1>27 DEF ReconcileBirth
  <2>3. \/ pc'["game"] = "drain"
        \/ pc'["game"] = "reconcile" /\ onSlot'["game"] = s + 1 /\ s # NumSeats
    BY <2>2
  <2>4. s # NumSeats => s + 1 \in Seats
    BY <2>1
  <2>5. token # NoToken => kicks < MaxKicks /\ token.slot \in Seats /\ token.gen # 0
    BY <2>2
  <2> HIDE DEF LifeInv, TypeOK, NetPhases, StepOn, s
  <2> QED BY <2>1, <2>3, <2>4, <2>5
<1>28. CASE PopReliable
  <2>1. PICK l \in Draining : Step("game", l, "more")
    BY <1>28 DEF PopReliable
  <2>2. pc' = [pc EXCEPT !["game"] = "more"] /\ UNCHANGED <<back, onSlot, onConn, token, kicks>>
    BY <1>28, <2>1 DEF PopReliable
  <2>3. pc["game"] \in {"drain", "more"}
    BY <2>1 DEF Draining
  <2> QED BY <2>2, <2>3
<1>29. CASE PopJoin
  <2>1. PICK l \in Draining :
          StepOn("game", l, "dispatch", Head(inbox).slot, Head(inbox).conn)
    BY <1>29 DEF PopJoin
  <2>2. Head(inbox) \in Queued
    <3> HIDE DEF Queued, Seats
    <3> QED BY <1>29 DEF PopJoin
  <2>3. /\ pc' = [pc EXCEPT !["game"] = "dispatch"] /\ onSlot'["game"] \in Seats
        /\ UNCHANGED <<back, token, kicks>>
    BY <1>29, <2>1, <2>2 DEF PopJoin
  <2>4. pc["game"] \in {"drain", "more"}
    BY <2>1 DEF Draining
  <2> QED BY <2>3, <2>4
<1>30. CASE HandleJoinMessage
  BY <1>30 DEF HandleJoinMessage
<1>31. CASE RefuseJoin
  BY <1>31 DEF RefuseJoin
<1>32. CASE EndTick
  BY <1>32 DEF EndTick
<1>33. ASSUME NEW s \in Seats, CaptureToken(s) PROVE GamePhases'
  BY <1>33 DEF CaptureToken
<1>34. CASE PostedKick
  BY <1>34 DEF PostedKick
<1>35. CASE CheckGeneration
  BY <1>35 DEF CheckGeneration
<1>36. CASE ClaimByHandle
  <2>1. /\ pc["game"] = "claim" /\ token # NoToken /\ onSlot["game"] \in Seats
        /\ pc' = [pc EXCEPT !["game"] = IF peerConns[onSlot["game"]] = onConn["game"]
                                          THEN "tearLanes" ELSE "idle"]
        /\ UNCHANGED <<back, onSlot, onConn, kicks>> /\ token' = NoToken
    BY <1>36 DEF ClaimByHandle
  <2>2. pc'["game"] \in {"tearLanes", "idle"}
    BY <2>1
  <2>3. pc'["game"] = "tearLanes" => back'["game"] \in {"idle", "more"}
    BY <2>1
  <2> QED BY <2>1, <2>2, <2>3
<1>37. ASSUME NEW c \in Conns, ConnectingEdge(c) PROVE GamePhases'
  BY <1>37 DEF ConnectingEdge
<1>38. ASSUME NEW c \in Conns, ClosedEdge(c) PROVE GamePhases'
  BY <1>38 DEF ClosedEdge
<1>39. ASSUME NEW c \in Conns, ClosedEdgeSlotless(c) PROVE GamePhases'
  BY <1>39 DEF ClosedEdgeSlotless
<1>40. ASSUME NEW c \in Conns, Send(c) PROVE GamePhases'
  BY <1>40 DEF Send
<1>41. ASSUME NEW s \in Seats, FatalCloseSlot(s) PROVE GamePhases'
  BY <1>41 DEF FatalCloseSlot
<1> QED
  BY <1>1, <1>2, <1>3, <1>4, <1>5, <1>6, <1>7, <1>8, <1>9, <1>10, <1>11, <1>12,
      <1>13, <1>14, <1>15, <1>16, <1>17, <1>18, <1>19, <1>20, <1>21, <1>22, <1>23,
      <1>24, <1>25, <1>26, <1>27, <1>28, <1>29, <1>30, <1>31, <1>32, <1>33, <1>34,
      <1>35, <1>36, <1>37, <1>38, <1>39, <1>40, <1>41
  DEF Next, Net, Teardown, HandleBatch, Admit, Tick, AdminKick, Remote, Backlog,
      Threads

\* A handle that a thread works on, or a seat holds, has its generation.
LEMMA HoldingStep == LifeInv /\ Next => Holding'
<1> SUFFICES ASSUME LifeInv, Next PROVE Holding'
  OBVIOUS
<1> USE ConnsAssumption, BoundsAssumption DEF LifeInv, TypeOK, NetPhases,
    GamePhases, Holding, Wire, Step, StepOn, CloseConnection, wireVars,
    threadVars, slotVars, mintVars, adminVars, NetLabels, Tearing, TearSlot,
    TearAll, Seating, ProofOf, Proving, Threads, NoMsg, Pulled
<1>1. ASSUME NEW t \in Threads, Kick(t) PROVE Holding'
  BY <1>1 DEF Kick
<1>2. ASSUME NEW t \in Threads, TearLanes(t) PROVE Holding'
  BY <1>2 DEF TearLanes
<1>3. ASSUME NEW t \in Threads, ResetPeerRemoteState(t) PROVE Holding'
  BY <1>3 DEF ResetPeerRemoteState
<1>4. ASSUME NEW t \in Threads, EraseInbox(t) PROVE Holding'
  BY <1>4 DEF EraseInbox
<1>5. ASSUME NEW t \in Threads, ClearGeneration(t) PROVE Holding'
  BY <1>5 DEF ClearGeneration
<1>6. ASSUME NEW t \in Threads, ClearGuid(t) PROVE Holding'
  BY <1>6 DEF ClearGuid
<1>7. ASSUME NEW t \in Threads, CountPeers(t) PROVE Holding'
  BY <1>7 DEF CountPeers
<1>8. ASSUME NEW t \in Threads, Disconnect(t) PROVE Holding'
  BY <1>8 DEF Disconnect
<1>9. ASSUME NEW t \in Threads, ResetAllRemoteState(t) PROVE Holding'
  BY <1>9 DEF ResetAllRemoteState
<1>10. ASSUME NEW t \in Threads, ClearInbox(t) PROVE Holding'
  BY <1>10 DEF ClearInbox
<1>11. CASE Unregister
  BY <1>11 DEF Unregister
<1>12. CASE ReceiveBatch
  BY <1>12 DEF ReceiveBatch
<1>13. ASSUME NEW m \in batch, HandleReliable(m) PROVE Holding'
  BY <1>13 DEF HandleReliable
<1>14. ASSUME NEW m \in batch, DropStaleEpoch(m) PROVE Holding'
  BY <1>14 DEF DropStaleEpoch
<1>15. ASSUME NEW m \in batch, HandleProof(m) PROVE Holding'
  BY <1>15 DEF HandleProof
<1>16. CASE AppendReliable
  BY <1>16 DEF AppendReliable
<1>17. CASE EndPass
  BY <1>17 DEF EndPass
<1>18. CASE MintGeneration
  <2> DEFINE c == handling.conn
  <2>1. c \in Conns /\ Proving(c) /\ \A m \in batch : m.conn # c
    BY <1>18 DEF MintGeneration, NetPhases, ProofOf, Pulled, LifeInv
  <2>2. PICK s \in FreeSeats :
          /\ StepOn("net", "mint", "seat", s, c)
          /\ userData' = [userData EXCEPT ![c] = s]
          /\ peerGen' = [peerGen EXCEPT ![s] = genCounter + 1]
    BY <1>18 DEF MintGeneration
  <2>3. s \in Seats /\ s # 0
    BY BoundsAssumption DEF FreeSeats, Seats
  <2>4. genCounter + 1 \in Nat /\ genCounter + 1 # 0
    BY GensType DEF LifeInv, TypeOK
  <2>5. /\ genOf' = [genOf EXCEPT ![c] = genCounter + 1]
        /\ UNCHANGED <<back, link, unread, sent, batch, handling, peerConns>>
    BY <1>18 DEF MintGeneration
  <2>6. \A d \in Conns : genOf[d] # 0 => genOf'[d] # 0
    BY <2>1, <2>4, <2>5
  <2>7. /\ pc' = [pc EXCEPT !["net"] = "seat"]
        /\ onConn' = [onConn EXCEPT !["net"] = c]
    BY <2>2
  <2> HIDE DEF StepOn, MintGeneration
  <2> QED BY <2>5, <2>6, <2>7
<1>19. CASE RefuseFull
  BY <1>19 DEF RefuseFull
<1>20. CASE TakeSeat
  BY <1>20 DEF TakeSeat
<1>21. CASE ConfigureLanes
  BY <1>21 DEF ConfigureLanes
<1>22. CASE FinishPeerConnected
  BY <1>22 DEF FinishPeerConnected
<1>23. CASE Admitted
  BY <1>23 DEF Admitted
<1>24. CASE PublishGuid
  BY <1>24 DEF PublishGuid
<1>25. CASE Tick
  <2> HIDE DEF LifeInv, TypeOK, NetPhases, GamePhases, Wire
  <2>1. OthersAlone
    BY <1>25, TickFrame
  <2>2. Holding
    BY DEF LifeInv
  <2> QED BY <2>1, <2>2 DEF OthersAlone
<1>26. ASSUME NEW s \in Seats, CaptureToken(s) PROVE Holding'
  BY <1>26, SMTT(30) DEF CaptureToken
<1>27. CASE PostedKick
  BY <1>27 DEF PostedKick
<1>28. CASE CheckGeneration
  BY <1>28 DEF CheckGeneration
<1>29. CASE ClaimByHandle
  BY <1>29 DEF ClaimByHandle
<1>30. ASSUME NEW c \in Conns, ConnectingEdge(c) PROVE Holding'
  BY <1>30 DEF ConnectingEdge
<1>31. ASSUME NEW c \in Conns, ClosedEdge(c) PROVE Holding'
  BY <1>31 DEF ClosedEdge
<1>32. ASSUME NEW c \in Conns, ClosedEdgeSlotless(c) PROVE Holding'
  BY <1>32 DEF ClosedEdgeSlotless
<1>33. ASSUME NEW c \in Conns, Send(c) PROVE Holding'
  BY <1>33 DEF Send
<1>34. ASSUME NEW s \in Seats, FatalCloseSlot(s) PROVE Holding'
  BY <1>34 DEF FatalCloseSlot
<1> QED
  BY <1>1, <1>2, <1>3, <1>4, <1>5, <1>6, <1>7, <1>8, <1>9, <1>10, <1>11, <1>12,
      <1>13, <1>14, <1>15, <1>16, <1>17, <1>18, <1>19, <1>20, <1>21, <1>22, <1>23,
      <1>24, <1>25, <1>26, <1>27, <1>28, <1>29, <1>30, <1>31, <1>32, <1>33, <1>34
  DEF Next, Net, Teardown, HandleBatch, Admit, AdminKick, Remote, Backlog, Threads

\* What is on the wire fits the life of its connection.
LEMMA WireStep == LifeInv /\ Next => Wire'
<1> SUFFICES ASSUME LifeInv, Next PROVE Wire'
  OBVIOUS
<1> USE ConnsAssumption, BoundsAssumption DEF LifeInv, TypeOK, NetPhases, Holding,
    Wire, BatchOk, Step, StepOn, CloseConnection, wireVars, threadVars, slotVars,
    mintVars, adminVars, NetLabels, Tearing, TearSlot, TearAll, Seating, ProofOf,
    Proving, Threads, NoMsg, Pulled
<1>1. ASSUME NEW t \in Threads, Kick(t) PROVE Wire'
  BY <1>1 DEF Kick
<1>2. ASSUME NEW t \in Threads, TearLanes(t) PROVE Wire'
  BY <1>2 DEF TearLanes
<1>3. ASSUME NEW t \in Threads, ResetPeerRemoteState(t) PROVE Wire'
  BY <1>3 DEF ResetPeerRemoteState
<1>4. ASSUME NEW t \in Threads, EraseInbox(t) PROVE Wire'
  BY <1>4 DEF EraseInbox
<1>5. ASSUME NEW t \in Threads, ClearGeneration(t) PROVE Wire'
  BY <1>5 DEF ClearGeneration
<1>6. ASSUME NEW t \in Threads, ClearGuid(t) PROVE Wire'
  BY <1>6 DEF ClearGuid
<1>7. ASSUME NEW t \in Threads, CountPeers(t) PROVE Wire'
  BY <1>7 DEF CountPeers
<1>8. ASSUME NEW t \in Threads, Disconnect(t) PROVE Wire'
  BY <1>8 DEF Disconnect
<1>9. ASSUME NEW t \in Threads, ResetAllRemoteState(t) PROVE Wire'
  BY <1>9 DEF ResetAllRemoteState
<1>10. ASSUME NEW t \in Threads, ClearInbox(t) PROVE Wire'
  BY <1>10 DEF ClearInbox
<1>11. CASE Unregister
  BY <1>11 DEF Unregister
<1>12. CASE ReceiveBatch
  BY <1>12 DEF ReceiveBatch
<1>13. ASSUME NEW m \in batch, HandleReliable(m) PROVE Wire'
  BY <1>13 DEF HandleReliable
<1>14. ASSUME NEW m \in batch, DropStaleEpoch(m) PROVE Wire'
  BY <1>14 DEF DropStaleEpoch
<1>15. ASSUME NEW m \in batch, HandleProof(m) PROVE Wire'
  BY <1>15 DEF HandleProof
<1>16. CASE AppendReliable
  BY <1>16 DEF AppendReliable
<1>17. CASE EndPass
  BY <1>17 DEF EndPass
<1>18. CASE MintGeneration
  <2> DEFINE c == handling.conn
  <2>1. c \in Conns /\ Proving(c) /\ \A m \in batch : m.conn # c
    BY <1>18 DEF MintGeneration, NetPhases, ProofOf, Pulled, LifeInv
  <2>2. PICK s \in FreeSeats :
          /\ StepOn("net", "mint", "seat", s, c)
          /\ userData' = [userData EXCEPT ![c] = s]
          /\ peerGen' = [peerGen EXCEPT ![s] = genCounter + 1]
    BY <1>18 DEF MintGeneration
  <2>3. s \in Seats /\ s # 0
    BY BoundsAssumption DEF FreeSeats, Seats
  <2>4. genCounter + 1 \in Nat /\ genCounter + 1 # 0
    BY GensType DEF LifeInv, TypeOK
  <2>5. /\ genOf' = [genOf EXCEPT ![c] = genCounter + 1]
        /\ UNCHANGED <<back, link, unread, sent, batch, handling, peerConns>>
    BY <1>18 DEF MintGeneration
  <2>6. genOf'[c] # 0 /\ userData'[c] # 0 /\ link[c] = "pending" /\ 0 \notin unread[c]
    BY <2>1, <2>2, <2>3, <2>4, <2>5
  <2>7. \A d \in Conns \ {c} : genOf'[d] = genOf[d] /\ userData'[d] = userData[d]
    BY <2>1, <2>2, <2>5
  <2> HIDE DEF StepOn, MintGeneration
  <2> QED BY <2>5, <2>6, <2>7
<1>19. CASE RefuseFull
  BY <1>19 DEF RefuseFull
<1>20. CASE TakeSeat
  BY <1>20 DEF TakeSeat
<1>21. CASE ConfigureLanes
  BY <1>21 DEF ConfigureLanes
<1>22. CASE FinishPeerConnected
  BY <1>22 DEF FinishPeerConnected
<1>23. CASE Admitted
  BY <1>23 DEF Admitted
<1>24. CASE PublishGuid
  BY <1>24 DEF PublishGuid
<1>25. CASE Tick
  <2> HIDE DEF LifeInv, TypeOK, NetPhases, Holding, BatchOk
  <2>1. OthersAlone
    BY <1>25, TickFrame
  <2>2. Wire
    BY DEF LifeInv
  <2> QED BY <2>1, <2>2 DEF OthersAlone
<1>26. ASSUME NEW s \in Seats, CaptureToken(s) PROVE Wire'
  BY <1>26, SMTT(30) DEF CaptureToken
<1>27. CASE PostedKick
  BY <1>27 DEF PostedKick
<1>28. CASE CheckGeneration
  BY <1>28 DEF CheckGeneration
<1>29. CASE ClaimByHandle
  BY <1>29 DEF ClaimByHandle
<1>30. ASSUME NEW c \in Conns, ConnectingEdge(c) PROVE Wire'
  BY <1>30 DEF ConnectingEdge
<1>31. ASSUME NEW c \in Conns, ClosedEdge(c) PROVE Wire'
  BY <1>31 DEF ClosedEdge
<1>32. ASSUME NEW c \in Conns, ClosedEdgeSlotless(c) PROVE Wire'
  BY <1>32 DEF ClosedEdgeSlotless
<1>33. ASSUME NEW c \in Conns, Send(c) PROVE Wire'
  BY <1>33, SMTT(60) DEF Send
<1>34. ASSUME NEW s \in Seats, FatalCloseSlot(s) PROVE Wire'
  BY <1>34 DEF FatalCloseSlot
<1> QED
  BY <1>1, <1>2, <1>3, <1>4, <1>5, <1>6, <1>7, <1>8, <1>9, <1>10, <1>11, <1>12,
      <1>13, <1>14, <1>15, <1>16, <1>17, <1>18, <1>19, <1>20, <1>21, <1>22, <1>23,
      <1>24, <1>25, <1>26, <1>27, <1>28, <1>29, <1>30, <1>31, <1>32, <1>33, <1>34
  DEF Next, Net, Teardown, HandleBatch, Admit, AdminKick, Remote, Backlog, Threads

\* What is in the batch fits it too.
LEMMA BatchStep == LifeInv /\ Next => BatchOk'
<1> SUFFICES ASSUME LifeInv, Next PROVE BatchOk'
  OBVIOUS
<1> USE ConnsAssumption, BoundsAssumption DEF LifeInv, TypeOK, NetPhases, Holding,
    Wire, BatchOk, Step, StepOn, CloseConnection, wireVars, threadVars, slotVars,
    mintVars, adminVars, NetLabels, Tearing, TearSlot, TearAll, Seating, ProofOf,
    Proving, Threads, NoMsg, Pulled
<1>1. ASSUME NEW t \in Threads, Kick(t) PROVE BatchOk'
  BY <1>1 DEF Kick
<1>2. ASSUME NEW t \in Threads, TearLanes(t) PROVE BatchOk'
  BY <1>2 DEF TearLanes
<1>3. ASSUME NEW t \in Threads, ResetPeerRemoteState(t) PROVE BatchOk'
  BY <1>3 DEF ResetPeerRemoteState
<1>4. ASSUME NEW t \in Threads, EraseInbox(t) PROVE BatchOk'
  BY <1>4 DEF EraseInbox
<1>5. ASSUME NEW t \in Threads, ClearGeneration(t) PROVE BatchOk'
  BY <1>5 DEF ClearGeneration
<1>6. ASSUME NEW t \in Threads, ClearGuid(t) PROVE BatchOk'
  BY <1>6 DEF ClearGuid
<1>7. ASSUME NEW t \in Threads, CountPeers(t) PROVE BatchOk'
  BY <1>7 DEF CountPeers
<1>8. ASSUME NEW t \in Threads, Disconnect(t) PROVE BatchOk'
  BY <1>8 DEF Disconnect
<1>9. ASSUME NEW t \in Threads, ResetAllRemoteState(t) PROVE BatchOk'
  BY <1>9 DEF ResetAllRemoteState
<1>10. ASSUME NEW t \in Threads, ClearInbox(t) PROVE BatchOk'
  BY <1>10 DEF ClearInbox
<1>11. CASE Unregister
  BY <1>11 DEF Unregister
<1>12. CASE ReceiveBatch
  <2>1. PICK B \in SUBSET Arrived \ {{}} :
          /\ batch' = B
          /\ unread' = [c \in Conns |-> {n \in unread[c] :
                                           \A m \in B : ~(m.conn = c /\ m.n = n)}]
    BY <1>12 DEF ReceiveBatch
  <2>2. UNCHANGED <<link, userData, genOf>>
    BY <1>12 DEF ReceiveBatch
  <2>3. ASSUME NEW m \in B
        PROVE  /\ m \in Pulled /\ m.conn \in Conns
               /\ m.n \in unread[m.conn] /\ m.ud = userData[m.conn]
    BY DEF Arrived
  <2>4. ASSUME NEW m \in B
        PROVE  m.n \notin unread'[m.conn]
    BY <2>1, <2>3
  <2>5. ASSUME NEW m \in B
        PROVE  /\ m.n = 0 <=> m.ud = 0
               /\ m.n = 0 => link[m.conn] = "pending" /\ userData[m.conn] = 0
                                /\ genOf[m.conn] = 0
               /\ m.n # 0 => genOf[m.conn] # 0
    BY <2>3
  <2> QED BY <2>1, <2>2, <2>3, <2>4, <2>5
<1>13. ASSUME NEW m \in batch, HandleReliable(m) PROVE BatchOk'
  BY <1>13 DEF HandleReliable
<1>14. ASSUME NEW m \in batch, DropStaleEpoch(m) PROVE BatchOk'
  BY <1>14 DEF DropStaleEpoch
<1>15. ASSUME NEW m \in batch, HandleProof(m) PROVE BatchOk'
  BY <1>15 DEF HandleProof
<1>16. CASE AppendReliable
  BY <1>16 DEF AppendReliable
<1>17. CASE EndPass
  BY <1>17 DEF EndPass
<1>18. CASE MintGeneration
  <2> DEFINE c == handling.conn
  <2>1. c \in Conns /\ Proving(c) /\ \A m \in batch : m.conn # c
    BY <1>18 DEF MintGeneration, NetPhases, ProofOf, Pulled, LifeInv
  <2>2. PICK s \in FreeSeats :
          /\ StepOn("net", "mint", "seat", s, c)
          /\ userData' = [userData EXCEPT ![c] = s]
          /\ peerGen' = [peerGen EXCEPT ![s] = genCounter + 1]
    BY <1>18 DEF MintGeneration
  <2>3. s \in Seats /\ s # 0
    BY BoundsAssumption DEF FreeSeats, Seats
  <2>4. genCounter + 1 \in Nat /\ genCounter + 1 # 0
    BY GensType DEF LifeInv, TypeOK
  <2>5. /\ genOf' = [genOf EXCEPT ![c] = genCounter + 1]
        /\ UNCHANGED <<back, link, unread, sent, batch, handling, peerConns>>
    BY <1>18 DEF MintGeneration
  <2>6. \A d \in Conns \ {c} : genOf'[d] = genOf[d] /\ userData'[d] = userData[d]
    BY <2>1, <2>2, <2>5
  <2>7. \A m \in batch : m.conn \in Conns \ {c}
    BY <2>1
  <2> HIDE DEF StepOn, MintGeneration
  <2> QED BY <2>5, <2>6, <2>7
<1>19. CASE RefuseFull
  BY <1>19 DEF RefuseFull
<1>20. CASE TakeSeat
  BY <1>20 DEF TakeSeat
<1>21. CASE ConfigureLanes
  BY <1>21 DEF ConfigureLanes
<1>22. CASE FinishPeerConnected
  BY <1>22 DEF FinishPeerConnected
<1>23. CASE Admitted
  BY <1>23 DEF Admitted
<1>24. CASE PublishGuid
  BY <1>24 DEF PublishGuid
<1>25. CASE Tick
  <2> HIDE DEF LifeInv, TypeOK, NetPhases, Holding, Wire
  <2>1. OthersAlone
    BY <1>25, TickFrame
  <2>2. BatchOk
    BY DEF LifeInv
  <2> QED BY <2>1, <2>2 DEF OthersAlone
<1>26. ASSUME NEW s \in Seats, CaptureToken(s) PROVE BatchOk'
  BY <1>26, SMTT(30) DEF CaptureToken
<1>27. CASE PostedKick
  BY <1>27 DEF PostedKick
<1>28. CASE CheckGeneration
  BY <1>28 DEF CheckGeneration
<1>29. CASE ClaimByHandle
  BY <1>29 DEF ClaimByHandle
<1>30. ASSUME NEW c \in Conns, ConnectingEdge(c) PROVE BatchOk'
  BY <1>30 DEF ConnectingEdge
<1>31. ASSUME NEW c \in Conns, ClosedEdge(c) PROVE BatchOk'
  BY <1>31 DEF ClosedEdge
<1>32. ASSUME NEW c \in Conns, ClosedEdgeSlotless(c) PROVE BatchOk'
  BY <1>32 DEF ClosedEdgeSlotless
<1>33. ASSUME NEW c \in Conns, Send(c) PROVE BatchOk'
  BY <1>33 DEF Send
<1>34. ASSUME NEW s \in Seats, FatalCloseSlot(s) PROVE BatchOk'
  BY <1>34 DEF FatalCloseSlot
<1> QED
  BY <1>1, <1>2, <1>3, <1>4, <1>5, <1>6, <1>7, <1>8, <1>9, <1>10, <1>11, <1>12,
      <1>13, <1>14, <1>15, <1>16, <1>17, <1>18, <1>19, <1>20, <1>21, <1>22, <1>23,
      <1>24, <1>25, <1>26, <1>27, <1>28, <1>29, <1>30, <1>31, <1>32, <1>33, <1>34
  DEF Next, Net, Teardown, HandleBatch, Admit, AdminKick, Remote, Backlog, Threads

\* One generation per handle that has one.
LEMMA MintStep == LifeInv /\ Next => Minted'
<1> SUFFICES ASSUME LifeInv, Next PROVE Minted'
  OBVIOUS
<1> USE DEF LifeInv, Minted, Step, StepOn, mintVars
<1>1. ASSUME NEW t \in Threads, Kick(t) PROVE Minted'
  BY <1>1 DEF Kick
<1>2. ASSUME NEW t \in Threads, TearLanes(t) PROVE Minted'
  BY <1>2 DEF TearLanes
<1>3. ASSUME NEW t \in Threads, ResetPeerRemoteState(t) PROVE Minted'
  BY <1>3 DEF ResetPeerRemoteState
<1>4. ASSUME NEW t \in Threads, EraseInbox(t) PROVE Minted'
  BY <1>4 DEF EraseInbox
<1>5. ASSUME NEW t \in Threads, ClearGeneration(t) PROVE Minted'
  BY <1>5 DEF ClearGeneration
<1>6. ASSUME NEW t \in Threads, ClearGuid(t) PROVE Minted'
  BY <1>6 DEF ClearGuid
<1>7. ASSUME NEW t \in Threads, CountPeers(t) PROVE Minted'
  BY <1>7 DEF CountPeers
<1>8. ASSUME NEW t \in Threads, Disconnect(t) PROVE Minted'
  BY <1>8 DEF Disconnect
<1>9. ASSUME NEW t \in Threads, ResetAllRemoteState(t) PROVE Minted'
  BY <1>9 DEF ResetAllRemoteState
<1>10. ASSUME NEW t \in Threads, ClearInbox(t) PROVE Minted'
  BY <1>10 DEF ClearInbox
<1>11. CASE Unregister
  BY <1>11 DEF Unregister
<1>12. CASE ReceiveBatch
  BY <1>12 DEF ReceiveBatch
<1>13. ASSUME NEW m \in batch, HandleReliable(m) PROVE Minted'
  BY <1>13 DEF HandleReliable
<1>14. ASSUME NEW m \in batch, DropStaleEpoch(m) PROVE Minted'
  BY <1>14 DEF DropStaleEpoch
<1>15. ASSUME NEW m \in batch, HandleProof(m) PROVE Minted'
  BY <1>15 DEF HandleProof
<1>16. CASE AppendReliable
  BY <1>16 DEF AppendReliable
<1>17. CASE EndPass
  BY <1>17 DEF EndPass
<1>18. CASE MintGeneration
  <2> DEFINE c == handling.conn
  <2>1. c \in Conns /\ Proving(c) /\ \A m \in batch : m.conn # c
    BY <1>18 DEF MintGeneration, NetPhases, ProofOf, Pulled, LifeInv
  <2>2. PICK s \in FreeSeats :
          /\ StepOn("net", "mint", "seat", s, c)
          /\ userData' = [userData EXCEPT ![c] = s]
          /\ peerGen' = [peerGen EXCEPT ![s] = genCounter + 1]
    BY <1>18 DEF MintGeneration
  <2>3. s \in Seats /\ s # 0
    BY BoundsAssumption DEF FreeSeats, Seats
  <2>4. genCounter + 1 \in Nat /\ genCounter + 1 # 0
    BY GensType DEF LifeInv, TypeOK
  <2>5. /\ genOf' = [genOf EXCEPT ![c] = genCounter + 1]
        /\ UNCHANGED <<back, link, unread, sent, batch, handling, peerConns>>
    BY <1>18 DEF MintGeneration
  <2>6. IsFiniteSet({d \in Conns : genOf[d] # 0}) /\ c \notin {d \in Conns : genOf[d] # 0}
    BY <2>1, FS_Subset, ConnsAssumption DEF Proving
  <2>7. {d \in Conns : genOf'[d] # 0} = {d \in Conns : genOf[d] # 0} \cup {c}
    BY <2>1, <2>4, <2>5 DEF LifeInv, TypeOK
  <2>8. genCounter' = genCounter + 1
    BY <1>18 DEF MintGeneration
  <2> QED BY <2>6, <2>7, <2>8, FS_AddElement DEF Minted, LifeInv
<1>19. CASE RefuseFull
  BY <1>19 DEF RefuseFull
<1>20. CASE TakeSeat
  BY <1>20 DEF TakeSeat
<1>21. CASE ConfigureLanes
  BY <1>21 DEF ConfigureLanes
<1>22. CASE FinishPeerConnected
  BY <1>22 DEF FinishPeerConnected
<1>23. CASE Admitted
  BY <1>23 DEF Admitted
<1>24. CASE PublishGuid
  BY <1>24 DEF PublishGuid
<1>25. CASE Tick
  <2> HIDE DEF LifeInv
  <2>1. OthersAlone
    BY <1>25, TickFrame
  <2>2. Minted
    BY DEF LifeInv
  <2> QED BY <2>1, <2>2 DEF OthersAlone
<1>26. ASSUME NEW s \in Seats, CaptureToken(s) PROVE Minted'
  BY <1>26, SMTT(30) DEF CaptureToken
<1>27. CASE PostedKick
  BY <1>27 DEF PostedKick
<1>28. CASE CheckGeneration
  BY <1>28 DEF CheckGeneration
<1>29. CASE ClaimByHandle
  BY <1>29 DEF ClaimByHandle
<1>30. ASSUME NEW c \in Conns, ConnectingEdge(c) PROVE Minted'
  BY <1>30 DEF ConnectingEdge
<1>31. ASSUME NEW c \in Conns, ClosedEdge(c) PROVE Minted'
  BY <1>31 DEF ClosedEdge
<1>32. ASSUME NEW c \in Conns, ClosedEdgeSlotless(c) PROVE Minted'
  BY <1>32 DEF ClosedEdgeSlotless
<1>33. ASSUME NEW c \in Conns, Send(c) PROVE Minted'
  BY <1>33 DEF Send
<1>34. ASSUME NEW s \in Seats, FatalCloseSlot(s) PROVE Minted'
  BY <1>34 DEF FatalCloseSlot
<1> QED
  BY <1>1, <1>2, <1>3, <1>4, <1>5, <1>6, <1>7, <1>8, <1>9, <1>10, <1>11, <1>12,
      <1>13, <1>14, <1>15, <1>16, <1>17, <1>18, <1>19, <1>20, <1>21, <1>22, <1>23,
      <1>24, <1>25, <1>26, <1>27, <1>28, <1>29, <1>30, <1>31, <1>32, <1>33, <1>34
  DEF Next, Net, Teardown, HandleBatch, Admit, AdminKick, Remote, Backlog, Threads

\* No handle has two seats, and a seated one is open.
LEMMA SeatStep == LifeInv /\ SeatInv /\ Next => SeatInv'
<1> SUFFICES ASSUME LifeInv /\ SeatInv, Next PROVE SeatInv'
  OBVIOUS
<1> USE ConnsAssumption, BoundsAssumption DEF LifeInv, TypeOK, NetPhases,
    GamePhases, GameLabels, Holding, Wire, SeatInv, Step, StepOn, CloseConnection,
    wireVars, threadVars, slotVars, mintVars, adminVars, NetLabels, Tearing,
    TearSlot, TearAll, Seating, ProofOf, Proving, Threads, NoMsg, Pulled
<1>1. ASSUME NEW t \in Threads, Kick(t) PROVE SeatInv'
  BY <1>1 DEF Kick
<1>2. ASSUME NEW t \in Threads, TearLanes(t) PROVE SeatInv'
  BY <1>2 DEF TearLanes
<1>3. ASSUME NEW t \in Threads, ResetPeerRemoteState(t) PROVE SeatInv'
  BY <1>3 DEF ResetPeerRemoteState
<1>4. ASSUME NEW t \in Threads, EraseInbox(t) PROVE SeatInv'
  BY <1>4 DEF EraseInbox
<1>5. ASSUME NEW t \in Threads, ClearGeneration(t) PROVE SeatInv'
  BY <1>5 DEF ClearGeneration
<1>6. ASSUME NEW t \in Threads, ClearGuid(t) PROVE SeatInv'
  BY <1>6 DEF ClearGuid
<1>7. ASSUME NEW t \in Threads, CountPeers(t) PROVE SeatInv'
  BY <1>7 DEF CountPeers
<1>8. ASSUME NEW t \in Threads, Disconnect(t) PROVE SeatInv'
  BY <1>8 DEF Disconnect
<1>9. ASSUME NEW t \in Threads, ResetAllRemoteState(t) PROVE SeatInv'
  BY <1>9 DEF ResetAllRemoteState
<1>10. ASSUME NEW t \in Threads, ClearInbox(t) PROVE SeatInv'
  BY <1>10 DEF ClearInbox
<1>11. CASE Unregister
  BY <1>11 DEF Unregister
<1>12. CASE ReceiveBatch
  BY <1>12 DEF ReceiveBatch
<1>13. ASSUME NEW m \in batch, HandleReliable(m) PROVE SeatInv'
  BY <1>13 DEF HandleReliable
<1>14. ASSUME NEW m \in batch, DropStaleEpoch(m) PROVE SeatInv'
  BY <1>14 DEF DropStaleEpoch
<1>15. ASSUME NEW m \in batch, HandleProof(m) PROVE SeatInv'
  BY <1>15 DEF HandleProof
<1>16. CASE AppendReliable
  BY <1>16 DEF AppendReliable
<1>17. CASE EndPass
  BY <1>17 DEF EndPass
<1>18. CASE MintGeneration
  <2> DEFINE c == handling.conn
  <2>1. c \in Conns /\ Proving(c) /\ \A m \in batch : m.conn # c
    BY <1>18 DEF MintGeneration, NetPhases, ProofOf, Pulled, LifeInv
  <2>2. PICK s \in FreeSeats :
          /\ StepOn("net", "mint", "seat", s, c)
          /\ userData' = [userData EXCEPT ![c] = s]
          /\ peerGen' = [peerGen EXCEPT ![s] = genCounter + 1]
    BY <1>18 DEF MintGeneration
  <2>3. s \in Seats /\ s # 0
    BY BoundsAssumption DEF FreeSeats, Seats
  <2>4. genCounter + 1 \in Nat /\ genCounter + 1 # 0
    BY GensType DEF LifeInv, TypeOK
  <2>5. /\ genOf' = [genOf EXCEPT ![c] = genCounter + 1]
        /\ UNCHANGED <<back, link, unread, sent, batch, handling, peerConns>>
    BY <1>18 DEF MintGeneration
  <2>6. link[c] = "pending" /\ UNCHANGED <<onSlot["game"], onConn["game"], pc["game"]>>
    BY <2>1, <2>2
  <2>7. \A t \in Seats : peerConns[t] # c
    BY <2>1
  <2>8. pc' = [pc EXCEPT !["net"] = "seat"] /\ onSlot'["net"] = s /\ peerConns[s] = NoConn
    BY <2>2 DEF FreeSeats
  <2>9. pc["game"] \in {"check", "claim", "tearLanes"} => onConn["game"] # c
    BY <2>1
  <2> HIDE DEF StepOn, MintGeneration
  <2> QED BY <2>1, <2>3, <2>5, <2>6, <2>7, <2>8, <2>9
<1>19. CASE RefuseFull
  BY <1>19 DEF RefuseFull
<1>20. CASE TakeSeat
  BY <1>20 DEF TakeSeat
<1>21. CASE ConfigureLanes
  BY <1>21 DEF ConfigureLanes
<1>22. CASE FinishPeerConnected
  BY <1>22 DEF FinishPeerConnected
<1>23. CASE Admitted
  BY <1>23 DEF Admitted
<1>24. CASE PublishGuid
  BY <1>24 DEF PublishGuid
<1>25. CASE Tick
  <2> HIDE DEF LifeInv, TypeOK, NetPhases, GamePhases, Holding, Wire
  <2>1. OthersAlone
    BY <1>25, TickFrame
  <2> QED BY <2>1 DEF OthersAlone
<1>26. ASSUME NEW s \in Seats, CaptureToken(s) PROVE SeatInv'
  BY <1>26, SMTT(30) DEF CaptureToken
<1>27. CASE PostedKick
  BY <1>27 DEF PostedKick
<1>28. CASE CheckGeneration
  BY <1>28 DEF CheckGeneration
<1>29. CASE ClaimByHandle
  <2> DEFINE s == onSlot["game"]
             d == onConn["game"]
  <2>1. /\ pc["game"] = "claim" /\ s \in Seats /\ d \in Conns
        /\ UNCHANGED <<onSlot, onConn, link, handling>>
        /\ pc' = [pc EXCEPT !["game"] = IF peerConns[s] = d THEN "tearLanes" ELSE "idle"]
        /\ peerConns' = [peerConns EXCEPT ![s] = IF peerConns[s] = d THEN NoConn ELSE @]
    BY <1>29 DEF ClaimByHandle
  <2>2. pc'["net"] = pc["net"] /\ pc'["game"] \in {"tearLanes", "idle"}
    BY <2>1
  <2>3. \A u \in Seats : peerConns'[u] \in {NoConn, peerConns[u]}
    BY <2>1
  <2>4. pc'["game"] = "tearLanes" => \A u \in Seats : peerConns'[u] # d
    <3>1. CASE peerConns[s] = d
      <4>1. \A u \in Seats : peerConns[u] = d => u = s
        BY <2>1, <3>1
      <4>2. peerConns'[s] = NoConn /\ NoConn # d
        BY <2>1, <3>1
      <4> QED BY <2>1, <2>3, <4>1, <4>2
    <3>2. CASE peerConns[s] # d
      BY <2>1, <3>2
    <3> QED BY <3>1, <3>2
  <2> HIDE DEF LifeInv, TypeOK, NetPhases, GamePhases, Holding, Wire, s, d
  <2>5. onSlot' = onSlot /\ onConn' = onConn /\ link' = link /\ handling' = handling
    BY <2>1
  <2>6. onConn["game"] = d /\ pc["game"] = "claim"
    BY <2>1 DEF d
  <2>7. \A t, u \in Seats : peerConns'[t] # NoConn /\ peerConns'[t] = peerConns'[u] => t = u
    BY <2>3
  <2>8. \A u \in Seats : peerConns'[u] # NoConn =>
          \/ link'[peerConns'[u]] = "seated"
          \/ /\ pc'["net"] \in {"lanes", "connect"}
             /\ handling'.conn = peerConns'[u] /\ link'[peerConns'[u]] = "pending"
    BY <2>2, <2>3, <2>5
  <2>9. ASSUME pc'["net"] = "tearLanes", NEW u \in Seats
        PROVE  peerConns'[u] # onConn'["net"]
    <3>1. peerConns[u] # onConn["net"] /\ NoConn # onConn["net"]
      BY <2>2, <2>9 DEF Holding, LifeInv
    <3> QED BY <2>3, <2>5, <3>1
  <2>10. pc'["net"] = "seat" =>
           /\ link'[handling'.conn] = "pending" /\ peerConns'[onSlot'["net"]] = NoConn
           /\ \A u \in Seats : peerConns'[u] # handling'.conn
           /\ onConn'["game"] # handling'.conn
    <3>1. pc["net"] = "seat" => onSlot["net"] \in Seats /\ handling.conn # NoConn
      BY DEF LifeInv, NetPhases
    <3> QED BY <2>2, <2>3, <2>5, <2>6, <3>1
  <2>11. pc'["net"] = "unregister" =>
           /\ \A u \in Seats : u # onSlot'["net"] => peerConns'[u] # onConn'["net"]
           /\ peerConns'[onSlot'["net"]] \in {NoConn, onConn'["net"]}
    <3>1. pc["net"] = "unregister" => onSlot["net"] \in Seats /\ onConn["net"] # NoConn
      BY DEF LifeInv, NetPhases, Holding
    <3> QED BY <2>2, <2>3, <2>5, <3>1
  <2>12. pc'["game"] = "tearLanes" => \A u \in Seats : peerConns'[u] # onConn'["game"]
    BY <2>4, <2>5, <2>6
  <2> QED BY <2>7, <2>8, <2>9, <2>10, <2>11, <2>12
<1>30. ASSUME NEW c \in Conns, ConnectingEdge(c) PROVE SeatInv'
  BY <1>30 DEF ConnectingEdge
<1>31. ASSUME NEW c \in Conns, ClosedEdge(c) PROVE SeatInv'
  BY <1>31 DEF ClosedEdge
<1>32. ASSUME NEW c \in Conns, ClosedEdgeSlotless(c) PROVE SeatInv'
  BY <1>32 DEF ClosedEdgeSlotless
<1>33. ASSUME NEW c \in Conns, Send(c) PROVE SeatInv'
  BY <1>33 DEF Send
<1>34. ASSUME NEW s \in Seats, FatalCloseSlot(s) PROVE SeatInv'
  BY <1>34 DEF FatalCloseSlot
<1> QED
  BY <1>1, <1>2, <1>3, <1>4, <1>5, <1>6, <1>7, <1>8, <1>9, <1>10, <1>11, <1>12,
      <1>13, <1>14, <1>15, <1>16, <1>17, <1>18, <1>19, <1>20, <1>21, <1>22, <1>23,
      <1>24, <1>25, <1>26, <1>27, <1>28, <1>29, <1>30, <1>31, <1>32, <1>33, <1>34
  DEF Next, Net, Teardown, HandleBatch, Admit, AdminKick, Remote, Backlog, Threads

\* A seat's generation is its occupant's or none.
LEMMA TokenStep == LifeInv /\ SeatInv /\ TokenInv /\ Next => TokenInv'
<1> SUFFICES ASSUME LifeInv /\ SeatInv /\ TokenInv, Next PROVE TokenInv'
  OBVIOUS
<1> USE GensType, ConnsAssumption, BoundsAssumption DEF LifeInv, TypeOK,
    NetPhases, GamePhases, Holding, Wire, SeatInv, TokenInv, NoToken, Step,
    StepOn, CloseConnection, wireVars, threadVars, slotVars, mintVars, adminVars,
    NetLabels, Tearing, TearSlot, TearAll, Seating, ProofOf, Proving, Threads,
    NoMsg, Pulled
<1>1. ASSUME NEW t \in Threads, Kick(t) PROVE TokenInv'
  BY <1>1 DEF Kick
<1>2. ASSUME NEW t \in Threads, TearLanes(t) PROVE TokenInv'
  BY <1>2 DEF TearLanes
<1>3. ASSUME NEW t \in Threads, ResetPeerRemoteState(t) PROVE TokenInv'
  BY <1>3 DEF ResetPeerRemoteState
<1>4. ASSUME NEW t \in Threads, EraseInbox(t) PROVE TokenInv'
  BY <1>4 DEF EraseInbox
<1>5. ASSUME NEW t \in Threads, ClearGeneration(t) PROVE TokenInv'
  BY <1>5 DEF ClearGeneration
<1>6. ASSUME NEW t \in Threads, ClearGuid(t) PROVE TokenInv'
  BY <1>6 DEF ClearGuid
<1>7. ASSUME NEW t \in Threads, CountPeers(t) PROVE TokenInv'
  BY <1>7 DEF CountPeers
<1>8. ASSUME NEW t \in Threads, Disconnect(t) PROVE TokenInv'
  BY <1>8 DEF Disconnect
<1>9. ASSUME NEW t \in Threads, ResetAllRemoteState(t) PROVE TokenInv'
  BY <1>9 DEF ResetAllRemoteState
<1>10. ASSUME NEW t \in Threads, ClearInbox(t) PROVE TokenInv'
  BY <1>10 DEF ClearInbox
<1>11. CASE Unregister
  BY <1>11 DEF Unregister
<1>12. CASE ReceiveBatch
  BY <1>12 DEF ReceiveBatch
<1>13. ASSUME NEW m \in batch, HandleReliable(m) PROVE TokenInv'
  BY <1>13 DEF HandleReliable
<1>14. ASSUME NEW m \in batch, DropStaleEpoch(m) PROVE TokenInv'
  BY <1>14 DEF DropStaleEpoch
<1>15. ASSUME NEW m \in batch, HandleProof(m) PROVE TokenInv'
  <2>1. /\ \/ StepOn("net", "handle", "mint", NoSlot, m.conn)
           \/ \E s \in Seats : StepOn("net", "handle", "kick", s, m.conn)
        /\ UNCHANGED <<lanes, state, peerConns, peerGen, genOf, token>>
    BY <1>15 DEF HandleProof
  <2>2. pc["net"] = "handle" /\ pc'["net"] \in {"mint", "kick"}
    BY <2>1
  <2>3. /\ pc'["game"] = pc["game"] /\ onSlot'["game"] = onSlot["game"]
        /\ onConn'["game"] = onConn["game"]
    BY <2>1, SMTT(60)
  <2>4. UNCHANGED <<lanes, state, peerConns, peerGen, genOf, token>>
    BY <2>1
  <2> HIDE DEF LifeInv, TypeOK, NetPhases, SeatInv, StepOn, GamePhases, Holding,
      Wire
  <2> QED BY <2>2, <2>3, <2>4
<1>16. CASE AppendReliable
  BY <1>16 DEF AppendReliable
<1>17. CASE EndPass
  BY <1>17 DEF EndPass
<1>18. CASE MintGeneration
  <2> DEFINE c == handling.conn
  <2>1. c \in Conns /\ Proving(c) /\ \A m \in batch : m.conn # c
    BY <1>18 DEF MintGeneration, NetPhases, ProofOf, Pulled, LifeInv
  <2>2. PICK s \in FreeSeats :
          /\ StepOn("net", "mint", "seat", s, c)
          /\ userData' = [userData EXCEPT ![c] = s]
          /\ peerGen' = [peerGen EXCEPT ![s] = genCounter + 1]
    BY <1>18 DEF MintGeneration
  <2>3. s \in Seats /\ s # 0
    BY BoundsAssumption DEF FreeSeats, Seats
  <2>4. genCounter + 1 \in Nat /\ genCounter + 1 # 0
    BY GensType DEF LifeInv, TypeOK
  <2>5. /\ genOf' = [genOf EXCEPT ![c] = genCounter + 1]
        /\ UNCHANGED <<back, link, unread, sent, batch, handling, peerConns>>
    BY <1>18 DEF MintGeneration
  <2>6. \A t \in Seats : peerConns[t] # c
    BY <2>1
  <2>7. /\ peerConns[s] = NoConn /\ onSlot'["net"] = s /\ genOf'[c] = genCounter + 1
        /\ peerGen'[s] = genCounter + 1
    BY <2>1, <2>2, <2>3, <2>5 DEF FreeSeats
  <2>8. \A d \in Conns \ {c} : genOf'[d] = genOf[d]
    BY <2>1, <2>5
  <2>9. /\ UNCHANGED <<onSlot["game"], onConn["game"], pc["game"], token>>
        /\ pc["game"] = "claim" => onConn["game"] \in Conns \ {c}
    BY <1>18, <2>1, <2>2 DEF MintGeneration
  <2>10. \A t \in Seats \ {s} : peerGen'[t] = peerGen[t]
    BY <2>2, <2>3
  <2> HIDE DEF StepOn, MintGeneration
  <2>11. ASSUME NEW t \in Seats, peerConns'[t] # NoConn
         PROVE  peerGen'[t] \in {0, genOf'[peerConns'[t]]}
    <3>1. peerConns'[t] = peerConns[t] /\ t # s /\ peerConns[t] \in Conns \ {c}
      BY <2>5, <2>6, <2>7, <2>11
    <3>2. genOf'[peerConns[t]] = genOf[peerConns[t]] /\ peerGen'[t] = peerGen[t]
      BY <2>8, <2>10, <3>1
    <3>3. peerGen[t] \in {0, genOf[peerConns[t]]}
      BY <2>11, <3>1
    <3> HIDE DEF LifeInv, TypeOK, NetPhases, GamePhases, Holding, Wire, SeatInv,
        TokenInv
    <3> QED BY <3>1, <3>2, <3>3
  <2>12. peerGen'[onSlot'["net"]] = genOf'[handling'.conn]
    BY <2>5, <2>7
  <2>13. /\ pc'["game"] = "claim"
         /\ peerConns'[onSlot'["game"]] = onConn'["game"]
         => genOf'[onConn'["game"]] = token'.gen
    BY <2>5, <2>8, <2>9
  <2> HIDE DEF c
  <2> QED BY <2>11, <2>12, <2>13
<1>19. CASE RefuseFull
  BY <1>19 DEF RefuseFull
<1>20. CASE TakeSeat
  BY <1>20 DEF TakeSeat
<1>21. CASE ConfigureLanes
  BY <1>21 DEF ConfigureLanes
<1>22. CASE FinishPeerConnected
  BY <1>22 DEF FinishPeerConnected
<1>23. CASE Admitted
  BY <1>23 DEF Admitted
<1>24. CASE PublishGuid
  BY <1>24 DEF PublishGuid
<1>25. CASE Tick
  <2> HIDE DEF LifeInv, TypeOK, NetPhases, GamePhases, Holding, Wire, SeatInv
  <2>1. OthersAlone
    BY <1>25, TickFrame
  <2> QED BY <2>1 DEF OthersAlone
<1>26. ASSUME NEW s \in Seats, CaptureToken(s) PROVE TokenInv'
  BY <1>26, SMTT(30) DEF CaptureToken
<1>27. CASE PostedKick
  BY <1>27 DEF PostedKick
<1>28. CASE CheckGeneration
  BY <1>28 DEF CheckGeneration
<1>29. CASE ClaimByHandle
  BY <1>29 DEF ClaimByHandle
<1>30. ASSUME NEW c \in Conns, ConnectingEdge(c) PROVE TokenInv'
  BY <1>30 DEF ConnectingEdge
<1>31. ASSUME NEW c \in Conns, ClosedEdge(c) PROVE TokenInv'
  BY <1>31 DEF ClosedEdge
<1>32. ASSUME NEW c \in Conns, ClosedEdgeSlotless(c) PROVE TokenInv'
  BY <1>32 DEF ClosedEdgeSlotless
<1>33. ASSUME NEW c \in Conns, Send(c) PROVE TokenInv'
  BY <1>33 DEF Send
<1>34. ASSUME NEW s \in Seats, FatalCloseSlot(s) PROVE TokenInv'
  BY <1>34 DEF FatalCloseSlot
<1> QED
  BY <1>1, <1>2, <1>3, <1>4, <1>5, <1>6, <1>7, <1>8, <1>9, <1>10, <1>11, <1>12,
      <1>13, <1>14, <1>15, <1>16, <1>17, <1>18, <1>19, <1>20, <1>21, <1>22, <1>23,
      <1>24, <1>25, <1>26, <1>27, <1>28, <1>29, <1>30, <1>31, <1>32, <1>33, <1>34
  DEF Next, Net, Teardown, HandleBatch, Admit, AdminKick, Remote, Backlog, Threads

\* The claim of a posted kick finds the captured generation.
LEMMA ClaimStep == LifeInv /\ TokenInv /\ Next => ClaimFits
<1> SUFFICES ASSUME LifeInv /\ TokenInv, Next PROVE ClaimFits
  OBVIOUS
<1> USE GensType, ConnsAssumption, BoundsAssumption DEF LifeInv, TypeOK,
    NetPhases, GamePhases, TokenInv, NoToken, ClaimFits, Step, StepOn,
    CloseConnection, wireVars, threadVars, slotVars, mintVars, adminVars, Threads
<1>1. ASSUME NEW t \in Threads, Kick(t) PROVE ClaimFits
  BY <1>1 DEF Kick
<1>2. ASSUME NEW t \in Threads, TearLanes(t) PROVE ClaimFits
  BY <1>2 DEF TearLanes
<1>3. ASSUME NEW t \in Threads, ResetPeerRemoteState(t) PROVE ClaimFits
  BY <1>3 DEF ResetPeerRemoteState
<1>4. ASSUME NEW t \in Threads, EraseInbox(t) PROVE ClaimFits
  BY <1>4 DEF EraseInbox
<1>5. ASSUME NEW t \in Threads, ClearGeneration(t) PROVE ClaimFits
  BY <1>5 DEF ClearGeneration
<1>6. ASSUME NEW t \in Threads, ClearGuid(t) PROVE ClaimFits
  BY <1>6 DEF ClearGuid
<1>7. ASSUME NEW t \in Threads, CountPeers(t) PROVE ClaimFits
  BY <1>7 DEF CountPeers
<1>8. ASSUME NEW t \in Threads, Disconnect(t) PROVE ClaimFits
  BY <1>8 DEF Disconnect
<1>9. ASSUME NEW t \in Threads, ResetAllRemoteState(t) PROVE ClaimFits
  BY <1>9 DEF ResetAllRemoteState
<1>10. ASSUME NEW t \in Threads, ClearInbox(t) PROVE ClaimFits
  BY <1>10 DEF ClearInbox
<1>11. CASE Unregister
  BY <1>11 DEF Unregister
<1>12. CASE ReceiveBatch
  BY <1>12 DEF ReceiveBatch
<1>13. ASSUME NEW m \in batch, HandleReliable(m) PROVE ClaimFits
  BY <1>13 DEF HandleReliable
<1>14. ASSUME NEW m \in batch, DropStaleEpoch(m) PROVE ClaimFits
  BY <1>14 DEF DropStaleEpoch
<1>15. ASSUME NEW m \in batch, HandleProof(m) PROVE ClaimFits
  BY <1>15 DEF HandleProof
<1>16. CASE AppendReliable
  BY <1>16 DEF AppendReliable
<1>17. CASE EndPass
  BY <1>17 DEF EndPass
<1>18. CASE MintGeneration
  BY <1>18 DEF MintGeneration
<1>19. CASE RefuseFull
  BY <1>19 DEF RefuseFull
<1>20. CASE TakeSeat
  BY <1>20 DEF TakeSeat
<1>21. CASE ConfigureLanes
  BY <1>21 DEF ConfigureLanes
<1>22. CASE FinishPeerConnected
  BY <1>22 DEF FinishPeerConnected
<1>23. CASE Admitted
  BY <1>23 DEF Admitted
<1>24. CASE PublishGuid
  BY <1>24 DEF PublishGuid
<1>25. CASE Tick
  <2> HIDE DEF LifeInv, TypeOK, NetPhases, GamePhases, TokenInv
  <2>1. OthersAlone
    BY <1>25, TickFrame
  <2> QED BY <2>1 DEF OthersAlone
<1>26. ASSUME NEW s \in Seats, CaptureToken(s) PROVE ClaimFits
  BY <1>26, SMTT(30) DEF CaptureToken
<1>27. CASE PostedKick
  BY <1>27 DEF PostedKick
<1>28. CASE CheckGeneration
  BY <1>28 DEF CheckGeneration
<1>29. CASE ClaimByHandle
  BY <1>29 DEF ClaimByHandle
<1>30. ASSUME NEW c \in Conns, ConnectingEdge(c) PROVE ClaimFits
  BY <1>30 DEF ConnectingEdge
<1>31. ASSUME NEW c \in Conns, ClosedEdge(c) PROVE ClaimFits
  BY <1>31 DEF ClosedEdge
<1>32. ASSUME NEW c \in Conns, ClosedEdgeSlotless(c) PROVE ClaimFits
  BY <1>32 DEF ClosedEdgeSlotless
<1>33. ASSUME NEW c \in Conns, Send(c) PROVE ClaimFits
  BY <1>33 DEF Send
<1>34. ASSUME NEW s \in Seats, FatalCloseSlot(s) PROVE ClaimFits
  BY <1>34 DEF FatalCloseSlot
<1> QED
  BY <1>1, <1>2, <1>3, <1>4, <1>5, <1>6, <1>7, <1>8, <1>9, <1>10, <1>11, <1>12,
      <1>13, <1>14, <1>15, <1>16, <1>17, <1>18, <1>19, <1>20, <1>21, <1>22, <1>23,
      <1>24, <1>25, <1>26, <1>27, <1>28, <1>29, <1>30, <1>31, <1>32, <1>33, <1>34
  DEF Next, Net, Teardown, HandleBatch, Admit, AdminKick, Remote, Backlog, Threads

-----------------------------------------------------------------------------
\* Nothing has happened yet.
LEMMA InitLife == Init => LifeInv /\ SeatInv /\ TokenInv
<1> SUFFICES ASSUME Init PROVE LifeInv /\ SeatInv /\ TokenInv
  OBVIOUS
<1> USE GensType, ConnsAssumption, KeysAssumption, BoundsAssumption DEF Init, Threads
<1>1. TypeOK
  BY DEF TypeOK, Pulled, NoMsg, Labels, Seats, NoSlot, NoRow, NoToken
<1>2. NetPhases /\ GamePhases /\ Holding /\ Wire /\ BatchOk
  BY DEF NetPhases, GamePhases, Holding, Wire, BatchOk, NetLabels, GameLabels, Tearing,
         TearSlot, TearAll, Seating, NoSlot, NoToken
<1>3. Minted
  <2>1. {c \in Conns : genOf[c] # 0} = {}
    OBVIOUS
  <2> QED BY <2>1, FS_EmptySet DEF Minted
<1>4. SeatInv /\ TokenInv
  BY DEF SeatInv, TokenInv
<1> QED BY <1>1, <1>2, <1>3, <1>4 DEF LifeInv

\* Steps that leave everything as it is.
LEMMA Stutter == UNCHANGED vars =>
  (LifeInv => LifeInv') /\ (SeatInv => SeatInv') /\ (TokenInv => TokenInv') /\ ClaimFits
<1> SUFFICES ASSUME UNCHANGED vars
             PROVE  /\ LifeInv => LifeInv'
                    /\ SeatInv => SeatInv'
                    /\ TokenInv => TokenInv'
                    /\ ClaimFits
  OBVIOUS
<1> USE DEF vars
<1>1. TypeOK => TypeOK'
  BY DEF TypeOK
<1>2. (NetPhases => NetPhases') /\ (Holding => Holding') /\ (BatchOk => BatchOk')
  BY DEF NetPhases, Holding, BatchOk, Proving
<1>3. (GamePhases => GamePhases') /\ (Wire => Wire') /\ (Minted => Minted')
  BY DEF GamePhases, Wire, Minted
<1>4. (SeatInv => SeatInv') /\ (TokenInv => TokenInv') /\ ClaimFits
  BY DEF SeatInv, TokenInv, ClaimFits
<1> QED BY <1>1, <1>2, <1>3, <1>4 DEF LifeInv

\* Every step keeps LifeInv.
LEMMA LifeStep == LifeInv /\ [Next]_vars => LifeInv'
BY TypeStep, NetStep, GameStep, HoldingStep, WireStep, BatchStep, MintStep, Stutter
   DEF LifeInv

\* The two invariants hold of every reachable state.
LEMMA LifeHolds == Spec => [](LifeInv /\ SeatInv)
<1>1. Init => LifeInv /\ SeatInv
  BY InitLife
<1>2. LifeInv /\ SeatInv /\ [Next]_vars => (LifeInv /\ SeatInv)'
  BY LifeStep, SeatStep, Stutter
<1> QED BY <1>1, <1>2, PTL DEF Spec

\* Every variable stays in its type: the generations of a session never exceed
\* the links it has had, whoever is kicked.
THEOREM TypeCorrect == Spec => []TypeOK
<1>1. LifeInv => TypeOK
  BY DEF LifeInv
<1> QED BY <1>1, LifeHolds, PTL

\* Whatever the two threads tear down at the same time, no slot is left with a
\* handle that GNS has released (RemovePeer, KickClaimed).
THEOREM SeatsAreLive == Spec => []NoDeadSeat
<1>1. LifeInv /\ SeatInv => NoDeadSeat
  BY DEF SeatInv, NoDeadSeat
<1> QED BY <1>1, LifeHolds, PTL

\* KickWithToken closes the captured player's connection or nothing, whatever
\* leaves and joins between the capture, the check and the claim.
THEOREM KickHitsItsTarget == Spec => TokenKicksItsTarget
<1>1. Init => LifeInv /\ SeatInv /\ TokenInv
  BY InitLife
<1>2. LifeInv /\ SeatInv /\ TokenInv /\ [Next]_vars => (LifeInv /\ SeatInv /\ TokenInv)'
  BY LifeStep, SeatStep, TokenStep, Stutter
<1>3. LifeInv /\ TokenInv /\ [Next]_vars => ClaimFits
  BY ClaimStep, Stutter
<1>4. [ClaimFits]_vars =>
        [pc["game"] = "claim" /\ pc'["game"] = "tearLanes"
           => genOf[peerConns[onSlot["game"]]] = token.gen]_vars
  BY DEF ClaimFits
<1> QED BY <1>1, <1>2, <1>3, <1>4, PTL DEF Spec, TokenKicksItsTarget
=============================================================================
