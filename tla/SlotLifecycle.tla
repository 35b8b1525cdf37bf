--------------------------- MODULE SlotLifecycle ---------------------------
(***************************************************************************)
(* A client slot of the host from admission to teardown, and the two       *)
(* threads that share it (session_status.cpp, session.cpp, event_feed.cpp, *)
(* roster_ledger.cpp, moderation.cpp, player_handshake_version.cpp).       *)
(*                                                                         *)
(* The net thread dispatches close callbacks, handles batches of received  *)
(* messages, supersedes and admits.  The game thread conforms its roster   *)
(* ledger to the slot generations, dispatches the reliable inbox, and      *)
(* kicks.  A slot is several words (connection, generation, lanes, epoch,  *)
(* proved guid) written one at a time, so a step here is one atomic store  *)
(* or one critical section and the threads interleave between any two.     *)
(*                                                                         *)
(* The exchange that leads to a verified proof is AdmissionBand's subject: *)
(* here a parked socket has its proof on the way.  Every peer speaks this  *)
(* build's wire version; Mismatched peers run another game version.        *)
(***************************************************************************)
EXTENDS Naturals, Sequences, FiniteSets

CONSTANTS
  Conns,       \* GNS connection handles, never reused; also the senderEpoch the
               \* remote session stamps, for a session connects once
  NoConn,      \* handle 0 and epoch 0
  Keys,        \* proved identities
  NoKey,       \* the empty guid
  KeyOf,       \* [Conns -> Keys]
  Mismatched,  \* peers whose Join names another game version
  NumSeats,    \* kMaxPeers - 1
  MaxMsgs,     \* bound: reliable messages a seated peer sends, its Join first
  MaxKicks     \* bound: kicks the host's UI posts

ASSUME ConnsAssumption == IsFiniteSet(Conns) /\ NoConn \notin Conns
ASSUME KeysAssumption ==
  /\ NoKey \notin Keys
  /\ KeyOf \in [Conns -> Keys]
  /\ Mismatched \subseteq Conns
ASSUME BoundsAssumption ==
  /\ NumSeats \in Nat \ {0}
  /\ MaxMsgs \in Nat
  /\ MaxKicks \in Nat

Seats   == 1..NumSeats
Threads == {"net", "game"}
Gens    == 0..Cardinality(Conns)
NoSlot  == 0

\* A pulled message with the user data it carried: slot 0 stands for the
\* pending tag.  Number 0 is the proof, number 1 the Join.
Pulled  == [conn : Conns, ud : 0..NumSeats, n : 0..MaxMsgs]
NoMsg   == [conn |-> NoConn, ud |-> 0, n |-> 0]

\* An inbox entry; the code keeps no sender but the slot, conn is for the
\* properties.
Queued  == [slot : Seats, conn : Conns, n : 1..MaxMsgs]
NoRow   == [gen |-> 0, name |-> NoConn]
NoToken == [slot |-> 0, gen |-> 0]

VARIABLES
  link,        \* GNS: "new", "pending", "seated", "closed"
  userData,    \* GNS: slot of a seated handle, 0 for the pending tag
  unread,      \* GNS: numbers of the messages sent and not pulled
  sent,        \* how many messages each peer has sent since it was seated
  batch,       \* net: pulled and not yet handled
  handling,    \* net: the message a multi-step handler works on
  pc,          \* where each thread is
  back,        \* where a thread goes on after a teardown
  onSlot,      \* the slot a thread works on
  onConn,      \* the handle a thread works on
  peerConns,   \* peerConns_
  peerGen,     \* peerGenBySlot_
  lanes,       \* peerLanesConfigured_
  epoch,       \* expectedEpoch_
  provedGuid,  \* provedGuidBySlot_
  inbox,       \* reliableInbox_
  state,       \* state_
  genCounter,  \* peerGenCounter_
  rows,        \* g_rows: generation and name of each client row
  liveGen,     \* game: the generation the reconcile loop read
  token,       \* game: slot and generation an admin dialog captured
  kicks,       \* kicks posted so far
  genOf        \* history: the generation minted for each handle

wireVars   == <<link, userData, unread, sent>>
threadVars == <<pc, back, onSlot, onConn>>
slotVars   == <<peerConns, peerGen, lanes, epoch, provedGuid>>
mintVars   == <<genCounter, genOf>>
adminVars  == <<token, kicks>>
vars == <<link, userData, unread, sent, batch, handling, pc, back, onSlot, onConn,
          peerConns, peerGen, lanes, epoch, provedGuid, inbox, state, genCounter,
          rows, liveGen, token, kicks, genOf>>

Labels == {"callbacks", "unregister", "handle", "append", "supersede", "kick", "mint",
           "seat", "lanes", "connect", "admitted", "guid", "idle", "reconcile", "birth",
           "drain", "more", "dispatch", "check", "claim", "tearLanes", "tearEpoch",
           "tearInbox", "tearGen", "tearGuid", "tearCount", "tearState", "tearEpochs", "tearQueue"}

TypeOK ==
  /\ link \in [Conns -> {"new", "pending", "seated", "closed"}]
  /\ userData \in [Conns -> 0..NumSeats]
  /\ unread \in [Conns -> SUBSET (0..MaxMsgs)]
  /\ sent \in [Conns -> 0..MaxMsgs]
  /\ batch \subseteq Pulled
  /\ handling \in Pulled \cup {NoMsg}
  /\ pc \in [Threads -> Labels]
  /\ back \in [Threads -> Labels]
  /\ onSlot \in [Threads -> 0..NumSeats]
  /\ onConn \in [Threads -> Conns \cup {NoConn}]
  /\ peerConns \in [Seats -> Conns \cup {NoConn}]
  /\ peerGen \in [Seats -> Gens]
  /\ lanes \in [Seats -> BOOLEAN]
  /\ epoch \in [Seats -> Conns \cup {NoConn}]
  /\ provedGuid \in [Seats -> Keys \cup {NoKey}]
  /\ inbox \in Seq(Queued)
  /\ state \in {"Handshaking", "Connected", "Disconnected"}
  /\ genCounter \in Gens
  /\ rows \in [Seats -> [gen : Gens, name : Conns \cup {NoConn}]]
  /\ liveGen \in Gens
  /\ token \in [slot : 0..NumSeats, gen : Gens]
  /\ kicks \in 0..MaxKicks
  /\ genOf \in [Conns -> Gens]

Init ==
  /\ link = [c \in Conns |-> "new"]
  /\ userData = [c \in Conns |-> 0]
  /\ unread = [c \in Conns |-> {}]
  /\ sent = [c \in Conns |-> 0]
  /\ batch = {}
  /\ handling = NoMsg
  /\ pc = [t \in Threads |-> IF t = "net" THEN "callbacks" ELSE "idle"]
  /\ back = [t \in Threads |-> IF t = "net" THEN "callbacks" ELSE "idle"]
  /\ onSlot = [t \in Threads |-> NoSlot]
  /\ onConn = [t \in Threads |-> NoConn]
  /\ peerConns = [s \in Seats |-> NoConn]
  /\ peerGen = [s \in Seats |-> 0]
  /\ lanes = [s \in Seats |-> FALSE]
  /\ epoch = [s \in Seats |-> NoConn]
  /\ provedGuid = [s \in Seats |-> NoKey]
  /\ inbox = <<>>
  /\ state = "Handshaking"
  /\ genCounter = 0
  /\ rows = [s \in Seats |-> NoRow]
  /\ liveGen = 0
  /\ token = NoToken
  /\ kicks = 0
  /\ genOf = [c \in Conns |-> 0]

\* connectedPeerCount() counts these.
ConnectedSlots == {s \in Seats : peerConns[s] # NoConn /\ lanes[s]}

\* CloseConnection releases the handle and what it still had queued.
CloseConnection(c) ==
  /\ link' = [link EXCEPT ![c] = "closed"]
  /\ unread' = [unread EXCEPT ![c] = {}]

\* Thread t is at l and goes on at m; its slot and handle stay, or are set.
Step(t, l, m) ==
  /\ pc[t] = l
  /\ pc' = [pc EXCEPT ![t] = m]
  /\ UNCHANGED <<back, onSlot, onConn>>
StepOn(t, l, m, s, c) ==
  /\ pc[t] = l
  /\ pc' = [pc EXCEPT ![t] = m]
  /\ onSlot' = [onSlot EXCEPT ![t] = s]
  /\ onConn' = [onConn EXCEPT ![t] = c]

-----------------------------------------------------------------------------
(* The teardown of a slot whose peerConns_ word the thread has cleared: the *)
(* tail of the close callback (net thread) and of KickClaimed (either).     *)

\* Lanes off, the handle released.
TearLanes(t) ==
  /\ Step(t, "tearLanes", "tearEpoch")
  /\ lanes' = [lanes EXCEPT ![onSlot[t]] = FALSE]
  /\ CloseConnection(onConn[t])
  /\ UNCHANGED <<userData, sent, batch, handling, peerConns, peerGen, epoch, provedGuid,
                 inbox, state, rows, liveGen, mintVars, adminVars>>

\* ResetPeerRemoteState, under remoteMutex_.
ResetPeerRemoteState(t) ==
  /\ Step(t, "tearEpoch", "tearInbox")
  /\ epoch' = [epoch EXCEPT ![onSlot[t]] = NoConn]
  /\ UNCHANGED <<wireVars, batch, handling, peerConns, peerGen, lanes, provedGuid,
                 inbox, state, rows, liveGen, mintVars, adminVars>>

\* Variant: a ghost's queued messages survive its slot.
KeepInbox(t) ==
  /\ Step(t, "tearInbox", "tearGen")
  /\ UNCHANGED <<wireVars, batch, handling, slotVars, inbox, state, rows, liveGen,
                 mintVars, adminVars>>

\* The inbox erase, under reliableInboxMutex_: what other slots sent stays, in
\* its order.
OfOthers(s) == {i \in DOMAIN inbox : inbox[i].slot # s}
EraseInbox(t) ==
  /\ Step(t, "tearInbox", "tearGen")
  /\ LET kept == OfOthers(onSlot[t])
     IN  \E f \in [1..Cardinality(kept) -> kept] :
           /\ \A i, j \in DOMAIN f : i < j => f[i] < f[j]
           /\ inbox' = [i \in DOMAIN f |-> inbox[f[i]]]
  /\ UNCHANGED <<wireVars, batch, handling, slotVars, state, rows, liveGen, mintVars,
                 adminVars>>

\* The generation drops to 0 last, then the identity goes with the seat.
ClearGeneration(t) ==
  /\ Step(t, "tearGen", "tearGuid")
  /\ peerGen' = [peerGen EXCEPT ![onSlot[t]] = 0]
  /\ UNCHANGED <<wireVars, batch, handling, peerConns, lanes, epoch, provedGuid, inbox,
                 state, rows, liveGen, mintVars, adminVars>>

ClearGuid(t) ==
  /\ Step(t, "tearGuid", "tearCount")
  /\ provedGuid' = [provedGuid EXCEPT ![onSlot[t]] = NoKey]
  /\ UNCHANGED <<wireVars, batch, handling, peerConns, peerGen, lanes, epoch, inbox,
                 state, rows, liveGen, mintVars, adminVars>>

\* Variant: the count includes the peer that is leaving.
CountLeaver(t) ==
  /\ Step(t, "tearCount", IF Cardinality(ConnectedSlots) <= 1 THEN "tearState" ELSE back[t])
  /\ UNCHANGED <<wireVars, batch, handling, slotVars, inbox, state, rows, liveGen,
                 mintVars, adminVars>>

\* connectedPeerCount() == 0 decides whether the session as a whole is down.
CountPeers(t) ==
  /\ Step(t, "tearCount", IF ConnectedSlots = {} THEN "tearState" ELSE back[t])
  /\ UNCHANGED <<wireVars, batch, handling, slotVars, inbox, state, rows, liveGen,
                 mintVars, adminVars>>

Disconnect(t) ==
  /\ Step(t, "tearState", "tearEpochs")
  /\ state' = "Disconnected"
  /\ UNCHANGED <<wireVars, batch, handling, slotVars, inbox, rows, liveGen, mintVars,
                 adminVars>>

ResetAllRemoteState(t) ==
  /\ Step(t, "tearEpochs", "tearQueue")
  /\ epoch' = [s \in Seats |-> NoConn]
  /\ UNCHANGED <<wireVars, batch, handling, peerConns, peerGen, lanes, provedGuid,
                 inbox, state, rows, liveGen, mintVars, adminVars>>

ClearInbox(t) ==
  /\ Step(t, "tearQueue", back[t])
  /\ inbox' = <<>>
  /\ UNCHANGED <<wireVars, batch, handling, slotVars, state, rows, liveGen, mintVars,
                 adminVars>>

\* Variant: a kick that reads the handle and does not claim it.
KickByLoad(t) ==
  LET s == onSlot[t]
      c == peerConns[s]
  IN  /\ StepOn(t, "kick", IF c = NoConn THEN back[t] ELSE "tearLanes", s, c)
      /\ UNCHANGED <<back, wireVars, batch, handling, slotVars, inbox, state, rows,
                     liveGen, mintVars, adminVars>>

\* Kick(slot): claim whatever handle the slot holds, by exchange; a slot that
\* is free already needs nothing.
Kick(t) ==
  LET s == onSlot[t]
      c == peerConns[s]
  IN  /\ StepOn(t, "kick", IF c = NoConn THEN back[t] ELSE "tearLanes", s, c)
      /\ peerConns' = [peerConns EXCEPT ![s] = NoConn]
      /\ UNCHANGED <<back, wireVars, batch, handling, peerGen, lanes, epoch, provedGuid,
                     inbox, state, rows, liveGen, mintVars, adminVars>>

-----------------------------------------------------------------------------
(* The net thread: callbacks, then one batch.                              *)

\* A joiner is parked in the band and its proof is on the way.
ConnectingEdge(c) ==
  /\ pc["net"] = "callbacks"
  /\ link[c] = "new"
  /\ link' = [link EXCEPT ![c] = "pending"]
  /\ unread' = [unread EXCEPT ![c] = {0}]
  /\ UNCHANGED <<userData, sent, batch, handling, threadVars, slotVars, inbox, state,
                 rows, liveGen, mintVars, adminVars>>

\* Variant: callbacks dispatched between two messages of a batch.
ClosedMidBatch(c) ==
  /\ link[c] \in {"pending", "seated"}
  /\ \E s \in Seats, l \in {"callbacks", "handle"} :
       /\ peerConns[s] = c
       /\ StepOn("net", l, "unregister", s, c)
       /\ back' = [back EXCEPT !["net"] = l]
  /\ UNCHANGED <<wireVars, batch, handling, slotVars, inbox, state, rows, liveGen,
                 mintVars, adminVars>>

\* ClosedByPeer / ProblemDetectedLocally of a handle that holds a slot.
ClosedEdge(c) ==
  /\ link[c] \in {"pending", "seated"}
  /\ \E s \in Seats :
       /\ peerConns[s] = c
       /\ StepOn("net", "callbacks", "unregister", s, c)
  /\ back' = [back EXCEPT !["net"] = "callbacks"]
  /\ UNCHANGED <<wireVars, batch, handling, slotVars, inbox, state, rows, liveGen,
                 mintVars, adminVars>>

\* Variant: the slot's word is left to a later step that never comes.
UnregisterNever ==
  /\ Step("net", "unregister", "tearLanes")
  /\ UNCHANGED <<wireVars, batch, handling, slotVars, inbox, state, rows, liveGen,
                 mintVars, adminVars>>

\* The slot was looked up before; its word is cleared without another look.
Unregister ==
  /\ Step("net", "unregister", "tearLanes")
  /\ peerConns' = [peerConns EXCEPT ![onSlot["net"]] = NoConn]
  /\ UNCHANGED <<wireVars, batch, handling, peerGen, lanes, epoch, provedGuid, inbox,
                 state, rows, liveGen, mintVars, adminVars>>

\* The same callback for a parked handle, or one a kick has just claimed.
ClosedEdgeSlotless(c) ==
  /\ link[c] \in {"pending", "seated"}
  /\ \A s \in Seats : peerConns[s] # c
  /\ StepOn("net", "callbacks", "tearCount", NoSlot, c)
  /\ back' = [back EXCEPT !["net"] = "callbacks"]
  /\ CloseConnection(c)
  /\ UNCHANGED <<userData, sent, batch, handling, slotVars, inbox, state, rows, liveGen,
                 mintVars, adminVars>>

\* Variant: a message routed by a tag its connection no longer has.
ArrivedUntagged == {m \in Pulled : m.n \in unread[m.conn]}
Arrived == {m \in Pulled : m.n \in unread[m.conn] /\ m.ud = userData[m.conn]}

\* Any part of what was sent has arrived, in the order each peer sent it.
ReceiveBatch ==
  /\ Step("net", "callbacks", "handle")
  /\ \E B \in SUBSET Arrived \ {{}} :
       /\ \A m \in B, a \in Arrived : a.conn = m.conn /\ a.n < m.n => a \in B
       /\ batch' = B
       /\ unread' = [c \in Conns |-> {n \in unread[c] :
                                        \A m \in B : ~(m.conn = c /\ m.n = n)}]
  /\ UNCHANGED <<link, userData, sent, handling, slotVars, inbox, state, rows, liveGen,
                 mintVars, adminVars>>

\* The messages of a batch are handled in their peers' order.
FirstOfItsPeer(m) == \A a \in batch : a.conn = m.conn => a.n >= m.n

\* HandleMessage for a slot: the first packet latches the slot's epoch, another
\* epoch's packets are dropped.  Whether the slot still holds this connection
\* is not looked at.
HandleReliable(m) ==
  /\ m \in batch
  /\ FirstOfItsPeer(m)
  /\ m.ud # 0
  /\ epoch[m.ud] \in {NoConn, m.conn}
  /\ StepOn("net", "handle", "append", m.ud, m.conn)
  /\ batch' = batch \ {m}
  /\ handling' = m
  /\ epoch' = [epoch EXCEPT ![m.ud] = m.conn]
  /\ UNCHANGED <<back, wireVars, peerConns, peerGen, lanes, provedGuid, inbox, state,
                 rows, liveGen, mintVars, adminVars>>

DropStaleEpoch(m) ==
  /\ m \in batch
  /\ FirstOfItsPeer(m)
  /\ m.ud # 0
  /\ epoch[m.ud] \notin {NoConn, m.conn}
  /\ Step("net", "handle", "handle")
  /\ batch' = batch \ {m}
  /\ UNCHANGED <<wireVars, handling, slotVars, inbox, state, rows, liveGen, mintVars,
                 adminVars>>

\* The push, under reliableInboxMutex_.
AppendReliable ==
  /\ Step("net", "append", "handle")
  /\ inbox' = Append(inbox, [slot |-> handling.ud, conn |-> handling.conn,
                             n |-> handling.n])
  /\ handling' = NoMsg
  /\ UNCHANGED <<wireVars, batch, slotVars, state, rows, liveGen, mintVars, adminVars>>

EndPass ==
  /\ Step("net", "handle", "callbacks")
  /\ batch = {}
  /\ UNCHANGED <<wireVars, batch, handling, slotVars, inbox, state, rows, liveGen,
                 mintVars, adminVars>>

\* After the batch, a slot whose send backlog tripped a fatal bound (the peer
\* stopped draining) is kicked by the net thread itself.
FatalCloseSlot(s) ==
  /\ batch = {}
  /\ peerConns[s] # NoConn
  /\ StepOn("net", "handle", "kick", s, NoConn)
  /\ back' = [back EXCEPT !["net"] = "handle"]
  /\ UNCHANGED <<wireVars, batch, handling, slotVars, inbox, state, rows, liveGen,
                 mintVars, adminVars>>

\* A verified proof: the first seat already held under its identity is kicked,
\* then the joiner is admitted.
Holds(s, c) == peerConns[s] # NoConn /\ provedGuid[s] = KeyOf[c]
HandleProof(m) ==
  /\ m \in batch
  /\ FirstOfItsPeer(m)
  /\ m.ud = 0
  /\ LET ghosts == {s \in Seats : Holds(s, m.conn)}
     IN  \/ /\ ghosts = {}
            /\ StepOn("net", "handle", "mint", NoSlot, m.conn)
         \/ \E s \in ghosts :
              /\ \A t \in ghosts : s <= t
              /\ StepOn("net", "handle", "kick", s, m.conn)
  /\ back' = [back EXCEPT !["net"] = "mint"]
  /\ batch' = batch \ {m}
  /\ handling' = m
  /\ UNCHANGED <<wireVars, slotVars, inbox, state, rows, liveGen, mintVars, adminVars>>

FreeSeats == {s \in Seats : peerConns[s] = NoConn}

\* AdmitPending: the lowest free slot, and a generation for its new occupant.
MintGeneration ==
  LET c == handling.conn
  IN  /\ \E s \in FreeSeats :
           /\ \A t \in FreeSeats : s <= t
           /\ StepOn("net", "mint", "seat", s, c)
           /\ userData' = [userData EXCEPT ![c] = s]
           /\ peerGen' = [peerGen EXCEPT ![s] = genCounter + 1]
      /\ genCounter' = genCounter + 1
      /\ genOf' = [genOf EXCEPT ![c] = genCounter + 1]
      /\ UNCHANGED <<back, link, unread, sent, batch, handling, peerConns, lanes, epoch,
                     provedGuid, inbox, state, rows, liveGen, adminVars>>

RefuseFull ==
  /\ FreeSeats = {}
  /\ Step("net", "mint", "handle")
  /\ CloseConnection(handling.conn)
  /\ handling' = NoMsg
  /\ UNCHANGED <<userData, sent, batch, slotVars, inbox, state, rows, liveGen, mintVars,
                 adminVars>>

\* The peerConns_ store, after the generation's.
TakeSeat ==
  /\ Step("net", "seat", "lanes")
  /\ peerConns' = [peerConns EXCEPT ![onSlot["net"]] = handling.conn]
  /\ UNCHANGED <<wireVars, batch, handling, peerGen, lanes, epoch, provedGuid, inbox,
                 state, rows, liveGen, mintVars, adminVars>>

\* FinishPeerConnected: the lanes, then the aggregate state and AssignPeerSlot,
\* which lets the peer talk (unless the handle is gone by now).
ConfigureLanes ==
  /\ Step("net", "lanes", "connect")
  /\ lanes' = [lanes EXCEPT ![onSlot["net"]] = TRUE]
  /\ UNCHANGED <<wireVars, batch, handling, peerConns, peerGen, epoch, provedGuid, inbox,
                 state, rows, liveGen, mintVars, adminVars>>

FinishPeerConnected ==
  /\ Step("net", "connect", "admitted")
  /\ state' = "Connected"
  /\ link' = [link EXCEPT ![handling.conn] = IF @ = "closed" THEN @ ELSE "seated"]
  /\ UNCHANGED <<userData, unread, sent, batch, handling, slotVars, inbox, rows, liveGen,
                 mintVars, adminVars>>

\* The end of AdmitPending.
Admitted ==
  /\ Step("net", "admitted", "guid")
  /\ state' = IF state = "Disconnected" THEN "Handshaking" ELSE state
  /\ UNCHANGED <<wireVars, batch, handling, slotVars, inbox, rows, liveGen, mintVars,
                 adminVars>>

PublishGuid ==
  /\ Step("net", "guid", "handle")
  /\ provedGuid' = [provedGuid EXCEPT ![onSlot["net"]] = KeyOf[handling.conn]]
  /\ handling' = NoMsg
  /\ UNCHANGED <<wireVars, batch, peerConns, peerGen, lanes, epoch, inbox, state, rows,
                 liveGen, mintVars, adminVars>>

-----------------------------------------------------------------------------
(* The game thread: kicks between ticks; a tick conforms the ledger, then   *)
(* dispatches the inbox until it is empty or the tick's budget is spent.    *)

BeginTick ==
  /\ StepOn("game", "idle", "reconcile", 1, NoConn)
  /\ UNCHANGED <<back, wireVars, batch, handling, slotVars, inbox, state, rows, liveGen,
                 mintVars, adminVars>>

\* Variant: only an empty slot ends a row, so a replacement is missed.
DeathWhenEmpty ==
  LET s == onSlot["game"]
  IN  /\ Step("game", "reconcile", "birth")
      /\ liveGen' = peerGen[s]
      /\ rows' = [rows EXCEPT ![s] = IF peerGen[s] = 0 THEN NoRow ELSE @]
      /\ UNCHANGED <<wireVars, batch, handling, slotVars, inbox, state, mintVars,
                     adminVars>>

\* ReconcileFromSession for one slot: a row whose generation is not the live one
\* dies ...
ReconcileDeath ==
  LET s == onSlot["game"]
  IN  /\ Step("game", "reconcile", "birth")
      /\ liveGen' = peerGen[s]
      /\ rows' = [rows EXCEPT ![s] = IF @.gen # peerGen[s] THEN NoRow ELSE @]
      /\ UNCHANGED <<wireVars, batch, handling, slotVars, inbox, state, mintVars,
                     adminVars>>

\* ... and one is born once the slot's lanes are up.
ReconcileBirth ==
  LET s == onSlot["game"]
      born == liveGen # 0 /\ rows[s].gen = 0 /\ lanes[s]
  IN  /\ IF s = NumSeats
           THEN StepOn("game", "birth", "drain", NoSlot, NoConn)
           ELSE StepOn("game", "birth", "reconcile", s + 1, NoConn)
      /\ rows' = [rows EXCEPT ![s] = IF born THEN [gen |-> liveGen, name |-> NoConn]
                                             ELSE @]
      /\ UNCHANGED <<back, wireVars, batch, handling, slotVars, inbox, state, liveGen,
                     mintVars, adminVars>>

\* TryGetReliable, for a kind with no effect on the slot, and for a Join.  The
\* budget is checked after a handler, so a tick dispatches one message at least.
Draining == {"drain", "more"}
PopReliable ==
  /\ \E l \in Draining : Step("game", l, "more")
  /\ inbox # <<>> /\ Head(inbox).n # 1
  /\ inbox' = Tail(inbox)
  /\ UNCHANGED <<wireVars, batch, handling, slotVars, state, rows, liveGen, mintVars,
                 adminVars>>

PopJoin ==
  /\ inbox # <<>> /\ Head(inbox).n = 1
  /\ \E l \in Draining :
       StepOn("game", l, "dispatch", Head(inbox).slot, Head(inbox).conn)
  /\ inbox' = Tail(inbox)
  /\ UNCHANGED <<back, wireVars, batch, handling, slotVars, state, rows, liveGen,
                 mintVars, adminVars>>

\* HandleJoinMessage: SetNick writes nothing to a row that is not occupied.
HandleJoinMessage ==
  LET s == onSlot["game"]
  IN  /\ onConn["game"] \notin Mismatched
      /\ Step("game", "dispatch", "more")
      /\ rows' = [rows EXCEPT ![s].name = IF rows[s].gen # 0 THEN onConn["game"] ELSE @]
      /\ UNCHANGED <<wireVars, batch, handling, slotVars, inbox, state, liveGen, mintVars,
                     adminVars>>

\* ValidateJoinVersionOrRefuse: Kick(senderSlot).
RefuseJoin ==
  /\ onConn["game"] \in Mismatched
  /\ pc["game"] = "dispatch"
  /\ pc' = [pc EXCEPT !["game"] = "kick"]
  /\ back' = [back EXCEPT !["game"] = "more"]
  /\ UNCHANGED <<onSlot, onConn, wireVars, batch, handling, slotVars, inbox, state, rows,
                 liveGen, mintVars, adminVars>>

EndTick ==
  /\ \/ Step("game", "drain", "idle") /\ inbox = <<>>
     \/ Step("game", "more", "idle")
  /\ UNCHANGED <<wireVars, batch, handling, slotVars, inbox, state, rows, liveGen,
                 mintVars, adminVars>>

\* The admin opens a dialog on a row: slot and generation are captured.
CaptureToken(s) ==
  /\ Step("game", "idle", "idle")
  /\ kicks < MaxKicks
  /\ rows[s].gen # 0
  /\ token = NoToken
  /\ token' = [slot |-> s, gen |-> rows[s].gen]
  /\ UNCHANGED <<wireVars, batch, handling, slotVars, inbox, state, rows, liveGen,
                 mintVars, kicks>>

\* KickWithToken: load the handle, compare the generation, claim by handle.
PostedKick ==
  LET c == IF token = NoToken THEN NoConn ELSE peerConns[token.slot]
  IN  /\ token # NoToken
      /\ StepOn("game", "idle", IF c = NoConn THEN "idle" ELSE "check", token.slot, c)
      /\ back' = [back EXCEPT !["game"] = "idle"]
      /\ kicks' = kicks + 1
      /\ token' = IF c = NoConn THEN NoToken ELSE token
      /\ UNCHANGED <<wireVars, batch, handling, slotVars, inbox, state, rows, liveGen,
                     mintVars>>

CheckGeneration ==
  LET fits == peerGen[token.slot] = token.gen
  IN  /\ Step("game", "check", IF fits THEN "claim" ELSE "idle")
      /\ token' = IF fits THEN token ELSE NoToken
      /\ UNCHANGED <<wireVars, batch, handling, slotVars, inbox, state, rows, liveGen,
                     mintVars, kicks>>

\* Variant: the claim is an exchange on the slot.
ClaimBySlot ==
  LET s == onSlot["game"]
      c == peerConns[s]
  IN  /\ StepOn("game", "claim", IF c # NoConn THEN "tearLanes" ELSE "idle", s, c)
      /\ peerConns' = [peerConns EXCEPT ![s] = NoConn]
      /\ token' = NoToken
      /\ UNCHANGED <<back, wireVars, batch, handling, peerGen, lanes, epoch, provedGuid,
                     inbox, state, rows, liveGen, mintVars, kicks>>

ClaimByHandle ==
  LET s    == onSlot["game"]
      same == peerConns[s] = onConn["game"]
  IN  /\ Step("game", "claim", IF same THEN "tearLanes" ELSE "idle")
      /\ peerConns' = [peerConns EXCEPT ![s] = IF same THEN NoConn ELSE @]
      /\ token' = NoToken
      /\ UNCHANGED <<wireVars, batch, handling, peerGen, lanes, epoch, provedGuid, inbox,
                     state, rows, liveGen, mintVars, kicks>>

-----------------------------------------------------------------------------
\* A seated peer sends its next reliable message.
Send(c) ==
  /\ link[c] = "seated"
  /\ sent[c] < MaxMsgs
  /\ sent' = [sent EXCEPT ![c] = @ + 1]
  /\ unread' = [unread EXCEPT ![c] = @ \cup {sent[c] + 1}]
  /\ UNCHANGED <<link, userData, batch, handling, threadVars, slotVars, inbox, state,
                 rows, liveGen, mintVars, adminVars>>

Teardown(t) ==
  \/ Kick(t)
  \/ TearLanes(t)
  \/ ResetPeerRemoteState(t)
  \/ EraseInbox(t)
  \/ ClearGeneration(t)
  \/ ClearGuid(t)
  \/ CountPeers(t)
  \/ Disconnect(t)
  \/ ResetAllRemoteState(t)
  \/ ClearInbox(t)

HandleBatch ==
  \/ \E m \in batch : HandleReliable(m) \/ DropStaleEpoch(m) \/ HandleProof(m)
  \/ AppendReliable
  \/ EndPass

Admit ==
  \/ MintGeneration
  \/ RefuseFull
  \/ TakeSeat
  \/ ConfigureLanes
  \/ FinishPeerConnected
  \/ Admitted
  \/ PublishGuid

Net == Teardown("net") \/ Unregister \/ ReceiveBatch \/ HandleBatch \/ Admit

Tick ==
  \/ BeginTick
  \/ ReconcileDeath
  \/ ReconcileBirth
  \/ PopReliable
  \/ PopJoin
  \/ HandleJoinMessage
  \/ RefuseJoin
  \/ EndTick

AdminKick ==
  \/ \E s \in Seats : CaptureToken(s)
  \/ PostedKick
  \/ CheckGeneration
  \/ ClaimByHandle

Remote == \E c \in Conns :
  \/ ConnectingEdge(c)
  \/ ClosedEdge(c)
  \/ ClosedEdgeSlotless(c)
  \/ Send(c)

Backlog == \E s \in Seats : FatalCloseSlot(s)

Next == Net \/ Teardown("game") \/ Tick \/ AdminKick \/ Remote \/ Backlog

Spec == Init /\ [][Next]_vars

\* Both threads keep running; peers, links and the admin need do nothing.
FairSpec == Spec /\ WF_vars(Net) /\ WF_vars(Teardown("game") \/ Tick)

-----------------------------------------------------------------------------
(* Properties.                                                             *)

\* An observer that can see a slot's connection can also see who owns it: the
\* generation is stored before the handle and cleared after it, whoever tears
\* the slot down (session.h, the KickWithToken contract).
GenPublishedFirst ==
  \A s \in Seats : peerConns[s] # NoConn => peerGen[s] = genOf[peerConns[s]]

\* A queued reliable message never outlives its sender's generation: a ghost's
\* message dispatched after its slot emptied, or under its successor, would be
\* applied to somebody else and never be undone.
InboxIsOccupants ==
  \A i \in DOMAIN inbox : peerGen[inbox[i].slot] = genOf[inbox[i].conn]

\* The epoch a slot has latched is its occupant's.  Another one would drop
\* every packet the occupant sends, for as long as it stays.
EpochIsOccupants ==
  \A s \in Seats : peerConns[s] # NoConn => epoch[s] \in {NoConn, peerConns[s]}

\* Between handlers the session is Connected exactly when some peer is.
StateMatchesPeers ==
  pc["net"] = "callbacks" => (state = "Connected" <=> ConnectedSlots # {})

\* When neither thread is in a handler, a seat never holds a handle that GNS has
\* released: nobody would ever free that seat.
NoDeadSeat ==
  pc["net"] = "callbacks" /\ pc["game"] = "idle" =>
    \A s \in Seats : peerConns[s] # NoConn => link[peerConns[s]] = "seated"

\* A kick posted for a captured player closes that player's connection or
\* nothing, whatever left and joined between the capture and the claim.
TokenKicksItsTarget ==
  [][pc["game"] = "claim" /\ pc'["game"] = "tearLanes"
       => genOf[peerConns[onSlot["game"]]] = token.gen]_vars

\* Refuted: the sender's row exists by the time its Join is dispatched, for the
\* tick conforms the ledger before it drains (event_feed.cpp).
JoinFindsItsRow ==
  [][HandleJoinMessage => rows[onSlot["game"]].gen = genOf[onConn["game"]]]_vars

\* Once peers stop coming and going, every seated peer has a row born for it,
\* and nobody else has one.
RowsConform ==
  <>[](\A s \in Seats : rows[s].gen = IF peerConns[s] = NoConn THEN 0
                                       ELSE genOf[peerConns[s]])
=============================================================================
