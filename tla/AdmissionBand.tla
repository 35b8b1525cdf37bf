--------------------------- MODULE AdmissionBand ---------------------------
(***************************************************************************)
(* The host's net thread admitting joiners (coop/net/session_status.cpp,   *)
(* session.cpp HandlePendingMessage, peer_admission.cpp).                  *)
(*                                                                         *)
(* A socket the host accepts holds no player seat.  It is parked in a      *)
(* small band of pending entries; it must prove the key its transport      *)
(* identity names (Hello, Challenge, Proof) before the deadline, and only  *)
(* then is it given the lowest free client seat.  A proof for an identity  *)
(* that already sits supersedes the older connection first.                *)
(*                                                                         *)
(* Every handler here runs on the net thread, so handlers are atomic with  *)
(* respect to each other.  One pass of the thread dispatches status        *)
(* callbacks, sweeps the band, then handles one batch of received          *)
(* messages; the batch carries the user data each message had when it was  *)
(* pulled.  Teardowns that the game thread runs concurrently are the       *)
(* subject of SlotLifecycle, not of this module.                           *)
(***************************************************************************)
EXTENDS Naturals, FiniteSets

CONSTANTS
  Conns,           \* GNS connection handles; a handle is never reused
  NoConn,          \* the value 0 of a handle
  Keys,            \* public keys (equivalently the guids derived from them)
  NoKey,           \* a socket without a key identity; an empty proved guid
  KeyOf,           \* the identity each socket presents: [Conns -> Keys \cup {NoKey}]
  Faulty,          \* sockets whose remote end does not follow the exchange
  BandSize,        \* Session::kMaxPending
  NumSeats,        \* kMaxPeers - 1 client seats
  Deadline,        \* kPendingDeadlineMs, in clock ticks
  FilterInstalled, \* acceptFilter_ is set (the LAN lane) or not (the P2P lane)
  MaxMail          \* bound: unpulled messages of a faulty socket

ASSUME ConnsAssumption == NoConn \notin Conns
ASSUME KeysAssumption ==
  /\ NoKey \notin Keys
  /\ KeyOf \in [Conns -> Keys \cup {NoKey}]
  /\ Faulty \subseteq Conns
ASSUME SizesAssumption ==
  /\ BandSize \in Nat \ {0}
  /\ NumSeats \in Nat \ {0}
  /\ Deadline \in Nat \ {0}
  /\ MaxMail \in Nat
  /\ FilterInstalled \in BOOLEAN

Band  == 1..BandSize
Seats == 1..NumSeats

\* What a pending socket can send: the two admission messages; one the host
\* refuses whenever it comes (wrong protocol version, inconsistent length, a
\* proof that does not verify, any other reliable kind); and one it ignores.
Kinds == {"hello", "proof", "bad", "noise"}

\* The user data of a connection: where the drain loop routes its messages.
NoTag == <<"none", 0>>
Tags  == ({"pending"} \X Band) \cup ({"seat"} \X Seats) \cup {NoTag}

Messages == [conn : Conns, idx : Band, kind : Kinds]

VARIABLES
  phase,        \* where the net thread is in its pass
  socket,       \* GNS: state of each handle
  connectedCb,  \* GNS: a Connected callback is queued for the handle
  tag,          \* GNS: m_nConnUserData
  mail,         \* messages sent and not yet pulled
  batch,        \* messages pulled by this pass and not yet handled
  client,       \* the exchange as the remote end sees it
  pend,         \* pendingConns_
  age,          \* now - pendingSinceMs_, up to the deadline
  exch,         \* g_host[i]: the connection whose exchange is open
  peerConns,    \* peerConns_[1..kMaxPeers-1]
  provedGuid    \* provedGuidBySlot_

gnsVars  == <<socket, connectedCb, tag>>
bandVars == <<pend, age, exch>>
seatVars == <<peerConns, provedGuid>>
vars == <<phase, socket, connectedCb, tag, mail, batch, client,
          pend, age, exch, peerConns, provedGuid>>

TypeOK ==
  /\ phase \in {"callbacks", "receive", "drain"}
  /\ socket \in [Conns -> {"idle", "open", "closed"}]
  /\ connectedCb \in [Conns -> BOOLEAN]
  /\ tag \in [Conns -> Tags]
  /\ mail \in [Conns -> SUBSET Kinds]
  /\ batch \in SUBSET Messages
  /\ client \in [Conns -> {"fresh", "helloed", "challenged", "answered"}]
  /\ pend \in [Band -> Conns \cup {NoConn}]
  /\ age \in [Band -> 0..Deadline]
  /\ exch \in [Band -> Conns \cup {NoConn}]
  /\ peerConns \in [Seats -> Conns \cup {NoConn}]
  /\ provedGuid \in [Seats -> Keys \cup {NoKey}]

Init ==
  /\ phase = "callbacks"
  /\ socket = [c \in Conns |-> "idle"]
  /\ connectedCb = [c \in Conns |-> FALSE]
  /\ tag = [c \in Conns |-> NoTag]
  /\ mail = [c \in Conns |-> {}]
  /\ batch = {}
  /\ client = [c \in Conns |-> "fresh"]
  /\ pend = [i \in Band |-> NoConn]
  /\ age = [i \in Band |-> 0]
  /\ exch = [i \in Band |-> NoConn]
  /\ peerConns = [s \in Seats |-> NoConn]
  /\ provedGuid = [s \in Seats |-> NoKey]

InBand(c) == \E i \in Band : pend[i] = c
Seated(c) == \E s \in Seats : peerConns[s] = c

-----------------------------------------------------------------------------
(* Status callbacks.                                                       *)

FreeEntries == {i \in Band : pend[i] = NoConn}

\* A full band gives up its oldest entry, and an entry whose exchange is open
\* only when every entry's is.  Entries of one age are told apart by the
\* millisecond in the code, so the model lets any of them go.
EvictionPool ==
  LET silent == {i \in Band : exch[i] = NoConn}
  IN  IF silent # {} THEN silent ELSE Band
Victims == {i \in EvictionPool : \A j \in EvictionPool : age[i] >= age[j]}

\* Variant: the exchange outlives its entry.
ForgetNothing(i) == exch' = exch
Forget(i)  == exch' = [exch EXCEPT ![i] = NoConn]
Purge(C)   == mail' = [c \in Conns |-> IF c \in C THEN {} ELSE mail[c]]
Shut(C, s) == [c \in Conns |-> IF c \in C THEN "closed" ELSE s[c]]

\* ParkPending: take the first free entry, or evict; the handle is in state st
\* afterwards ("closed" when a dead handle is late-parked).
ParkPending(c, st) ==
  \/ \E i \in FreeEntries :
       /\ \A j \in FreeEntries : i <= j
       /\ pend' = [pend EXCEPT ![i] = c]
       /\ age' = [age EXCEPT ![i] = 0]
       /\ tag' = [tag EXCEPT ![c] = <<"pending", i>>]
       /\ socket' = [socket EXCEPT ![c] = st]
       /\ UNCHANGED <<exch, mail>>
  \/ /\ FreeEntries = {}
     /\ \E i \in Victims :
          /\ pend' = [pend EXCEPT ![i] = c]
          /\ age' = [age EXCEPT ![i] = 0]
          /\ tag' = [tag EXCEPT ![c] = <<"pending", i>>]
          /\ socket' = Shut({pend[i]}, [socket EXCEPT ![c] = st])
          /\ Forget(i)
          /\ Purge({pend[i]})

\* The None -> Connecting edge, accepted: park, never seat.
ConnectingEdge(c) ==
  /\ phase = "callbacks"
  /\ socket[c] = "idle"
  /\ ParkPending(c, "open")
  /\ connectedCb' = [connectedCb EXCEPT ![c] = TRUE]
  /\ UNCHANGED <<phase, batch, client, peerConns, provedGuid>>

\* The same edge refused: banned, outside the LAN, or AcceptConnection failed.
RefuseConnecting(c) ==
  /\ phase = "callbacks"
  /\ socket[c] = "idle"
  /\ socket' = [socket EXCEPT ![c] = "closed"]
  /\ UNCHANGED <<phase, connectedCb, tag, mail, batch, client, bandVars, seatVars>>

\* The Connected edge of a handle that is parked already: nothing to do, the
\* link is finished at admission.
ConnectedEdge(c) ==
  /\ phase = "callbacks"
  /\ connectedCb[c]
  /\ InBand(c) \/ Seated(c)
  /\ connectedCb' = [connectedCb EXCEPT ![c] = FALSE]
  /\ UNCHANGED <<phase, socket, tag, mail, batch, client, bandVars, seatVars>>

\* The Connected edge of a handle with neither entry nor seat: GNS skipped the
\* Connecting edge, or the handle was closed while this callback was queued.
\* The ban filter runs again and fails closed for a handle it cannot resolve;
\* with no filter installed the handle is parked, alive or not.
LateParkEdge(c) ==
  /\ phase = "callbacks"
  /\ \/ socket[c] = "idle" /\ ParkPending(c, "open")
     \/ socket[c] = "closed" /\ connectedCb[c] /\ ~FilterInstalled
        /\ ~InBand(c) /\ ParkPending(c, "closed")
  /\ connectedCb' = [connectedCb EXCEPT ![c] = FALSE]
  /\ UNCHANGED <<phase, batch, client, peerConns, provedGuid>>

\* That edge with a filter installed and no address to check.
RefuseLatePark(c) ==
  /\ phase = "callbacks"
  /\ connectedCb[c]
  /\ FilterInstalled
  /\ socket[c] = "closed"
  /\ ~InBand(c)
  /\ connectedCb' = [connectedCb EXCEPT ![c] = FALSE]
  /\ UNCHANGED <<phase, socket, tag, mail, batch, client, bandVars, seatVars>>

\* ReleasePending: the entry and its exchange go with the handle.
ReleasePending(c) ==
  /\ pend' = [i \in Band |-> IF pend[i] = c THEN NoConn ELSE pend[i]]
  /\ exch' = [i \in Band |-> IF pend[i] = c THEN NoConn ELSE exch[i]]
  /\ age'  = [i \in Band |-> IF pend[i] = c THEN 0 ELSE age[i]]

\* ClosedByPeer / ProblemDetectedLocally: the entry or the seat is released.
ClosedEdge(c) ==
  /\ phase = "callbacks"
  /\ socket[c] = "open"
  /\ ReleasePending(c)
  /\ peerConns'  = [s \in Seats |-> IF peerConns[s] = c THEN NoConn ELSE peerConns[s]]
  /\ provedGuid' = [s \in Seats |-> IF peerConns[s] = c THEN NoKey ELSE provedGuid[s]]
  /\ socket' = Shut({c}, socket)
  /\ connectedCb' = [connectedCb EXCEPT ![c] = FALSE]
  /\ Purge({c})
  /\ UNCHANGED <<phase, tag, batch, client>>

-----------------------------------------------------------------------------
(* The rest of a pass: sweep, receive, handle.                             *)

\* Variant: a deadline that is declared and never enforced.
NeverExpired == {}
Expired == {i \in Band : pend[i] # NoConn /\ age[i] = Deadline}

\* SweepPending closes every entry past the deadline; the pass then receives.
SweepPending ==
  /\ phase = "callbacks"
  /\ phase' = "receive"
  /\ pend' = [i \in Band |-> IF i \in Expired THEN NoConn ELSE pend[i]]
  /\ age'  = [i \in Band |-> IF i \in Expired THEN 0 ELSE age[i]]
  /\ exch' = [i \in Band |-> IF i \in Expired THEN NoConn ELSE exch[i]]
  /\ socket' = Shut({pend[i] : i \in Expired}, socket)
  /\ Purge({pend[i] : i \in Expired})
  /\ UNCHANGED <<connectedCb, tag, batch, client, seatVars>>

\* The messages that can be pulled now, each with its tag's pending index.
\* (What a seated socket sends is the subject of SlotLifecycle.)
Arrived == {m \in Messages : /\ tag[m.conn] = <<"pending", m.idx>>
                             /\ m.kind \in mail[m.conn]}

\* ReceiveMessagesOnPollGroup: any part of what was sent has arrived by now.
ReceiveBatch ==
  /\ phase = "receive"
  /\ phase' = "drain"
  /\ \E B \in SUBSET Arrived :
       /\ batch' = B
       /\ mail' = [c \in Conns |-> {k \in mail[c] :
                                      \A m \in B : ~(m.conn = c /\ m.kind = k)}]
  /\ UNCHANGED <<socket, connectedCb, tag, client, bandVars, seatVars>>

EndPass ==
  /\ phase = "drain"
  /\ batch = {}
  /\ phase' = "callbacks"
  /\ UNCHANGED <<socket, connectedCb, tag, mail, batch, client, bandVars, seatVars>>

\* The band is the authority on whether a pulled message still has an owner.
Live(m) == pend[m.idx] = m.conn

\* HandlePendingMessage's early returns: the entry is gone, or the packet is
\* not a reliable one of this protocol version.
DropMessage(m) ==
  /\ phase = "drain"
  /\ m \in batch
  /\ batch' = batch \ {m}
  /\ ~Live(m) \/ m.kind = "noise"
  /\ UNCHANGED <<phase, gnsVars, mail, client, bandVars, seatVars>>

\* Variant: a refusal that leaves the socket open.
RetireOnly(m) ==
  /\ pend' = [pend EXCEPT ![m.idx] = NoConn]
  /\ age'  = [age EXCEPT ![m.idx] = 0]
  /\ Forget(m.idx)
  /\ UNCHANGED <<socket, mail>>

\* RetirePending: clear the entry by handle, forget its exchange, close.
Retire(m) ==
  /\ pend' = [pend EXCEPT ![m.idx] = NoConn]
  /\ age'  = [age EXCEPT ![m.idx] = 0]
  /\ Forget(m.idx)
  /\ socket' = Shut({m.conn}, socket)
  /\ Purge({m.conn})

\* HostOnPendingReliable never answers from a row another handle opened.
ExchangeOpen(m) == exch[m.idx] = m.conn

\* What is refused: a second Hello, a Hello without a key identity or whose
\* challenge cannot be sent, a Proof out of turn or one that does not verify,
\* and anything else said before the identity is proved.
Refused(m) ==
  \/ m.kind = "bad"
  \/ m.kind = "hello"
  \/ m.kind = "proof" /\ ~ExchangeOpen(m)

RefuseMessage(m) ==
  /\ phase = "drain"
  /\ m \in batch
  /\ batch' = batch \ {m}
  /\ Live(m)
  /\ Refused(m)
  /\ Retire(m)
  /\ UNCHANGED <<phase, connectedCb, tag, client, seatVars>>

\* AuthHello: open the exchange and challenge the peer.
OpenExchange(m) ==
  /\ phase = "drain"
  /\ m \in batch
  /\ batch' = batch \ {m}
  /\ Live(m)
  /\ m.kind = "hello"
  /\ ~ExchangeOpen(m)
  /\ KeyOf[m.conn] # NoKey
  /\ exch' = [exch EXCEPT ![m.idx] = m.conn]
  /\ client' = [client EXCEPT ![m.conn] =
                  IF @ = "helloed" THEN "challenged" ELSE @]
  /\ UNCHANGED <<phase, gnsVars, mail, pend, age, seatVars>>

-----------------------------------------------------------------------------
(* Admission.                                                              *)

Holds(s, c) == peerConns[s] # NoConn /\ provedGuid[s] = KeyOf[c]

\* Variant: no supersession.
NoGhosts(c) == {}

\* The first seat already held under the identity a socket proves.
Ghosts(c) == {s \in Seats : Holds(s, c) /\ \A t \in Seats : Holds(t, c) => s <= t}

\* Variants: the identity outlives its seat; the full-lobby test does not see
\* the seat the ghost gave up.
ProvedKept(G)         == provedGuid
FreeBeforeGhost(held) == {s \in Seats : peerConns[s] = NoConn}

\* peerConns_ and provedGuidBySlot_ once the ghost's seat is given up.
SeatsWithout(G)  == [s \in Seats |-> IF s \in G THEN NoConn ELSE peerConns[s]]
ProvedWithout(G) == [s \in Seats |-> IF s \in G THEN NoKey ELSE provedGuid[s]]
FreeSeats(held)  == {s \in Seats : held[s] = NoConn}

\* The message that decides an admission.
Proves(m) ==
  /\ phase = "drain"
  /\ m \in batch
  /\ Live(m)
  /\ m.kind = "proof"
  /\ ExchangeOpen(m)

\* Supersede the identity's older seat, take the lowest free seat, publish
\* the proved guid, and leave the band.
AdmitProved(m) ==
  /\ Proves(m)
  /\ batch' = batch \ {m}
  /\ LET ghosts == Ghosts(m.conn)
         free   == FreeSeats(SeatsWithout(ghosts))
     IN  \E s \in free :
           /\ \A t \in free : s <= t
           /\ peerConns'  = [SeatsWithout(ghosts) EXCEPT ![s] = m.conn]
           /\ provedGuid' = [ProvedWithout(ghosts) EXCEPT ![s] = KeyOf[m.conn]]
           /\ tag' = [tag EXCEPT ![m.conn] = <<"seat", s>>]
           /\ socket' = Shut({peerConns[g] : g \in ghosts}, socket)
           /\ Purge({peerConns[g] : g \in ghosts})
  /\ pend' = [pend EXCEPT ![m.idx] = NoConn]
  /\ age'  = [age EXCEPT ![m.idx] = 0]
  /\ Forget(m.idx)
  /\ UNCHANGED <<phase, connectedCb, client>>

\* Variant: the lobby is called full before the ghost is looked for.
RefuseBeforeGhost(m) ==
  /\ Proves(m)
  /\ FreeSeats(peerConns) = {}
  /\ batch' = batch \ {m}
  /\ Retire(m)
  /\ UNCHANGED <<phase, connectedCb, tag, client, seatVars>>

\* The lobby is full of admitted players under other identities.
RefuseFull(m) ==
  /\ Proves(m)
  /\ Ghosts(m.conn) = {}
  /\ FreeSeats(peerConns) = {}
  /\ batch' = batch \ {m}
  /\ Retire(m)
  /\ UNCHANGED <<phase, connectedCb, tag, client, seatVars>>

-----------------------------------------------------------------------------
(* The environment: the remote ends, and time.                             *)

Send(c, k) == mail' = [mail EXCEPT ![c] = @ \cup {k}]

\* ClientOnConnected: one Hello per link.
SendHello(c) ==
  /\ socket[c] = "open"
  /\ client[c] = "fresh"
  /\ client' = [client EXCEPT ![c] = "helloed"]
  /\ Send(c, "hello")
  /\ UNCHANGED <<phase, gnsVars, batch, bandVars, seatVars>>

\* ClientOnReliable on the challenge.  A round trip spans at least one pass of
\* the host, so the Connected callback was dispatched before the proof arrives.
SendProof(c) ==
  /\ socket[c] = "open"
  /\ ~connectedCb[c]
  /\ client[c] = "challenged"
  /\ client' = [client EXCEPT ![c] = "answered"]
  /\ Send(c, "proof")
  /\ UNCHANGED <<phase, gnsVars, batch, bandVars, seatVars>>

\* A build that does not follow the exchange (the auth drill, an old version):
\* it may say anything but a proof that verifies.
Misbehave(c) ==
  /\ c \in Faulty
  /\ socket[c] = "open"
  /\ InBand(c)
  /\ Cardinality(mail[c]) < MaxMail
  /\ \E k \in Kinds \ {"proof"} : Send(c, k)
  /\ UNCHANGED <<phase, gnsVars, batch, client, bandVars, seatVars>>

\* Variant: a clock that does not stop at the deadline.
TickOn ==
  /\ \E i \in Band : pend[i] # NoConn
  /\ age' = [i \in Band |-> IF pend[i] # NoConn THEN age[i] + 1 ELSE age[i]]
  /\ UNCHANGED <<phase, gnsVars, mail, batch, client, pend, exch, seatVars>>

\* The clock moves on for every parked entry.
Tick ==
  /\ \E i \in Band : pend[i] # NoConn /\ age[i] < Deadline
  /\ age' = [i \in Band |-> IF pend[i] # NoConn /\ age[i] < Deadline
                            THEN age[i] + 1 ELSE age[i]]
  /\ UNCHANGED <<phase, gnsVars, mail, batch, client, pend, exch, seatVars>>

-----------------------------------------------------------------------------
Callback == \E c \in Conns :
  \/ ConnectingEdge(c)
  \/ RefuseConnecting(c)
  \/ ConnectedEdge(c)
  \/ LateParkEdge(c)
  \/ RefuseLatePark(c)
  \/ ClosedEdge(c)

HandleMessage == \E m \in Messages :
  \/ DropMessage(m)
  \/ RefuseMessage(m)
  \/ OpenExchange(m)
  \/ AdmitProved(m)
  \/ RefuseFull(m)

Remote == \E c \in Conns :
  \/ SendHello(c)
  \/ SendProof(c)
  \/ Misbehave(c)

Next ==
  \/ Callback
  \/ SweepPending
  \/ ReceiveBatch
  \/ HandleMessage
  \/ EndPass
  \/ Remote
  \/ Tick

Spec == Init /\ [][Next]_vars

\* The net thread runs its loop, time passes, and a pulled message is handled.
Fairness ==
  /\ WF_vars(SweepPending)
  /\ WF_vars(ReceiveBatch)
  /\ WF_vars(HandleMessage)
  /\ WF_vars(EndPass)
  /\ WF_vars(Tick)

FairSpec == Spec /\ Fairness

-----------------------------------------------------------------------------
(* Properties.                                                             *)

EverySocketOwned == \A c \in Conns : socket[c] = "open" =>
  \/ \E i \in Band  : tag[c] = <<"pending", i>> /\ pend[i] = c
  \/ \E s \in Seats : tag[c] = <<"seat", s>> /\ peerConns[s] = c
BandDistinct  == \A i, j \in Band : pend[i] # NoConn /\ pend[i] = pend[j] => i = j
SeatsDistinct == \A s, t \in Seats :
                   peerConns[s] # NoConn /\ peerConns[s] = peerConns[t] => s = t
BandOffSeats  == \A i \in Band, s \in Seats : pend[i] # NoConn => pend[i] # peerConns[s]
SeatsOpen     == \A s \in Seats : peerConns[s] # NoConn => socket[peerConns[s]] = "open"

\* Every socket the host accepted is owned by exactly one pending entry or one
\* seat, its user data routes its traffic to that owner, and a seat never holds
\* a socket the host has closed.  A socket with no owner is one that neither
\* the sweep nor a kick would ever close.
SocketOwned ==
  EverySocketOwned /\ BandDistinct /\ SeatsDistinct /\ BandOffSeats /\ SeatsOpen

\* An open exchange never outlives the band entry it was opened for, on any of
\* the paths that free or recycle an entry: otherwise the next socket parked
\* there could answer its predecessor's challenge.
ExchangeDiesWithEntry ==
  \A i \in Band : exch[i] # NoConn => exch[i] = pend[i]

\* One identity, one seat: two connections of one key never sit at once (the
\* stored inventory is keyed by identity, so two seats would overwrite it).
OneSeatPerIdentity ==
  \A s, t \in Seats :
    /\ peerConns[s] # NoConn
    /\ peerConns[t] # NoConn
    /\ KeyOf[peerConns[s]] = KeyOf[peerConns[t]]
    => s = t

\* Whoever sits answered the challenge sent to that very socket, and the guid
\* published for the seat is that of the key it proved; a free seat has none.
SeatedByProof ==
  \A s \in Seats :
    /\ peerConns[s] # NoConn =>
         /\ client[peerConns[s]] = "answered"
         /\ KeyOf[peerConns[s]] \in Keys
         /\ provedGuid[s] = KeyOf[peerConns[s]]
    /\ peerConns[s] = NoConn => provedGuid[s] = NoKey

\* A player who proves the identity of a seat that is still occupied is never
\* told that the lobby is full: its own ghost makes room.
RejoinNeverRefused ==
  [][\A m \in batch : Proves(m) /\ m \notin batch' /\ (\E s \in Seats : Holds(s, m.conn))
                      => (Seated(m.conn))']_vars

\* No socket stays in the band: it is seated, refused, evicted, closed, or
\* swept at the deadline, a dead handle that was late-parked included.
BandDrains == \A c \in Conns : InBand(c) ~> ~InBand(c)

\* Admission implements the abstract lobby.
Lobby == INSTANCE LobbySeats WITH
           Players  <- Keys,
           Nobody   <- NoKey,
           NumSeats <- NumSeats,
           seat     <- [s \in Seats |-> IF peerConns[s] = NoConn THEN NoKey
                                        ELSE KeyOf[peerConns[s]]]
LobbyRefinement == Lobby!Spec
=============================================================================
