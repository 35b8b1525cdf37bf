----------------------- MODULE AdmissionBand_proofs -----------------------
(* Theorems about AdmissionBand for any number of sockets, keys, band      *)
(* entries and seats, any deadline, and any set of faulty sockets.         *)
EXTENDS AdmissionBand, TLAPS

USE DEF Band, Seats, Kinds, Tags, NoTag, Messages

-----------------------------------------------------------------------------
(* Type correctness.                                                       *)

LEMMA InitTypeOK == Init => TypeOK
BY ConnsAssumption, KeysAssumption, SizesAssumption DEF Init, TypeOK

\* The entry ParkPending takes: a free one, or one whose socket it closes.
ParkedAt(i, c, st) ==
  /\ pend' = [pend EXCEPT ![i] = c]
  /\ age' = [age EXCEPT ![i] = 0]
  /\ tag' = [tag EXCEPT ![c] = <<"pending", i>>]
  /\ \/ /\ pend[i] = NoConn
        /\ socket' = [socket EXCEPT ![c] = st]
        /\ UNCHANGED <<exch, mail>>
     \/ /\ pend[i] # NoConn
        /\ socket' = Shut({pend[i]}, [socket EXCEPT ![c] = st])
        /\ Forget(i)
        /\ Purge({pend[i]})

LEMMA ParkChoosesEntry ==
  ASSUME NEW c, NEW st, ParkPending(c, st)
  PROVE  \E i \in Band : ParkedAt(i, c, st)
<1>1. CASE \E i \in FreeEntries :
             /\ pend' = [pend EXCEPT ![i] = c]
             /\ age' = [age EXCEPT ![i] = 0]
             /\ tag' = [tag EXCEPT ![c] = <<"pending", i>>]
             /\ socket' = [socket EXCEPT ![c] = st]
             /\ UNCHANGED <<exch, mail>>
  BY <1>1 DEF FreeEntries, ParkedAt
<1>2. CASE /\ FreeEntries = {}
           /\ \E i \in Victims :
                /\ pend' = [pend EXCEPT ![i] = c]
                /\ age' = [age EXCEPT ![i] = 0]
                /\ tag' = [tag EXCEPT ![c] = <<"pending", i>>]
                /\ socket' = Shut({pend[i]}, [socket EXCEPT ![c] = st])
                /\ Forget(i)
                /\ Purge({pend[i]})
  <2>1. Victims \subseteq Band
    BY DEF Victims, EvictionPool
  <2> QED BY <1>2, <2>1 DEF FreeEntries, ParkedAt
<1> QED BY <1>1, <1>2 DEF ParkPending

\* Parking a handle, in a free entry or in an evicted one, is well typed.
LEMMA ParkTypeOK ==
  ASSUME TypeOK, NEW c \in Conns, NEW st \in {"open", "closed"}, ParkPending(c, st)
  PROVE  /\ pend' \in [Band -> Conns \cup {NoConn}]
         /\ age' \in [Band -> 0..Deadline]
         /\ exch' \in [Band -> Conns \cup {NoConn}]
         /\ tag' \in [Conns -> Tags]
         /\ socket' \in [Conns -> {"idle", "open", "closed"}]
         /\ mail' \in [Conns -> SUBSET Kinds]
<1>1. PICK i \in Band : ParkedAt(i, c, st)
  BY ParkChoosesEntry
<1>2. /\ pend' \in [Band -> Conns \cup {NoConn}]
      /\ age' \in [Band -> 0..Deadline]
  BY <1>1, SizesAssumption DEF ParkedAt, TypeOK
<1>3. tag' \in [Conns -> Tags]
  BY <1>1 DEF ParkedAt, TypeOK
<1>4. exch' \in [Band -> Conns \cup {NoConn}]
  BY <1>1 DEF ParkedAt, Forget, TypeOK
<1>5. socket' \in [Conns -> {"idle", "open", "closed"}]
  BY <1>1 DEF ParkedAt, Shut, TypeOK
<1>6. mail' \in [Conns -> SUBSET Kinds]
  BY <1>1 DEF ParkedAt, Purge, TypeOK
<1> QED BY <1>2, <1>3, <1>4, <1>5, <1>6

LEMMA CallbackTypeOK == TypeOK /\ Callback => TypeOK'
<1> SUFFICES ASSUME TypeOK, NEW c \in Conns,
                    \/ ConnectingEdge(c) \/ RefuseConnecting(c) \/ ConnectedEdge(c)
                    \/ LateParkEdge(c) \/ RefuseLatePark(c) \/ ClosedEdge(c)
             PROVE  TypeOK'
  BY DEF Callback
<1>1. CASE ConnectingEdge(c)
  BY <1>1, ParkTypeOK DEF ConnectingEdge, TypeOK
<1>2. CASE RefuseConnecting(c)
  BY <1>2 DEF RefuseConnecting, TypeOK, bandVars, seatVars
<1>3. CASE ConnectedEdge(c)
  BY <1>3 DEF ConnectedEdge, TypeOK, bandVars, seatVars
<1>4. CASE LateParkEdge(c)
  <2>1. \E st \in {"open", "closed"} : ParkPending(c, st)
    BY <1>4 DEF LateParkEdge
  <2> QED BY <1>4, <2>1, ParkTypeOK DEF LateParkEdge, TypeOK
<1>5. CASE RefuseLatePark(c)
  BY <1>5 DEF RefuseLatePark, TypeOK, bandVars, seatVars
<1>6. CASE ClosedEdge(c)
  BY <1>6, SizesAssumption DEF ClosedEdge, ReleasePending, Shut, Purge, TypeOK
<1> QED BY <1>1, <1>2, <1>3, <1>4, <1>5, <1>6

LEMMA HandlerTypeOK == TypeOK /\ HandleMessage => TypeOK'
<1> SUFFICES ASSUME TypeOK, NEW m \in Messages,
                    \/ DropMessage(m) \/ RefuseMessage(m) \/ OpenExchange(m)
                    \/ AdmitProved(m) \/ RefuseFull(m)
             PROVE  TypeOK'
  BY DEF HandleMessage
<1>1. CASE DropMessage(m)
  BY <1>1 DEF DropMessage, TypeOK, gnsVars, bandVars, seatVars
<1>2. CASE RefuseMessage(m)
  BY <1>2, SizesAssumption DEF RefuseMessage, Retire, Forget, Shut, Purge, TypeOK, seatVars
<1>3. CASE OpenExchange(m)
  BY <1>3 DEF OpenExchange, TypeOK, gnsVars, seatVars
<1>4. CASE AdmitProved(m)
  <2>1. /\ pend' = [pend EXCEPT ![m.idx] = NoConn]
        /\ age' = [age EXCEPT ![m.idx] = 0]
        /\ exch' = [exch EXCEPT ![m.idx] = NoConn]
        /\ batch' = batch \ {m}
        /\ UNCHANGED <<phase, connectedCb, client>>
    BY <1>4 DEF AdmitProved, Forget
  <2>2. PICK s \in Seats :
           /\ peerConns' = [SeatsWithout(Ghosts(m.conn)) EXCEPT ![s] = m.conn]
           /\ provedGuid' = [ProvedWithout(Ghosts(m.conn)) EXCEPT ![s] = KeyOf[m.conn]]
           /\ tag' = [tag EXCEPT ![m.conn] = <<"seat", s>>]
           /\ socket' = Shut({peerConns[g] : g \in Ghosts(m.conn)}, socket)
           /\ Purge({peerConns[g] : g \in Ghosts(m.conn)})
    BY <1>4 DEF AdmitProved, FreeSeats
  <2>3. m.conn \in Conns /\ m.idx \in Band
    OBVIOUS
  <2>4. peerConns' \in [Seats -> Conns \cup {NoConn}]
    BY <2>2, <2>3 DEF SeatsWithout, TypeOK
  <2>5. provedGuid' \in [Seats -> Keys \cup {NoKey}]
    BY <2>2, <2>3, KeysAssumption DEF ProvedWithout, TypeOK
  <2>6. tag' \in [Conns -> Tags]
    BY <2>2, <2>3 DEF TypeOK
  <2>7. socket' \in [Conns -> {"idle", "open", "closed"}]
    BY <2>2 DEF Shut, TypeOK
  <2>8. mail' \in [Conns -> SUBSET Kinds]
    BY <2>2 DEF Purge, TypeOK
  <2>9. /\ pend' \in [Band -> Conns \cup {NoConn}]
        /\ age' \in [Band -> 0..Deadline]
        /\ exch' \in [Band -> Conns \cup {NoConn}]
    BY <2>1, <2>3, SizesAssumption DEF TypeOK
  <2> QED BY <2>1, <2>4, <2>5, <2>6, <2>7, <2>8, <2>9 DEF TypeOK
<1>5. CASE RefuseFull(m)
  BY <1>5, SizesAssumption DEF RefuseFull, Proves, Retire, Forget, Shut, Purge, TypeOK, seatVars
<1> QED BY <1>1, <1>2, <1>3, <1>4, <1>5

LEMMA RemoteTypeOK == TypeOK /\ Remote => TypeOK'
<1> SUFFICES ASSUME TypeOK, NEW c \in Conns,
                    SendHello(c) \/ SendProof(c) \/ Misbehave(c)
             PROVE  TypeOK'
  BY DEF Remote
<1>1. CASE SendHello(c)
  BY <1>1 DEF SendHello, Send, TypeOK, gnsVars, bandVars, seatVars
<1>2. CASE SendProof(c)
  BY <1>2 DEF SendProof, Send, TypeOK, gnsVars, bandVars, seatVars
<1>3. CASE Misbehave(c)
  BY <1>3 DEF Misbehave, Send, TypeOK, gnsVars, bandVars, seatVars
<1> QED BY <1>1, <1>2, <1>3

LEMMA PassTypeOK == TypeOK /\ (SweepPending \/ ReceiveBatch \/ EndPass \/ Tick) => TypeOK'
<1> SUFFICES ASSUME TypeOK, SweepPending \/ ReceiveBatch \/ EndPass \/ Tick
             PROVE  TypeOK'
  OBVIOUS
<1>1. CASE SweepPending
  BY <1>1, SizesAssumption DEF SweepPending, Shut, Purge, Expired, TypeOK, seatVars
<1>2. CASE ReceiveBatch
  BY <1>2, SMTT(30) DEF ReceiveBatch, Arrived, TypeOK, bandVars, seatVars
<1>3. CASE EndPass
  BY <1>3 DEF EndPass, TypeOK, gnsVars, bandVars, seatVars
<1>4. CASE Tick
  BY <1>4, SizesAssumption DEF Tick, TypeOK, gnsVars, seatVars
<1> QED BY <1>1, <1>2, <1>3, <1>4

LEMMA NextTypeOK == TypeOK /\ [Next]_vars => TypeOK'
<1>1. CASE UNCHANGED vars
  BY <1>1 DEF TypeOK, vars
<1> QED BY <1>1, CallbackTypeOK, HandlerTypeOK, RemoteTypeOK, PassTypeOK DEF Next

\* Every variable keeps its type.
THEOREM TypeCorrect == Spec => []TypeOK
<1> QED BY InitTypeOK, NextTypeOK, PTL DEF Spec

-----------------------------------------------------------------------------
(* The exchange and the band entry it belongs to.                          *)

\* An exchange is only opened for a socket that presented a key.
ExchangeKeyed == \A i \in Band : exch[i] # NoConn => KeyOf[exch[i]] \in Keys

ExchangeInv == ExchangeDiesWithEntry /\ ExchangeKeyed

LEMMA ParkKeepsExchange ==
  ASSUME TypeOK, ExchangeInv, NEW c \in Conns, NEW st, ParkPending(c, st)
  PROVE  ExchangeInv'
<1>1. PICK i \in Band : ParkedAt(i, c, st)
  BY ParkChoosesEntry
<1>2. exch'[i] = NoConn
  BY <1>1 DEF ParkedAt, Forget, TypeOK, ExchangeInv, ExchangeDiesWithEntry
<1>3. \A j \in Band \ {i} : exch'[j] = exch[j] /\ pend'[j] = pend[j]
  BY <1>1 DEF ParkedAt, Forget, TypeOK
<1> QED BY <1>2, <1>3 DEF ExchangeInv, ExchangeDiesWithEntry, ExchangeKeyed

LEMMA RetireKeepsExchange ==
  ASSUME TypeOK, ExchangeInv, NEW m \in Messages, pend' = [pend EXCEPT ![m.idx] = NoConn],
         Forget(m.idx)
  PROVE  ExchangeInv'
BY DEF Forget, TypeOK, ExchangeInv, ExchangeDiesWithEntry, ExchangeKeyed

LEMMA NextExchangeInv == TypeOK /\ ExchangeInv /\ [Next]_vars => ExchangeInv'
<1> SUFFICES ASSUME TypeOK, ExchangeInv, [Next]_vars
             PROVE  ExchangeInv'
  OBVIOUS
<1>1. ASSUME UNCHANGED <<pend, exch>>
      PROVE  ExchangeInv'
  BY <1>1 DEF ExchangeInv, ExchangeDiesWithEntry, ExchangeKeyed
<1>2. ASSUME NEW c \in Conns, ConnectingEdge(c) \/ LateParkEdge(c)
      PROVE  ExchangeInv'
  BY <1>2, ParkKeepsExchange DEF ConnectingEdge, LateParkEdge
<1>3. ASSUME NEW c \in Conns, ClosedEdge(c)
      PROVE  ExchangeInv'
  BY <1>3 DEF ClosedEdge, ReleasePending, ExchangeInv, ExchangeDiesWithEntry, ExchangeKeyed
<1>4. CASE SweepPending
  BY <1>4 DEF SweepPending, ExchangeInv, ExchangeDiesWithEntry, ExchangeKeyed
<1>5. ASSUME NEW m \in Messages, RefuseMessage(m) \/ RefuseFull(m) \/ AdmitProved(m)
      PROVE  ExchangeInv'
  BY <1>5, RetireKeepsExchange DEF RefuseMessage, RefuseFull, AdmitProved, Retire
<1>6. ASSUME NEW m \in Messages, OpenExchange(m)
      PROVE  ExchangeInv'
  <2>1. /\ exch' = [exch EXCEPT ![m.idx] = m.conn]
        /\ pend' = pend
        /\ pend[m.idx] = m.conn
        /\ KeyOf[m.conn] # NoKey
    BY <1>6 DEF OpenExchange, Live
  <2>2. m.conn \in Conns /\ m.idx \in Band
    OBVIOUS
  <2>3. KeyOf[m.conn] \in Keys
    BY <2>1, <2>2, KeysAssumption
  <2>4. exch'[m.idx] = m.conn
    BY <2>1, <2>2 DEF TypeOK
  <2>5. \A j \in Band \ {m.idx} : exch'[j] = exch[j]
    BY <2>1, <2>2 DEF TypeOK
  <2> QED BY <2>1, <2>3, <2>4, <2>5
          DEF ExchangeInv, ExchangeDiesWithEntry, ExchangeKeyed
<1>7. ASSUME NEW c \in Conns, RefuseConnecting(c) \/ ConnectedEdge(c) \/ RefuseLatePark(c)
      PROVE  UNCHANGED <<pend, exch>>
  BY <1>7 DEF RefuseConnecting, ConnectedEdge, RefuseLatePark, bandVars
<1>8. ASSUME NEW m \in Messages, DropMessage(m)
      PROVE  UNCHANGED <<pend, exch>>
  BY <1>8 DEF DropMessage, bandVars
<1>9. ASSUME ReceiveBatch \/ EndPass \/ Tick \/ UNCHANGED vars
      PROVE  UNCHANGED <<pend, exch>>
  BY <1>9 DEF ReceiveBatch, EndPass, Tick, vars, bandVars
<1>10. ASSUME Remote PROVE UNCHANGED <<pend, exch>>
  BY <1>10 DEF Remote, SendHello, SendProof, Misbehave, bandVars
<1> QED BY <1>1, <1>2, <1>3, <1>4, <1>5, <1>6, <1>7, <1>8, <1>9, <1>10
        DEF Next, Callback, HandleMessage

\* An open exchange belongs to the socket that is parked in its entry now.
THEOREM ExchangeOwned == Spec => []ExchangeDiesWithEntry
<1>1. Init => ExchangeInv
  BY DEF Init, ExchangeInv, ExchangeDiesWithEntry, ExchangeKeyed
<1>2. ExchangeInv => ExchangeDiesWithEntry
  BY DEF ExchangeInv
<1> QED BY <1>1, <1>2, TypeCorrect, NextExchangeInv, PTL DEF Spec

-----------------------------------------------------------------------------
(* Who may sit: a proof in flight was made by a peer that answered, and a   *)
(* peer that answered stays answered.                                       *)

ProofsAnswered ==
  /\ \A c \in Conns : "proof" \in mail[c] => client[c] = "answered"
  /\ \A m \in batch : m.kind = "proof" => client[m.conn] = "answered"

\* What an action does that sends nothing and pulls nothing.
Quiet ==
  /\ client' = client
  /\ batch' \subseteq batch
  /\ \A c \in Conns : mail'[c] \subseteq mail[c]

LEMMA PurgeShrinks ==
  ASSUME TypeOK, NEW C, Purge(C)
  PROVE  \A c \in Conns : mail'[c] \subseteq mail[c]
BY DEF Purge, TypeOK

LEMMA ParkShrinks ==
  ASSUME TypeOK, NEW c, NEW st, ParkPending(c, st)
  PROVE  \A d \in Conns : mail'[d] \subseteq mail[d]
<1>1. PICK i \in Band : ParkedAt(i, c, st)
  BY ParkChoosesEntry
<1> QED BY <1>1, PurgeShrinks DEF ParkedAt

LEMMA CallbackQuiet == TypeOK /\ Callback => Quiet
BY PurgeShrinks, ParkShrinks
   DEF Callback, ConnectingEdge, RefuseConnecting, ConnectedEdge, LateParkEdge,
       RefuseLatePark, ClosedEdge, Quiet

LEMMA HandlerQuiet ==
  ASSUME TypeOK, NEW m \in Messages,
         DropMessage(m) \/ RefuseMessage(m) \/ AdmitProved(m) \/ RefuseFull(m)
  PROVE  Quiet
<1>1. client' = client /\ batch' = batch \ {m}
  BY DEF DropMessage, RefuseMessage, AdmitProved, RefuseFull
<1>2. CASE DropMessage(m)
  BY <1>1, <1>2 DEF DropMessage, Quiet
<1>3. CASE RefuseMessage(m) \/ RefuseFull(m)
  BY <1>1, <1>3, PurgeShrinks DEF RefuseMessage, RefuseFull, Retire, Quiet
<1>4. CASE AdmitProved(m)
  <2>1. \E C : Purge(C)
    BY <1>4 DEF AdmitProved
  <2> QED BY <1>1, <2>1, PurgeShrinks DEF Quiet
<1> QED BY <1>2, <1>3, <1>4

LEMMA NextProofsAnswered == TypeOK /\ ProofsAnswered /\ [Next]_vars => ProofsAnswered'
<1> SUFFICES ASSUME TypeOK, ProofsAnswered, [Next]_vars
             PROVE  ProofsAnswered'
  OBVIOUS
<1>1. ASSUME Quiet PROVE ProofsAnswered'
  BY <1>1 DEF Quiet, ProofsAnswered
<1>2. ASSUME SweepPending \/ EndPass \/ Tick \/ UNCHANGED vars PROVE Quiet
  BY <1>2, PurgeShrinks DEF SweepPending, EndPass, Tick, vars, Quiet
<1>3. ASSUME NEW m \in Messages, OpenExchange(m) PROVE ProofsAnswered'
  <2>1. /\ mail' = mail
        /\ batch' = batch \ {m}
        /\ client' = [client EXCEPT ![m.conn] = IF @ = "helloed" THEN "challenged" ELSE @]
    BY <1>3 DEF OpenExchange
  <2>2. \A c \in Conns : client[c] = "answered" => client'[c] = "answered"
    BY <2>1 DEF TypeOK
  <2> QED BY <2>1, <2>2 DEF ProofsAnswered, TypeOK
<1>4. CASE ReceiveBatch
  <2>1. /\ client' = client
        /\ batch' \subseteq Arrived
        /\ \A c \in Conns : mail'[c] \subseteq mail[c]
    BY <1>4 DEF ReceiveBatch
  <2> QED BY <2>1 DEF Arrived, ProofsAnswered
<1>5. ASSUME NEW c \in Conns, SendHello(c) PROVE ProofsAnswered'
  BY <1>5 DEF SendHello, Send, ProofsAnswered, TypeOK
<1>6. ASSUME NEW c \in Conns, SendProof(c) PROVE ProofsAnswered'
  BY <1>6 DEF SendProof, Send, ProofsAnswered, TypeOK
<1>7. ASSUME NEW c \in Conns, Misbehave(c) PROVE ProofsAnswered'
  BY <1>7 DEF Misbehave, Send, ProofsAnswered, TypeOK
<1> QED BY <1>1, <1>2, <1>3, <1>4, <1>5, <1>6, <1>7, CallbackQuiet, HandlerQuiet
        DEF Next, HandleMessage, Remote

-----------------------------------------------------------------------------
(* The seats.                                                              *)

SeatInv == SeatedByProof /\ OneSeatPerIdentity

\* An action that leaves the seats alone keeps what is known about them, since
\* no action takes back a peer's answer.
LEMMA AnswersStay ==
  ASSUME TypeOK, Next
  PROVE  \A c \in Conns : client[c] = "answered" => client'[c] = "answered"
<1>1. ASSUME NEW m \in Messages, OpenExchange(m)
      PROVE  \A c \in Conns : client[c] = "answered" => client'[c] = "answered"
  BY <1>1 DEF OpenExchange, TypeOK
<1>2. ASSUME NEW d \in Conns, SendHello(d) \/ SendProof(d)
      PROVE  \A c \in Conns : client[c] = "answered" => client'[c] = "answered"
  BY <1>2 DEF SendHello, SendProof, TypeOK
<1>3. ASSUME NEW d \in Conns, Misbehave(d) PROVE client' = client
  BY <1>3 DEF Misbehave
<1>4. ASSUME SweepPending \/ ReceiveBatch \/ EndPass \/ Tick PROVE client' = client
  BY <1>4 DEF SweepPending, ReceiveBatch, EndPass, Tick
<1> QED BY <1>1, <1>2, <1>3, <1>4, CallbackQuiet, HandlerQuiet
        DEF Next, HandleMessage, Remote, Quiet

LEMMA SeatsAlone ==
  ASSUME TypeOK, SeatInv, UNCHANGED seatVars,
         \A c \in Conns : client[c] = "answered" => client'[c] = "answered"
  PROVE  SeatInv'
BY DEF TypeOK, SeatInv, SeatedByProof, OneSeatPerIdentity, seatVars

\* The seat a proof is given: after the supersession no other seat holds the
\* identity, whichever seats were occupied before.
LEMMA AdmissionKeepsSeats ==
  ASSUME TypeOK, ExchangeInv, ProofsAnswered, SeatInv, NEW m \in Messages, AdmitProved(m)
  PROVE  SeatInv'
<1> DEFINE c == m.conn
           G == Ghosts(c)
<1>1. /\ c \in Conns /\ m.idx \in Band
      /\ client[c] = "answered"
      /\ client' = client
      /\ KeyOf[c] \in Keys
  <2>1. /\ m \in batch /\ m.kind = "proof"
        /\ exch[m.idx] = c
        /\ client' = client
    BY DEF AdmitProved, Proves, ExchangeOpen
  <2>2. c \in Conns /\ m.idx \in Band
    OBVIOUS
  <2>3. client[c] = "answered"
    BY <2>1 DEF ProofsAnswered
  <2>4. KeyOf[c] \in Keys
    BY <2>1, <2>2, ConnsAssumption DEF ExchangeInv, ExchangeKeyed
  <2> QED BY <2>1, <2>2, <2>3, <2>4
<1>2. PICK s \in Seats :
         /\ SeatsWithout(G)[s] = NoConn
         /\ peerConns' = [SeatsWithout(G) EXCEPT ![s] = c]
         /\ provedGuid' = [ProvedWithout(G) EXCEPT ![s] = KeyOf[c]]
  BY DEF AdmitProved, FreeSeats
<1>3. /\ peerConns'[s] = c
      /\ provedGuid'[s] = KeyOf[c]
  BY <1>2 DEF SeatsWithout, ProvedWithout
<1>4. \A t \in Seats \ {s} :
         /\ t \in G => peerConns'[t] = NoConn /\ provedGuid'[t] = NoKey
         /\ t \notin G => peerConns'[t] = peerConns[t] /\ provedGuid'[t] = provedGuid[t]
  BY <1>2 DEF SeatsWithout, ProvedWithout
<1>5. \A t, u \in Seats : Holds(t, c) /\ Holds(u, c) => t = u
  BY DEF Holds, SeatInv, SeatedByProof, OneSeatPerIdentity
<1>6. \A t \in Seats : Holds(t, c) => t \in G
  BY <1>5, SizesAssumption DEF Ghosts
<1>7. \A t \in Seats \ {s} : peerConns'[t] # NoConn => KeyOf[peerConns'[t]] # KeyOf[c]
  <2> SUFFICES ASSUME NEW t \in Seats \ {s}, peerConns'[t] # NoConn
               PROVE  KeyOf[peerConns'[t]] # KeyOf[c]
    OBVIOUS
  <2>1. t \notin G /\ peerConns'[t] = peerConns[t]
    BY <1>4
  <2>2. provedGuid[t] # KeyOf[c]
    BY <1>6, <2>1 DEF Holds
  <2> QED BY <2>1, <2>2 DEF SeatInv, SeatedByProof
<1>8. SeatedByProof'
  <2> SUFFICES ASSUME NEW t \in Seats
               PROVE  /\ peerConns'[t] # NoConn =>
                           /\ client'[peerConns'[t]] = "answered"
                           /\ KeyOf[peerConns'[t]] \in Keys
                           /\ provedGuid'[t] = KeyOf[peerConns'[t]]
                      /\ peerConns'[t] = NoConn => provedGuid'[t] = NoKey
    BY DEF SeatedByProof
  <2>1. CASE t = s
    BY <1>1, <1>3, <2>1, ConnsAssumption
  <2>2. CASE t # s
    BY <1>1, <1>4, <2>2 DEF SeatInv, SeatedByProof
  <2> QED BY <2>1, <2>2
<1>9. OneSeatPerIdentity'
  BY <1>3, <1>4, <1>7 DEF SeatInv, OneSeatPerIdentity
<1> QED BY <1>8, <1>9 DEF SeatInv

LEMMA NextSeatInv ==
  TypeOK /\ ExchangeInv /\ ProofsAnswered /\ SeatInv /\ [Next]_vars => SeatInv'
<1> SUFFICES ASSUME TypeOK, ExchangeInv, ProofsAnswered, SeatInv, [Next]_vars
             PROVE  SeatInv'
  OBVIOUS
<1>1. CASE UNCHANGED vars
  BY <1>1 DEF vars, SeatInv, SeatedByProof, OneSeatPerIdentity
<1>2. ASSUME NEW m \in Messages, AdmitProved(m) PROVE SeatInv'
  BY <1>2, AdmissionKeepsSeats
<1>3. ASSUME NEW c \in Conns, ClosedEdge(c) PROVE SeatInv'
  BY <1>3 DEF ClosedEdge, TypeOK, SeatInv, SeatedByProof, OneSeatPerIdentity
<1>4. ASSUME Next, UNCHANGED seatVars PROVE SeatInv'
  BY <1>4, AnswersStay, SeatsAlone
<1>5. ASSUME NEW c \in Conns,
             \/ ConnectingEdge(c) \/ RefuseConnecting(c) \/ ConnectedEdge(c)
             \/ LateParkEdge(c) \/ RefuseLatePark(c)
      PROVE  UNCHANGED seatVars
  BY <1>5 DEF ConnectingEdge, RefuseConnecting, ConnectedEdge, LateParkEdge, RefuseLatePark,
              seatVars
<1>6. ASSUME NEW m \in Messages,
             DropMessage(m) \/ RefuseMessage(m) \/ OpenExchange(m) \/ RefuseFull(m)
      PROVE  UNCHANGED seatVars
  BY <1>6 DEF DropMessage, RefuseMessage, OpenExchange, RefuseFull, seatVars
<1>7. ASSUME Remote \/ SweepPending \/ ReceiveBatch \/ EndPass \/ Tick
      PROVE  UNCHANGED seatVars
  BY <1>7 DEF Remote, SendHello, SendProof, Misbehave, SweepPending, ReceiveBatch, EndPass,
              Tick, seatVars
<1> QED BY <1>1, <1>2, <1>3, <1>4, <1>5, <1>6, <1>7 DEF Next, Callback, HandleMessage

\* Together these are inductive.
LEMMA AdmissionInv == Spec => [](ExchangeInv /\ ProofsAnswered /\ SeatInv)
<1>1. Init => ExchangeInv /\ ProofsAnswered /\ SeatInv
  BY DEF Init, ExchangeInv, ExchangeDiesWithEntry, ExchangeKeyed, ProofsAnswered, SeatInv,
         SeatedByProof, OneSeatPerIdentity
<1> QED BY <1>1, TypeCorrect, NextExchangeInv, NextProofsAnswered, NextSeatInv, PTL DEF Spec

\* Whoever sits answered the challenge sent to that socket, and the guid of its
\* seat is its key's.
THEOREM SeatsAreProved == Spec => []SeatedByProof
<1>1. SeatInv => SeatedByProof
  BY DEF SeatInv
<1> QED BY <1>1, AdmissionInv, PTL

\* Two connections that present one key never sit at the same time.
THEOREM OneSeat == Spec => []OneSeatPerIdentity
<1>1. SeatInv => OneSeatPerIdentity
  BY DEF SeatInv
<1> QED BY <1>1, AdmissionInv, PTL

-----------------------------------------------------------------------------
(* Ownership of sockets.                                                   *)

\* A handle the host has not seen has no entry and no seat.
IdleUnowned == \A c \in Conns : socket[c] = "idle" => ~InBand(c) /\ ~Seated(c)

\* GNS delivers nothing from a closed handle, and a pulled message that still
\* has an owner comes from an open one: only its own handler closes it.
MailFromOpen == \A c \in Conns : mail[c] # {} => socket[c] = "open"
BatchInDrain == batch # {} => phase = "drain"
BatchFromOpen == \A m \in batch : Live(m) => socket[m.conn] = "open"

SocketInv == IdleUnowned /\ SocketOwned /\ MailFromOpen /\ BatchInDrain /\ BatchFromOpen

LEMMA ParkKeepsSockets ==
  ASSUME TypeOK, SocketInv, NEW c \in Conns, NEW st \in {"open", "closed"},
         phase = "callbacks", socket[c] = "idle" \/ (socket[c] = "closed" /\ ~InBand(c)),
         ParkPending(c, st), UNCHANGED <<phase, batch, peerConns>>
  PROVE  SocketInv'
<1> USE DEF SocketInv, SocketOwned
<1>1. PICK i \in Band : ParkedAt(i, c, st)
  BY ParkChoosesEntry
<1>2. /\ pend'[i] = c
      /\ \A j \in Band \ {i} : pend'[j] = pend[j]
      /\ tag'[c] = <<"pending", i>>
      /\ \A d \in Conns \ {c} : tag'[d] = tag[d]
  BY <1>1 DEF ParkedAt, TypeOK
<1>3. ~InBand(c) /\ ~Seated(c) /\ mail[c] = {}
  BY ConnsAssumption DEF IdleUnowned, Seated, SeatsOpen, MailFromOpen
<1>4. pend[i] # c
  BY <1>3 DEF InBand
<1>5. \A d \in Conns \ {c} :
         /\ d = pend[i] => socket'[d] = "closed" /\ mail'[d] = {}
         /\ d # pend[i] => socket'[d] = socket[d] /\ mail'[d] = mail[d]
  BY <1>1, ConnsAssumption DEF ParkedAt, Shut, Purge, TypeOK
<1>6. socket'[c] = st /\ mail'[c] = {}
  BY <1>1, <1>3, <1>4 DEF ParkedAt, Shut, Purge, TypeOK
<1>7. IdleUnowned'
  BY <1>2, <1>5, <1>6 DEF IdleUnowned, InBand, Seated
<1>8. EverySocketOwned'
  <2> SUFFICES ASSUME NEW d \in Conns, d # c, socket'[d] = "open"
               PROVE  \/ \E j \in Band  : tag'[d] = <<"pending", j>> /\ pend'[j] = d
                      \/ \E s \in Seats : tag'[d] = <<"seat", s>> /\ peerConns'[s] = d
    BY <1>2 DEF EverySocketOwned
  <2>1. d # pend[i] /\ socket[d] = "open" /\ tag'[d] = tag[d]
    BY <1>2, <1>5
  <2>2. CASE \E j \in Band : tag[d] = <<"pending", j>> /\ pend[j] = d
    BY <1>2, <2>1, <2>2
  <2>3. CASE \E s \in Seats : tag[d] = <<"seat", s>> /\ peerConns[s] = d
    BY <2>1, <2>3
  <2> QED BY <2>1, <2>2, <2>3 DEF EverySocketOwned
<1>9. BandDistinct'
  BY <1>2, <1>3 DEF BandDistinct, InBand
<1>10. SeatsDistinct' /\ BandOffSeats'
  BY <1>2, <1>3 DEF SeatsDistinct, BandOffSeats, Seated
<1>11. SeatsOpen'
  <2> SUFFICES ASSUME NEW s \in Seats, peerConns[s] # NoConn
               PROVE  socket'[peerConns[s]] = "open"
    BY DEF SeatsOpen
  <2>1. peerConns[s] \in Conns \ {c} /\ socket[peerConns[s]] = "open"
    BY <1>3 DEF SeatsOpen, Seated, TypeOK
  <2>2. peerConns[s] # pend[i]
    BY <2>1, ConnsAssumption DEF BandOffSeats
  <2> QED BY <1>5, <2>1, <2>2
<1>12. MailFromOpen'
  BY <1>5, <1>6 DEF MailFromOpen
<1>13. BatchInDrain' /\ BatchFromOpen'
  BY DEF BatchInDrain, BatchFromOpen
<1> QED BY <1>7, <1>8, <1>9, <1>10, <1>11, <1>12, <1>13

\* Closing the handles of C, when each entry and seat that held one is freed.
LEMMA ClosingKeepsSockets ==
  ASSUME TypeOK, SocketInv, NEW C \in SUBSET Conns,
         \A c \in C : socket[c] # "idle",
         socket' = Shut(C, socket), Purge(C), tag' = tag,
         pend' \in [Band -> Conns \cup {NoConn}], peerConns' \in [Seats -> Conns \cup {NoConn}],
         \A i \in Band  : pend'[i] = IF pend[i] \in C THEN NoConn ELSE pend[i],
         \A s \in Seats : peerConns'[s] = IF peerConns[s] \in C THEN NoConn ELSE peerConns[s],
         batch' \subseteq batch, batch' # {} => phase' = "drain"
  PROVE  SocketInv'
<1> USE DEF SocketInv, SocketOwned
<1>1. \A c \in Conns :
         /\ c \in C => socket'[c] = "closed" /\ mail'[c] = {}
         /\ c \notin C => socket'[c] = socket[c] /\ mail'[c] = mail[c]
  BY DEF Shut, Purge, TypeOK
<1>2. IdleUnowned'
  BY <1>1, ConnsAssumption DEF IdleUnowned, InBand, Seated
<1>3. EverySocketOwned'
  BY <1>1 DEF EverySocketOwned
<1>4. BandDistinct' /\ SeatsDistinct' /\ BandOffSeats'
  BY DEF BandDistinct, SeatsDistinct, BandOffSeats
<1>5. SeatsOpen'
  BY <1>1 DEF SeatsOpen, TypeOK
<1>6. MailFromOpen' /\ BatchInDrain'
  BY <1>1 DEF MailFromOpen, BatchInDrain
<1>7. BatchFromOpen'
  <2> SUFFICES ASSUME NEW m \in batch, pend'[m.idx] = m.conn
               PROVE  socket'[m.conn] = "open"
    BY DEF BatchFromOpen, Live
  <2>1. m.conn \in Conns /\ m.idx \in Band
    BY DEF TypeOK
  <2>2. pend[m.idx] = m.conn /\ m.conn \notin C
    BY <2>1, ConnsAssumption
  <2> QED BY <1>1, <2>1, <2>2 DEF BatchFromOpen, Live
<1> QED BY <1>2, <1>3, <1>4, <1>5, <1>6, <1>7

LEMMA AdmissionKeepsSockets ==
  ASSUME TypeOK, SocketInv, NEW m \in Messages, AdmitProved(m)
  PROVE  SocketInv'
<1> USE DEF SocketInv, SocketOwned
<1> DEFINE c == m.conn
           ghosts == {peerConns[g] : g \in Ghosts(c)}
<1>1. /\ phase' = "drain" /\ batch' = batch \ {m}
      /\ pend' = [pend EXCEPT ![m.idx] = NoConn]
      /\ pend[m.idx] = c /\ c \in Conns /\ m.idx \in Band
      /\ socket[c] = "open"
  BY DEF AdmitProved, Proves, Live, BatchFromOpen
<1>2. PICK s \in Seats :
         /\ SeatsWithout(Ghosts(c))[s] = NoConn
         /\ peerConns' = [SeatsWithout(Ghosts(c)) EXCEPT ![s] = c]
         /\ tag' = [tag EXCEPT ![c] = <<"seat", s>>]
         /\ socket' = Shut(ghosts, socket)
         /\ Purge(ghosts)
  BY DEF AdmitProved, FreeSeats
<1>3. \A g \in Ghosts(c) : g \in Seats /\ peerConns[g] \in Conns
  BY DEF Ghosts, Holds, TypeOK
<1>4. \A t \in Seats : peerConns[t] # c
  BY <1>1, ConnsAssumption DEF BandOffSeats
<1>5. \A t \in Seats : peerConns[t] \in ghosts => t \in Ghosts(c)
  BY <1>3, ConnsAssumption DEF SeatsDistinct
<1>6. /\ peerConns'[s] = c
      /\ \A t \in Seats \ {s} :
           peerConns'[t] = IF peerConns[t] \in ghosts THEN NoConn ELSE peerConns[t]
      /\ peerConns[s] = NoConn \/ peerConns[s] \in ghosts
  BY <1>2, <1>5 DEF SeatsWithout
<1>7. \A d \in Conns :
         /\ d \in ghosts => socket'[d] = "closed" /\ mail'[d] = {}
         /\ d \notin ghosts => socket'[d] = socket[d] /\ mail'[d] = mail[d]
  BY <1>2 DEF Shut, Purge, TypeOK
<1>8. c \notin ghosts
  BY <1>3, <1>4
<1>9. \A i \in Band : pend'[i] = IF i = m.idx THEN NoConn ELSE pend[i]
  BY <1>1 DEF TypeOK
<1>10. /\ tag'[c] = <<"seat", s>>
       /\ \A d \in Conns \ {c} : tag'[d] = tag[d]
  BY <1>1, <1>2 DEF TypeOK
<1>11. IdleUnowned'
  BY <1>1, <1>6, <1>7, <1>8, <1>9, ConnsAssumption DEF IdleUnowned, InBand, Seated
<1>12. EverySocketOwned'
  <2> SUFFICES ASSUME NEW d \in Conns, d # c, socket'[d] = "open"
               PROVE  \/ \E i \in Band  : tag'[d] = <<"pending", i>> /\ pend'[i] = d
                      \/ \E t \in Seats : tag'[d] = <<"seat", t>> /\ peerConns'[t] = d
    BY <1>6, <1>10 DEF EverySocketOwned
  <2>1. d \notin ghosts /\ socket[d] = "open" /\ tag'[d] = tag[d]
    BY <1>7, <1>10
  <2>2. ASSUME NEW i \in Band, tag[d] = <<"pending", i>>, pend[i] = d
        PROVE  pend'[i] = d
    BY <1>1, <1>9, <2>2
  <2>3. ASSUME NEW t \in Seats, tag[d] = <<"seat", t>>, peerConns[t] = d
        PROVE  peerConns'[t] = d
    BY <1>6, <2>1, <2>3, ConnsAssumption
  <2> QED BY <2>1, <2>2, <2>3 DEF EverySocketOwned
<1>13. BandDistinct'
  BY <1>9 DEF BandDistinct
<1>14. SeatsDistinct'
  BY <1>4, <1>6 DEF SeatsDistinct
<1>15. BandOffSeats'
  BY <1>1, <1>6, <1>9, ConnsAssumption DEF BandOffSeats, BandDistinct
<1>16. SeatsOpen'
  BY <1>1, <1>6, <1>7, <1>8 DEF SeatsOpen, TypeOK
<1>17. MailFromOpen' /\ BatchInDrain'
  BY <1>1, <1>7 DEF MailFromOpen, BatchInDrain
<1>18. BatchFromOpen'
  <2> SUFFICES ASSUME NEW a \in batch, pend'[a.idx] = a.conn
               PROVE  socket'[a.conn] = "open"
    BY <1>1 DEF BatchFromOpen, Live
  <2>1. a.conn \in Conns /\ a.idx \in Band
    BY DEF TypeOK
  <2>2. pend[a.idx] = a.conn
    BY <1>9, <2>1, ConnsAssumption
  <2>3. a.conn \notin ghosts
    BY <1>3, <2>1, <2>2, ConnsAssumption DEF BandOffSeats
  <2> QED BY <1>7, <2>1, <2>2, <2>3 DEF BatchFromOpen, Live
<1> QED BY <1>11, <1>12, <1>13, <1>14, <1>15, <1>16, <1>17, <1>18

\* RetirePending is a closing of one handle.
LEMMA RetireKeepsSockets ==
  ASSUME TypeOK, SocketInv, NEW m \in batch, Live(m), Retire(m), phase = "drain",
         batch' = batch \ {m}, UNCHANGED <<phase, tag, peerConns>>
  PROVE  SocketInv'
<1>1. m.conn \in Conns /\ m.idx \in Band
  BY DEF TypeOK
<1>2. socket[m.conn] # "idle"
  BY DEF SocketInv, BatchFromOpen
<1>3. \A i \in Band : pend'[i] = IF pend[i] \in {m.conn} THEN NoConn ELSE pend[i]
  BY <1>1, ConnsAssumption DEF Retire, Live, SocketInv, SocketOwned, BandDistinct, TypeOK
<1>4. \A s \in Seats : peerConns'[s] = IF peerConns[s] \in {m.conn} THEN NoConn ELSE peerConns[s]
  BY <1>1, ConnsAssumption DEF Live, SocketInv, SocketOwned, BandOffSeats
<1>5. pend' \in [Band -> Conns \cup {NoConn}] /\ peerConns' \in [Seats -> Conns \cup {NoConn}]
  BY DEF Retire, TypeOK
<1> QED BY <1>1, <1>2, <1>3, <1>4, <1>5, ClosingKeepsSockets DEF Retire

\* An action that touches neither owners nor sockets, and sends only from an
\* open socket.
LEMMA OwnersAlone ==
  ASSUME TypeOK, SocketInv, UNCHANGED <<socket, tag, pend, peerConns>>,
         \A c \in Conns : mail'[c] # {} => socket[c] = "open",
         batch' \subseteq batch, batch' # {} => phase' = "drain"
  PROVE  SocketInv'
<1>1. IdleUnowned' /\ SocketOwned'
  BY DEF SocketInv, IdleUnowned, InBand, Seated, SocketOwned, EverySocketOwned, BandDistinct,
         SeatsDistinct, BandOffSeats, SeatsOpen
<1>2. MailFromOpen' /\ BatchInDrain' /\ BatchFromOpen'
  BY DEF SocketInv, MailFromOpen, BatchInDrain, BatchFromOpen, Live
<1> QED BY <1>1, <1>2 DEF SocketInv

LEMMA NextSocketInv == TypeOK /\ SocketInv /\ [Next]_vars => SocketInv'
<1> SUFFICES ASSUME TypeOK, SocketInv, TypeOK', [Next]_vars
             PROVE  SocketInv'
  BY NextTypeOK
<1>1. ASSUME NEW c \in Conns, ConnectingEdge(c) \/ LateParkEdge(c) PROVE SocketInv'
  BY <1>1, ParkKeepsSockets DEF ConnectingEdge, LateParkEdge
<1>2. ASSUME NEW c \in Conns, RefuseConnecting(c) PROVE SocketInv'
  <2>1. ~InBand(c) /\ ~Seated(c) /\ mail[c] = {} /\ batch = {}
    BY <1>2 DEF RefuseConnecting, SocketInv, IdleUnowned, MailFromOpen, BatchInDrain
  <2>2. /\ socket'[c] = "closed" /\ \A d \in Conns \ {c} : socket'[d] = socket[d]
        /\ UNCHANGED <<phase, tag, mail, batch, pend, peerConns>>
    BY <1>2 DEF RefuseConnecting, bandVars, seatVars, TypeOK
  <2>3. IdleUnowned' /\ EverySocketOwned'
    BY <2>2 DEF SocketInv, IdleUnowned, InBand, Seated, SocketOwned, EverySocketOwned
  <2>4. BandDistinct' /\ SeatsDistinct' /\ BandOffSeats'
    BY <2>2 DEF SocketInv, SocketOwned, BandDistinct, SeatsDistinct, BandOffSeats
  <2>5. SeatsOpen'
    BY <2>1, <2>2 DEF SocketInv, SocketOwned, SeatsOpen, Seated, TypeOK
  <2>6. MailFromOpen' /\ BatchInDrain' /\ BatchFromOpen'
    BY <2>1, <2>2 DEF SocketInv, MailFromOpen, BatchInDrain, BatchFromOpen
  <2> QED BY <2>3, <2>4, <2>5, <2>6 DEF SocketInv, SocketOwned
<1>3. ASSUME NEW c \in Conns, ClosedEdge(c) PROVE SocketInv'
  <2>1. /\ socket[c] # "idle" /\ socket' = Shut({c}, socket) /\ Purge({c})
        /\ UNCHANGED <<phase, tag, batch>>
    BY <1>3 DEF ClosedEdge
  <2>2. \A i \in Band : pend'[i] = IF pend[i] \in {c} THEN NoConn ELSE pend[i]
    BY <1>3 DEF ClosedEdge, ReleasePending
  <2>3. \A s \in Seats : peerConns'[s] = IF peerConns[s] \in {c} THEN NoConn ELSE peerConns[s]
    BY <1>3 DEF ClosedEdge
  <2>4. batch' # {} => phase' = "drain"
    BY <2>1 DEF SocketInv, BatchInDrain
  <2> QED BY <2>1, <2>2, <2>3, <2>4, ClosingKeepsSockets DEF TypeOK
<1>4. CASE SweepPending
  <2> DEFINE C == {pend[i] : i \in Expired}
  <2>1. /\ socket' = Shut(C, socket) /\ Purge(C) /\ batch = {}
        /\ UNCHANGED <<tag, batch, peerConns>>
    BY <1>4 DEF SweepPending, seatVars, SocketInv, BatchInDrain
  <2>2. C \in SUBSET Conns /\ \A c \in C : socket[c] # "idle"
    BY DEF Expired, TypeOK, SocketInv, IdleUnowned, InBand
  <2>3. \A i \in Band : pend[i] \in C => i \in Expired
    BY DEF Expired, SocketInv, SocketOwned, BandDistinct
  <2>4. \A i \in Band : pend'[i] = IF pend[i] \in C THEN NoConn ELSE pend[i]
    BY <1>4, <2>3 DEF SweepPending
  <2>5. \A s \in Seats : peerConns'[s] = IF peerConns[s] \in C THEN NoConn ELSE peerConns[s]
    BY <2>1 DEF Expired, SocketInv, SocketOwned, BandOffSeats
  <2> QED BY <2>1, <2>2, <2>4, <2>5, ClosingKeepsSockets DEF TypeOK
<1>5. CASE ReceiveBatch
  <2>1. /\ batch' \subseteq Arrived /\ phase' = "drain"
        /\ \A c \in Conns : mail'[c] \subseteq mail[c]
        /\ UNCHANGED <<socket, tag, pend, peerConns>>
    BY <1>5 DEF ReceiveBatch, bandVars, seatVars
  <2>2. IdleUnowned' /\ SocketOwned'
    BY <2>1 DEF SocketInv, IdleUnowned, InBand, Seated, SocketOwned, EverySocketOwned,
                BandDistinct, SeatsDistinct, BandOffSeats, SeatsOpen
  <2>3. MailFromOpen' /\ BatchInDrain' /\ BatchFromOpen'
    BY <2>1 DEF SocketInv, MailFromOpen, BatchInDrain, BatchFromOpen, Arrived
  <2> QED BY <2>2, <2>3 DEF SocketInv
<1>6. ASSUME NEW m \in Messages, RefuseMessage(m) \/ RefuseFull(m) PROVE SocketInv'
  BY <1>6, RetireKeepsSockets DEF RefuseMessage, RefuseFull, Proves, seatVars
<1>7. ASSUME NEW m \in Messages, AdmitProved(m) PROVE SocketInv'
  BY <1>7, AdmissionKeepsSockets
<1>8. ASSUME NEW m \in Messages, DropMessage(m) \/ OpenExchange(m) PROVE SocketInv'
  <2>1. /\ UNCHANGED <<socket, tag, pend, peerConns, mail>>
        /\ batch' \subseteq batch /\ phase' = "drain"
    BY <1>8 DEF DropMessage, OpenExchange, gnsVars, bandVars, seatVars
  <2> QED BY <2>1, OwnersAlone DEF SocketInv, MailFromOpen
<1>9. ASSUME NEW c \in Conns, SendHello(c) \/ SendProof(c) \/ Misbehave(c) PROVE SocketInv'
  <2>1. /\ UNCHANGED <<socket, tag, pend, peerConns, batch, phase>>
        /\ socket[c] = "open"
        /\ \A d \in Conns \ {c} : mail'[d] = mail[d]
    BY <1>9 DEF SendHello, SendProof, Misbehave, Send, gnsVars, bandVars, seatVars, TypeOK
  <2> QED BY <2>1, OwnersAlone DEF SocketInv, MailFromOpen, BatchInDrain
<1>10. ASSUME NEW c \in Conns, ConnectedEdge(c) \/ RefuseLatePark(c) PROVE SocketInv'
  <2>1. UNCHANGED <<socket, tag, pend, peerConns, mail, batch, phase>>
    BY <1>10 DEF ConnectedEdge, RefuseLatePark, bandVars, seatVars
  <2> QED BY <2>1, OwnersAlone DEF SocketInv, MailFromOpen, BatchInDrain
<1>11. CASE EndPass \/ Tick \/ UNCHANGED vars
  <2>1. UNCHANGED <<socket, tag, pend, peerConns, mail, batch>> /\ (batch = {} \/ phase' = phase)
    BY <1>11 DEF EndPass, Tick, vars, gnsVars, bandVars, seatVars
  <2> QED BY <2>1, OwnersAlone DEF SocketInv, MailFromOpen, BatchInDrain
<1> QED BY <1>1, <1>2, <1>3, <1>4, <1>5, <1>6, <1>7, <1>8, <1>9, <1>10, <1>11
        DEF Next, Callback, HandleMessage, Remote

LEMMA SocketInit == Init => SocketInv
BY ConnsAssumption
   DEF Init, SocketInv, IdleUnowned, InBand, Seated, SocketOwned, EverySocketOwned,
       BandDistinct, SeatsDistinct, BandOffSeats, SeatsOpen, MailFromOpen, BatchInDrain,
       BatchFromOpen

\* Every open socket has exactly one owner, and a seat holds an open socket.
THEOREM SocketsAreOwned == Spec => []SocketOwned
<1>1. Init => SocketInv
  BY SocketInit
<1>2. SocketInv => SocketOwned
  BY DEF SocketInv
<1> QED BY <1>1, <1>2, TypeCorrect, NextSocketInv, PTL DEF Spec

-----------------------------------------------------------------------------
(* A rejoin is admitted, and admission implements the abstract lobby.      *)

\* The seats an admission gives up are exactly those of its identity.
LEMMA GhostsHold ==
  ASSUME SeatInv, NEW c
  PROVE  \A s \in Seats : s \in Ghosts(c) <=> Holds(s, c)
<1>1. \A t, u \in Seats : Holds(t, c) /\ Holds(u, c) => t = u
  BY DEF Holds, SeatInv, SeatedByProof, OneSeatPerIdentity
<1> QED BY <1>1, SizesAssumption DEF Ghosts

\* A player who proves the identity of an occupied seat is seated by that
\* message: never dropped, never refused, whatever the lobby holds.
THEOREM RejoinIsAdmitted == Spec => RejoinNeverRefused
<1> DEFINE P == \A m \in batch : Proves(m) /\ m \notin batch' /\ (\E s \in Seats : Holds(s, m.conn))
                                 => (Seated(m.conn))'
<1>1. ASSUME TypeOK, SeatInv, [Next]_vars PROVE P
  <2> SUFFICES ASSUME NEW m \in batch, Proves(m), m \notin batch',
                      NEW t \in Seats, Holds(t, m.conn)
               PROVE  (Seated(m.conn))'
    OBVIOUS
  <2> USE <1>1
  <2>1. PICK a \in Messages : /\ \/ DropMessage(a) \/ RefuseMessage(a) \/ OpenExchange(a)
                                 \/ AdmitProved(a) \/ RefuseFull(a)
                              /\ batch' = batch \ {a}
    <3>1. ASSUME \/ Callback \/ SweepPending \/ ReceiveBatch \/ EndPass \/ Remote \/ Tick
                 \/ UNCHANGED vars
          PROVE  FALSE
      BY <3>1 DEF Callback, ConnectingEdge, RefuseConnecting, ConnectedEdge, LateParkEdge,
                  RefuseLatePark, ClosedEdge, SweepPending, ReceiveBatch, EndPass, Remote,
                  SendHello, SendProof, Misbehave, Tick, vars, Proves
    <3> QED BY <3>1 DEF Next, HandleMessage, DropMessage, RefuseMessage, OpenExchange,
                        AdmitProved, RefuseFull
  <2>2. a = m
    BY <2>1
  <2>3. t \in Ghosts(m.conn)
    BY GhostsHold
  <2>4. AdmitProved(m)
    BY <2>1, <2>2, <2>3 DEF DropMessage, RefuseMessage, Refused, OpenExchange, RefuseFull, Proves
  <2> QED BY <2>4 DEF AdmitProved, FreeSeats, SeatsWithout, Seated
<1> QED BY <1>1, TypeCorrect, AdmissionInv, PTL DEF Spec, RejoinNeverRefused

\* Who sits where, as the abstract lobby sees it.
Seating == [s \in Seats |-> IF peerConns[s] = NoConn THEN NoKey ELSE KeyOf[peerConns[s]]]

LEMMA AdmissionSits ==
  ASSUME TypeOK, ExchangeInv, ProofsAnswered, SeatInv, SeatInv', NEW m \in Messages,
         AdmitProved(m)
  PROVE  Lobby!Sit(KeyOf[m.conn])
<1> DEFINE p == KeyOf[m.conn]
           G == Ghosts(m.conn)
<1>1. PICK s \in Seats :
         /\ SeatsWithout(G)[s] = NoConn
         /\ \A t \in Seats : SeatsWithout(G)[t] = NoConn => s <= t
         /\ peerConns' = [SeatsWithout(G) EXCEPT ![s] = m.conn]
  BY DEF AdmitProved, FreeSeats
<1>2. p \in Keys
  BY ConnsAssumption DEF AdmitProved, Proves, ExchangeOpen, ExchangeInv, ExchangeKeyed
<1>3. \A t \in Seats : Seating[t] = p <=> t \in G
  BY <1>2, GhostsHold, KeysAssumption DEF Seating, Holds, SeatInv, SeatedByProof
<1>4. Lobby!Vacated(p) = [t \in Seats |-> IF t \in G THEN NoKey ELSE Seating[t]]
  BY <1>3 DEF Lobby!Vacated, Lobby!SeatsOf, Lobby!Seats, Seating
<1>5. \A t \in Seats : Lobby!Vacated(p)[t] = NoKey <=> SeatsWithout(G)[t] = NoConn
  BY <1>4, KeysAssumption DEF Seating, SeatsWithout, SeatInv, SeatedByProof
<1>6. s \in Lobby!Lowest(Lobby!Free(Lobby!Vacated(p)))
  BY <1>1, <1>5 DEF Lobby!Lowest, Lobby!Free, Lobby!Seats
<1>7. Seating' = [Lobby!Vacated(p) EXCEPT ![s] = p]
  BY <1>1, <1>4, ConnsAssumption DEF Seating, SeatsWithout
<1> QED BY <1>6, <1>7 DEF Lobby!Sit, Seating

LEMMA CloseLeaves ==
  ASSUME TypeOK, SeatInv, SocketInv, NEW c \in Conns, ClosedEdge(c)
  PROVE  (\E s \in Seats : Lobby!Leave(s)) \/ Seating' = Seating
<1>1. peerConns' = [s \in Seats |-> IF peerConns[s] = c THEN NoConn ELSE peerConns[s]]
  BY DEF ClosedEdge
<1>2. CASE \A s \in Seats : peerConns[s] # c
  BY <1>1, <1>2 DEF Seating
<1>3. ASSUME NEW s \in Seats, peerConns[s] = c
      PROVE  Lobby!Leave(s)
  <2>1. \A t \in Seats : peerConns[t] = c => t = s
    BY <1>3, ConnsAssumption DEF SocketInv, SocketOwned, SeatsDistinct
  <2>2. Seating[s] # NoKey
    BY <1>3, ConnsAssumption, KeysAssumption DEF Seating, SeatInv, SeatedByProof
  <2>3. Seating' = [Seating EXCEPT ![s] = NoKey]
    BY <1>1, <1>3, <2>1 DEF Seating
  <2> QED BY <2>2, <2>3 DEF Lobby!Leave, Seating
<1> QED BY <1>2, <1>3

\* Admission implements the lobby: a proof is a Sit, the loss of a seated link
\* is a Leave, and every other step leaves the seating alone.
THEOREM AdmissionImplementsLobby == Spec => LobbyRefinement
<1>1. Init => Lobby!Init
  BY DEF Init, Lobby!Init, Lobby!Seats
<1>2. ASSUME TypeOK, ExchangeInv, ProofsAnswered, SeatInv, SeatInv', SocketInv, [Next]_vars
      PROVE  [Lobby!Next]_Seating
  <2> USE <1>2
  <2>1. ASSUME NEW m \in Messages, AdmitProved(m) PROVE Lobby!Next
    <3>1. KeyOf[m.conn] \in Keys
      BY <2>1, ConnsAssumption DEF AdmitProved, Proves, ExchangeOpen, ExchangeInv, ExchangeKeyed
    <3> QED BY <2>1, <3>1, AdmissionSits DEF Lobby!Next
  <2>2. ASSUME NEW c \in Conns, ClosedEdge(c) PROVE [Lobby!Next]_Seating
    BY <2>2, CloseLeaves DEF Lobby!Next, Lobby!Seats
  <2>3. ASSUME UNCHANGED peerConns PROVE UNCHANGED Seating
    BY <2>3 DEF Seating
  <2>4. ASSUME NEW c \in Conns,
               \/ ConnectingEdge(c) \/ RefuseConnecting(c) \/ ConnectedEdge(c)
               \/ LateParkEdge(c) \/ RefuseLatePark(c)
        PROVE  UNCHANGED peerConns
    BY <2>4 DEF ConnectingEdge, RefuseConnecting, ConnectedEdge, LateParkEdge, RefuseLatePark,
                seatVars
  <2>5. ASSUME NEW m \in Messages,
               DropMessage(m) \/ RefuseMessage(m) \/ OpenExchange(m) \/ RefuseFull(m)
        PROVE  UNCHANGED peerConns
    BY <2>5 DEF DropMessage, RefuseMessage, OpenExchange, RefuseFull, seatVars
  <2>6. ASSUME \/ Remote \/ SweepPending \/ ReceiveBatch \/ EndPass \/ Tick
               \/ UNCHANGED vars
        PROVE  UNCHANGED peerConns
    BY <2>6 DEF Remote, SendHello, SendProof, Misbehave, SweepPending, ReceiveBatch, EndPass,
                Tick, vars, seatVars
  <2> QED BY <2>1, <2>2, <2>3, <2>4, <2>5, <2>6 DEF Next, Callback, HandleMessage
<1>3. Init => SocketInv
  BY SocketInit
<1> QED BY <1>1, <1>2, <1>3, TypeCorrect, AdmissionInv, NextSocketInv, PTL
        DEF Spec, LobbyRefinement, Lobby!Spec, Seating
=============================================================================
