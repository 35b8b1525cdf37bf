----------------------------- MODULE JoinSeed ------------------------------
(***************************************************************************)
(* How a joiner comes to hold the rows the host holds (join_seed.cpp with  *)
(* the lane of saved signals, signal_sync.cpp, and the gates of            *)
(* session.cpp and session_relay.cpp).                                     *)
(*                                                                         *)
(* A joiner is connected for a minute before it has a world.  Rows added   *)
(* and deleted meanwhile are not sent to it.  The host photographs the     *)
(* rows when it serialises the joiner's save and, when the joiner          *)
(* announces its world, sends it the difference.  Between the receipt of   *)
(* that announce on the net thread and its dispatch on the game thread     *)
(* other peers' lines are relayed to the joiner already, and stay out of   *)
(* the difference because the inbox is first in, first out.                *)
(*                                                                         *)
(* One slot, its successive occupants, the host, and one peer that has     *)
(* been there all along.  A row stands for its content hash; its lines are *)
(* in the Normal lane.  Host and peer each edit rows of their own.         *)
(***************************************************************************)
EXTENDS Integers, Sequences, SequencesExt, FiniteSets

CONSTANTS
  HostRows,   \* rows the host's player adds and deletes
  PeerRows,   \* rows the other peer's player adds and deletes
  Saves,      \* what the host's save may hold, {} if there is none
  Parts,      \* BlobChunks a peer's row takes
  MaxEdits,   \* bound: rows added or deleted
  MaxSeats    \* bound: connections that come to hold the slot

ASSUME RowsAssumption ==
  /\ IsFiniteSet(HostRows \cup PeerRows)
  /\ HostRows \cap PeerRows = {}
  /\ Saves \subseteq SUBSET (HostRows \cup PeerRows)
  /\ Parts \in Nat \ {0}
  /\ {MaxEdits, MaxSeats} \subseteq Nat

Rows   == HostRows \cup PeerRows
NoConn == 0
Conns  == 1..MaxSeats

\* A line of the lane.  The host sends a row's chunks in one step of the game
\* thread, so a row of its own is one line; a peer's is relayed by parts.
Line == [op : {"row", "delete"}, row : Rows, part : {1}]
          \cup [op : {"part"}, row : Rows, part : 1..Parts]

\* What the inbox takes from the other peer (NoConn) and from the occupant.
Message == [from : {NoConn}, op : {"line"}, line : Line]
             \cup [from : Conns, op : {"request", "ready"}]

\* A snapshot of the rows, or none.
Snapshots == [valid : {FALSE}] \cup [valid : {TRUE}, n : [Rows -> 0..1]]
NoSnap    == [valid |-> FALSE]

\* One of each row of S; a snapshot of that.
Each(S)   == [r \in Rows |-> IF r \in S THEN 1 ELSE 0]
Photo(n)  == [valid |-> TRUE, n |-> n]

VARIABLES
  \* the host's lane
  store,     \* savedSignals: copies of each row
  landed,    \* of those, applied from the wire since the last poll
  tombs,     \* g_tombstones
  fresh,     \* rows added here since the last poll
  gone,      \* rows deleted here since the last poll
  got,       \* parts of the peer's current row (Assembler)
  \* the host's slot
  occ,       \* peerConns_ of the slot
  eligible,  \* relayEligible_
  inbox,     \* reliableInbox_
  popped,    \* the message the game thread dispatches, if any
  known,     \* the connection of the ledger's row
  ready,     \* slotWorldReady_
  snap,      \* the Seeder's snapshot
  blob,      \* the save that is streamed to the slot
  \* the other peer
  has,       \* its own rows
  peerNet,   \* lines from it to the host
  \* the joiner
  stage,     \* "none", "menu", "asked", "loaded", "announced"
  up,        \* messages from it to the host
  link,      \* lines from the host to it
  jStore, jLanded, jTombs, jGot,   \* as the host's
  jPark,     \* g_applyPark
  primed,    \* g_primed
  \* history
  edits,     \* edits so far
  seats,     \* seats so far
  seeded,    \* the occupant's announce was answered by the difference to its save
  late,      \* the game thread did not see its predecessor out before it sat down
  murky      \* rows the lane loses count of (see InStep)

laneVars   == <<store, landed, tombs, fresh, gone, got>>
netVars    == <<occ, eligible, inbox>>
gameVars   == <<popped, known, ready, snap, blob>>
peerVars   == <<has, peerNet>>
arrayVars  == <<jStore, jLanded, jTombs, jGot, jPark, primed>>
joinerVars == <<stage, up, arrayVars>>
takenVars  == <<seats, seeded, late, murky>>
vars == <<laneVars, netVars, gameVars, peerVars, joinerVars, link, edits, takenVars>>

------------------------------------------------------------------------------
Row(r)     == [op |-> "row", row |-> r, part |-> 1]
Delete(r)  == [op |-> "delete", row |-> r, part |-> 1]
Blob(r)    == [i \in 1..Parts |-> [op |-> "part", row |-> r, part |-> i]]

\* The lines that take an array from the rows of S to the rows of T: deletes
\* first, as in a poll.
Difference(S, T) ==
  SetToSeq({Delete(r) : r \in S \ T}) \o SetToSeq({Row(r) : r \in T \ S})

\* Assembler::OnChunk, of one sender's stream: a part out of turn ends the row,
\* unless it is a first part.
InTurn(n, line)    == line.part \in {1, n + 1}
Assembled(n, line) == IF InTurn(n, line) THEN line.part % Parts ELSE 0

\* The line brings a row, by itself or as its last part.
Brings(n, line) ==
  line.op = "row" \/ (line.op = "part" /\ InTurn(n, line) /\ line.part = Parts)

\* An array and the shadow the polls keep of it, the host's or the joiner's:
\* the copies, those no poll has seen, the tombstones.
HostArray   == [n |-> store,  new |-> landed,  tomb |-> tombs]
JoinerArray == [n |-> jStore, new |-> jLanded, tomb |-> jTombs]

\* ApplyRowBlob: a deletion that came first cancels the row.
ApplyRow(a, r) ==
  IF r \in a.tomb THEN [a EXCEPT !.tomb = @ \ {r}]
                  ELSE [a EXCEPT !.n[r] = @ + 1, !.new[r] = @ + 1]

\* OnDelete: ApplyDeleteByHash finds rows of the shadow, where that is in line
\* with the array; else the deletion waits as a tombstone.
ApplyDelete(a, r, aligned) ==
  IF aligned /\ a.n[r] > a.new[r] THEN [a EXCEPT !.n[r] = @ - 1]
                                  ELSE [a EXCEPT !.tomb = @ \cup {r}]

\* A poll takes the new rows into the shadow and tries the tombstones again.
Polled(a) ==
  LET hit == {r \in a.tomb : a.n[r] > 0}
  IN [n    |-> [r \in Rows |-> IF r \in hit THEN a.n[r] - 1 ELSE a.n[r]],
      new  |-> [r \in Rows |-> 0],
      tomb |-> a.tomb \ hit]

SetHost(a)   == store' = a.n /\ landed' = a.new /\ tombs' = a.tomb
SetJoiner(a) == jStore' = a.n /\ jLanded' = a.new /\ jTombs' = a.tomb

RowsOf(n) == {r \in Rows : n[r] > 0}

------------------------------------------------------------------------------
Init ==
  /\ \E S \in Saves : store = Each(S)
  /\ landed = [r \in Rows |-> 0]
  /\ tombs = {} /\ fresh = {} /\ gone = {} /\ got = 0
  /\ occ = NoConn /\ eligible = NoConn /\ inbox = <<>>
  /\ popped = <<>> /\ known = NoConn /\ ready = FALSE /\ snap = NoSnap /\ blob = NoSnap
  /\ has = RowsOf(store) \cap PeerRows /\ peerNet = <<>>
  /\ stage = "none" /\ up = <<>> /\ link = <<>>
  /\ jStore = [r \in Rows |-> 0] /\ jLanded = [r \in Rows |-> 0] /\ jTombs = {}
  /\ jGot = 0 /\ jPark = <<>> /\ primed = FALSE
  /\ edits = 0 /\ seats = 0 /\ seeded = FALSE /\ late = FALSE /\ murky = {}

\* The players ----------------------------------------------------------------

HostAppend(r) ==
  /\ edits < MaxEdits /\ edits' = edits + 1
  /\ store[r] = 0
  /\ store' = [store EXCEPT ![r] = 1]
  /\ fresh' = fresh \cup {r}
  /\ UNCHANGED <<landed, tombs, gone, got, netVars, gameVars, peerVars, joinerVars, link,
                 takenVars>>

\* A row deleted before any poll has seen it was never there.
HostDelete(r) ==
  /\ edits < MaxEdits /\ edits' = edits + 1
  /\ store[r] = 1
  /\ store' = [store EXCEPT ![r] = 0]
  /\ fresh' = fresh \ {r}
  /\ gone'  = IF r \in fresh THEN gone ELSE gone \cup {r}
  /\ UNCHANGED <<landed, tombs, got, netVars, gameVars, peerVars, joinerVars, link,
                 takenVars>>

\* The other peer's lane, up to the wire.
PeerEdit(r) ==
  /\ edits < MaxEdits /\ edits' = edits + 1
  /\ has' = IF r \in has THEN has \ {r} ELSE has \cup {r}
  /\ peerNet' = peerNet \o (IF r \in has THEN <<Delete(r)>> ELSE Blob(r))
  /\ UNCHANGED <<laneVars, netVars, gameVars, joinerVars, link, takenVars>>

\* The net thread --------------------------------------------------------------

\* The relay's gate: the game thread's flag, or the receipt of the announce by
\* the connection that holds the slot.
RelaysOnFlag == ready
Relays == ready \/ eligible = occ

\* A line of the other peer: to the inbox, then to the slot.
NetReceivePeer ==
  /\ peerNet # <<>>
  /\ peerNet' = Tail(peerNet)
  /\ inbox' = Append(inbox, [from |-> NoConn, op |-> "line", line |-> Head(peerNet)])
  /\ link' = IF occ # NoConn /\ Relays THEN Append(link, Head(peerNet)) ELSE link
  /\ UNCHANGED <<laneVars, occ, eligible, gameVars, has, joinerVars, edits, takenVars>>

\* The rest of a row whose first part is through.
Straddling == IF peerNet # <<>> /\ Head(peerNet).part > 1 THEN {Head(peerNet).row} ELSE {}

\* A message of the occupant: to the inbox; the announce makes the slot
\* eligible for relays.
NetReceiveJoiner ==
  /\ up # <<>>
  /\ up' = Tail(up)
  /\ inbox' = Append(inbox, [from |-> occ, op |-> Head(up)])
  /\ IF Head(up) = "ready" THEN eligible' = occ /\ murky' = murky \cup Straddling
                           ELSE UNCHANGED <<eligible, murky>>
  /\ UNCHANGED <<laneVars, occ, gameVars, peerVars, stage, arrayVars, link, edits,
                 seats, seeded, late>>

\* A connection is admitted to the slot.
Seat ==
  /\ occ = NoConn /\ seats < MaxSeats
  /\ seats' = seats + 1
  /\ occ' = seats'
  /\ stage' = "menu"
  /\ late' = (late \/ known # NoConn)
  /\ UNCHANGED <<laneVars, eligible, inbox, gameVars, peerVars, up, arrayVars, link, edits,
                 seeded, murky>>

\* The queue without the messages of o.
Others(msgs, o) ==
  LET kept[i \in 0..Len(msgs)] ==
        IF i = 0 THEN <<>>
        ELSE IF msgs[i].from = o THEN kept[i - 1] ELSE Append(kept[i - 1], msgs[i])
  IN kept[Len(msgs)]

\* The status callback empties the slot.
CloseKeepingEligible == occ' = NoConn /\ UNCHANGED eligible /\ inbox' = Others(inbox, occ)
Close == occ' = NoConn /\ eligible' = NoConn /\ inbox' = Others(inbox, occ)

\* Its connection ends: its queued messages go, and its eligibility.  The flag
\* waits for the game thread.
Leave ==
  /\ occ # NoConn
  /\ Close
  /\ stage' = "none" /\ up' = <<>> /\ link' = <<>>
  /\ SetJoiner([n |-> [r \in Rows |-> 0], new |-> [r \in Rows |-> 0], tomb |-> {}])
  /\ jGot' = 0 /\ jPark' = <<>> /\ primed' = FALSE
  /\ seeded' = FALSE /\ late' = (known # occ) /\ murky' = {}
  /\ UNCHANGED <<laneVars, gameVars, peerVars, edits, seats>>

\* The host's game thread --------------------------------------------------------

\* SendReliable: to a slot whose gate is open.
Send(lines) == link' = IF occ # NoConn /\ ready THEN link \o lines ELSE link

\* A row that ends takes its slot's gate, snapshot and save stream with it.
KeepGate       == UNCHANGED ready /\ snap' = NoSnap /\ blob' = NoSnap
DisconnectSlot == ready' = FALSE /\ snap' = NoSnap /\ blob' = NoSnap

\* The ledger conforms to the slot's connection.
Reconcile ==
  /\ popped = <<>>
  /\ known # occ
  /\ known' = occ
  /\ IF known = NoConn THEN UNCHANGED <<ready, snap, blob>>
     ELSE DisconnectSlot
  /\ UNCHANGED <<laneVars, netVars, popped, peerVars, joinerVars, link, edits, takenVars>>

\* Tick of the lane: what the diff against the shadow finds is broadcast, and
\* what it does not send it will never send.
HostPoll ==
  /\ popped = <<>>
  /\ SetHost(Polled(HostArray))
  /\ fresh' = {} /\ gone' = {}
  /\ Send(SetToSeq({Delete(r) : r \in gone}) \o SetToSeq({Row(r) : r \in fresh}))
  /\ UNCHANGED <<got, netVars, gameVars, peerVars, joinerVars, edits, takenVars>>

\* A tick reconciles, drains the inbox, then streams saves: a slot that
\* announces the world of such a save has been seen.
Pop ==
  /\ popped = <<>> /\ inbox # <<>>
  /\ Head(inbox).op = "ready" => known = occ
  /\ popped' = <<Head(inbox)>>
  /\ inbox' = Tail(inbox)
  /\ UNCHANGED <<laneVars, occ, eligible, known, ready, snap, blob, peerVars, joinerVars,
                 link, edits, takenVars>>

Dispatch(op) == popped # <<>> /\ popped[1].op = op /\ popped' = <<>>

OnLine ==
  /\ Dispatch("line")
  /\ LET line == popped[1].line
     IN IF line.op = "delete"
        THEN /\ \E aligned \in BOOLEAN :
                  (gone = {} => aligned) /\ SetHost(ApplyDelete(HostArray, line.row, aligned))
             /\ UNCHANGED got
        ELSE /\ got' = Assembled(got, line)
             /\ SetHost(IF Brings(got, line) THEN ApplyRow(HostArray, line.row) ELSE HostArray)
  /\ UNCHANGED <<fresh, gone, netVars, known, ready, snap, blob, peerVars, joinerVars, link,
                 edits, takenVars>>

\* save_transfer's OnRequest: the save and the snapshot are of one instant, if
\* the array can be read.  Without a live capture the slot gets the canonical
\* save, stale as it is, or the word that there is none; no snapshot is made.
Captured == blob' = Photo(store) /\ snap' \in {blob', NoSnap}
Fallback == UNCHANGED snap /\ \E S \in Saves : blob' = Photo(Each(S))

OnRequest ==
  /\ Dispatch("request")
  /\ Captured \/ Fallback
  /\ UNCHANGED <<laneVars, netVars, known, ready, peerVars, joinerVars, link, edits,
                 takenVars>>

\* SeedForSlot: the difference between the snapshot and the array.
Seed == Difference(RowsOf(snap.n), RowsOf(store))

\* ClientWorldReady: the gate opens and, in the same step, the seed is sent, if
\* there is a snapshot and the array can be read.  The snapshot is used up.
OnReady ==
  /\ Dispatch("ready")
  /\ ready' = TRUE
  /\ snap' = NoSnap
  /\ \E seeds \in {snap.valid, FALSE} :
       /\ link' = IF occ # NoConn /\ seeds THEN link \o Seed ELSE link
       /\ seeded' = (popped[1].from = occ /\ seeds)
  /\ murky' = murky \cup fresh \cup gone \cup tombs
  /\ UNCHANGED <<laneVars, netVars, known, blob, peerVars, joinerVars, edits, seats, late>>

\* The joiner -----------------------------------------------------------------------

JRequest ==
  /\ stage = "menu"
  /\ stage' = "asked"
  /\ up' = Append(up, "request")
  /\ UNCHANGED <<laneVars, netVars, gameVars, peerVars, arrayVars, link, edits, takenVars>>

\* The save has come and its world is up.
JLoad ==
  /\ stage = "asked" /\ blob.valid
  /\ stage' = "loaded"
  /\ jStore' = blob.n
  /\ blob' = NoSnap
  /\ UNCHANGED <<laneVars, netVars, popped, known, ready, snap, peerVars, up, jLanded, jTombs,
                 jGot, jPark, primed, link, edits, takenVars>>

JAnnounce ==
  /\ stage = "loaded"
  /\ stage' = "announced"
  /\ up' = Append(up, "ready")
  /\ UNCHANGED <<laneVars, netVars, gameVars, peerVars, arrayVars, link, edits, takenVars>>

\* CompleteAssembly: behind the park while there is one, or the lane unsettled.
CompleteOrDrop(r) ==
  /\ UNCHANGED jPark
  /\ SetJoiner(IF primed THEN ApplyRow(JoinerArray, r) ELSE JoinerArray)
Complete(r) ==
  IF jPark # <<>> \/ ~primed
  THEN jPark' = Append(jPark, r) /\ SetJoiner(JoinerArray)
  ELSE UNCHANGED jPark /\ SetJoiner(ApplyRow(JoinerArray, r))

JReceive ==
  /\ link # <<>>
  /\ link' = Tail(link)
  /\ LET line == Head(link)
     IN /\ jGot' = IF line.op = "part" THEN Assembled(jGot, line) ELSE jGot
        /\ murky' = IF line.op = "delete" THEN murky \cup ({line.row} \cap jTombs) ELSE murky
        /\ \/ /\ line.op = "delete"
              /\ SetJoiner(ApplyDelete(JoinerArray, line.row, primed))
              /\ UNCHANGED jPark
           \/ Brings(jGot, line) /\ Complete(line.row)
           \/ /\ line.op # "delete" /\ ~Brings(jGot, line)
              /\ UNCHANGED <<jStore, jLanded, jTombs, jPark>>
  /\ UNCHANGED <<laneVars, netVars, gameVars, peerVars, stage, up, primed, edits, seats,
                 seeded, late>>

\* DrainApplyPark: the rows that waited, in order, once the lane is settled.
Drained ==
  LET after[i \in 0..Len(jPark)] ==
        IF i = 0 THEN JoinerArray ELSE ApplyRow(after[i - 1], jPark[i])
  IN after[Len(jPark)]

\* A tick of the joiner's lane drains; one in a second polls too, and the first
\* poll in the world primes.
JDrain ==
  /\ stage \in {"loaded", "announced"}
  /\ primed /\ jPark # <<>>
  /\ jPark' = <<>>
  /\ SetJoiner(Drained)
  /\ UNCHANGED <<laneVars, netVars, gameVars, peerVars, stage, up, jGot, primed, link, edits,
                 takenVars>>

JPoll ==
  /\ stage \in {"loaded", "announced"}
  /\ primed => jPark = <<>>
  /\ primed' = TRUE
  /\ SetJoiner(Polled(JoinerArray))
  /\ UNCHANGED <<laneVars, netVars, gameVars, peerVars, stage, up, jGot, jPark, link, edits,
                 takenVars>>

------------------------------------------------------------------------------
Next ==
  \/ \E r \in HostRows : HostAppend(r) \/ HostDelete(r)
  \/ \E r \in PeerRows : PeerEdit(r)
  \/ NetReceivePeer \/ NetReceiveJoiner \/ Seat \/ Leave
  \/ Reconcile \/ HostPoll \/ Pop \/ OnLine \/ OnRequest \/ OnReady
  \/ JRequest \/ JLoad \/ JAnnounce \/ JReceive \/ JDrain \/ JPoll

\* Both net threads and both game threads go on; nobody has to play, to join, to
\* load or to leave.
Fairness ==
  /\ WF_vars(NetReceivePeer) /\ WF_vars(NetReceiveJoiner)
  /\ WF_vars(Reconcile) /\ WF_vars(HostPoll) /\ WF_vars(Pop)
  /\ WF_vars(OnLine) /\ WF_vars(OnRequest) /\ WF_vars(OnReady)
  /\ WF_vars(JReceive) /\ WF_vars(JDrain) /\ WF_vars(JPoll)

Spec == Init /\ [][Next]_vars /\ Fairness

------------------------------------------------------------------------------
\* The types.  The host's array never holds a row twice, and the eligibility is
\* the occupant's or nobody's.
TypeOK ==
  /\ store \in [Rows -> 0..1] /\ landed \in [Rows -> 0..1]
  /\ tombs \subseteq PeerRows /\ fresh \subseteq HostRows /\ gone \subseteq HostRows
  /\ got \in 0..Parts /\ jGot \in 0..Parts
  /\ occ \in Conns \cup {NoConn} /\ eligible \in {NoConn, occ}
  /\ inbox \in Seq(Message) /\ popped \in {<<>>} \cup {<<m>> : m \in Message}
  /\ known \in Conns \cup {NoConn} /\ ready \in BOOLEAN
  /\ {snap, blob} \subseteq Snapshots
  /\ has \subseteq PeerRows /\ {peerNet, link} \subseteq Seq(Line)
  /\ stage \in {"none", "menu", "asked", "loaded", "announced"}
  /\ up \in Seq({"request", "ready"})
  /\ {jStore, jLanded} \subseteq [Rows -> Nat] /\ jTombs \subseteq Rows
  /\ jPark \in Seq(Rows) /\ primed \in BOOLEAN
  /\ edits \in 0..MaxEdits /\ seats \in 0..MaxSeats
  /\ {seeded, late} \subseteq BOOLEAN /\ murky \subseteq Rows

Bit(b) == IF b THEN 1 ELSE 0

\* What a line adds to the copies of r in the end: a row counts with its last
\* part.
Worth(line, r) ==
  IF line.row # r THEN 0
  ELSE IF line.op = "delete" THEN -1
  ELSE IF line.op = "row" \/ line.part = Parts THEN 1 ELSE 0

\* What the lines of a sequence add.
Worths(lines, r) == [i \in DOMAIN lines |-> Worth(lines[i], r)]
Tally(d) ==
  Cardinality({i \in DOMAIN d : d[i] = 1}) - Cardinality({i \in DOMAIN d : d[i] = -1})
Pending(lines, r) == Tally(Worths(lines, r))

\* The lines among the messages of an inbox.
NoLine == [op |-> "none", row |-> NoConn, part |-> 0]
LinesIn(msgs) ==
  [i \in DOMAIN msgs |-> IF msgs[i].op = "line" THEN msgs[i].line ELSE NoLine]

HostWillHave(r) ==
  store[r] - Bit(r \in fresh) + Bit(r \in gone) - Bit(r \in tombs)
    + Pending(LinesIn(popped \o inbox), r)

JoinerWillHave(r) ==
  jStore[r] - Bit(r \in jTombs) + Cardinality({i \in DOMAIN jPark : jPark[i] = r})
    + Pending(link, r)

\* "Exactly once, by ordering" (session.cpp:695-705, join_seed.h:4-20): from the
\* step that seeds a joiner on, what it holds and what is under way to it come to
\* what the host holds and what is under way to that, whichever side of the
\* photograph, of the announce's receipt and of its dispatch a line fell on: the
\* save, the seed, the relay and the broadcast bring each row once and take it
\* away once.  Left out, because the lane does lose count of them: rows the
\* host's player touched since the last poll, deletions that wait at the host,
\* and rows of which the host has some parts, all at the ready edge; and rows
\* deleted twice before the joiner's lane is primed, one tombstone for both.
InStep ==
  seeded /\ ~late => \A r \in Rows \ murky : JoinerWillHave(r) = HostWillHave(r)

\* A slot whose occupant has no world is sent no line (session_relay.cpp:83-90,
\* the flag and the eligibility of session.h:332): neither its predecessor's flag
\* nor a late announce of that opens the gate for it.
WorldlessHearsNothing ==
  stage \in {"menu", "asked", "loaded"} /\ ~late => link = <<>> /\ jPark = <<>> /\ jTombs = {}

\* Once the editing is over, a joiner that announced its world holds the host's
\* rows, or has left: no line stays parked, in the tombstones or behind a gate.
\* Left out are joins that get no seed, whose rows nothing brings in line: those
\* served by the stale fallback (save_transfer.cpp:565-578) and those whose
\* array could not be read (join_seed.cpp:18-21 and 49-53).
Converges ==
  <>[](stage = "announced" /\ ~late /\ (snap.valid \/ seeded)
         => \A r \in Rows \ murky : jStore[r] = store[r])

\* join_seed.cpp:55-57 says that nothing is sent both in the seed and across the
\* ready edge, so a joiner never holds twice a row the host holds once.
NeverTwice == seeded /\ ~late => \A r \in Rows : jStore[r] <= 1
=============================================================================
