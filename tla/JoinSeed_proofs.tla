-------------------------- MODULE JoinSeed_proofs --------------------------
(***************************************************************************)
(* Proofs about JoinSeed, for any finite sets of rows, any saves, any      *)
(* number of parts of a row, of edits and of occupants.                    *)
(*                                                                         *)
(* SafeInv holds whoever sits in the slot: the types; the host's rows; the *)
(* other peer's rows, each toggled by the lines on the way to the host;    *)
(* its parts, each in its turn; and whose messages are queued.             *)
(*                                                                         *)
(* JoinInv follows the occupant from its seat to its seed, by where its    *)
(* one outstanding message is.  If its save was photographed, what the     *)
(* joiner will have is the photograph, and then the photograph and the     *)
(* lines behind its announce; the seed replaces that by what the host will *)
(* have, and it stays so.                                                  *)
(***************************************************************************)
EXTENDS JoinLines_proofs

-----------------------------------------------------------------------------
(* The inductive invariant.                                                *)

\* The types of TypeOK, by who changes them.
LaneTypes ==
  /\ store \in [Rows -> 0..1] /\ landed \in [Rows -> 0..1]
  /\ tombs \subseteq PeerRows /\ fresh \subseteq HostRows /\ gone \subseteq HostRows
  /\ got \in 0..Parts
NetTypes  == occ \in Conns \cup {NoConn} /\ eligible \in {NoConn, occ} /\ inbox \in Seq(Message)
GameTypes ==
  /\ popped \in {<<>>} \cup {<<m>> : m \in Message}
  /\ known \in Conns \cup {NoConn} /\ ready \in BOOLEAN
  /\ {snap, blob} \subseteq Snapshots
PeerTypes  == has \subseteq PeerRows /\ peerNet \in Seq(Line)
ArrayTypes ==
  /\ {jStore, jLanded} \subseteq [Rows -> Nat] /\ jTombs \subseteq Rows
  /\ jGot \in 0..Parts /\ jPark \in Seq(Rows) /\ primed \in BOOLEAN
StageTypes ==
  /\ stage \in {"none", "menu", "asked", "loaded", "announced"}
  /\ up \in Seq({"request", "ready"})
CountTypes ==
  /\ edits \in 0..MaxEdits /\ seats \in 0..MaxSeats
  /\ {seeded, late} \subseteq BOOLEAN /\ murky \subseteq Rows

\* What the host holds of a row, and the joiner, less what a tombstone waits for.
Held(r)  == Net(HostArray, r)
Owned(r) == Net(JoinerArray, r) + Parked(r)

\* Rows of the host's player: what no poll has seen is there, and what is gone
\* is not, or has come back.
HostRowsInv ==
  \A r \in HostRows : /\ r \in fresh => store[r] = 1
                      /\ store[r] = 1 /\ r \in gone => r \in fresh
                      /\ landed[r] = 0

\* From the game thread's hands through the inbox.
Path(R, S, a, hands, queue, m) ==
  \E k \in S : Runs(R, a, LinesIn(hands), k) /\ Runs(R, k, LinesIn(queue), m)

\* Rows of the other peer's: the host's copy, less what a tombstone waits for,
\* is brought to the peer's own by the lines on the way, each of which toggles it.
PeerRowsInv ==
  \A r \in PeerRows :
    /\ landed[r] <= store[r]
    /\ \E m \in 0..1 : /\ Path(Bits(r), 0..1, Held(r), popped, inbox, m)
                       /\ Runs(Bits(r), m, peerNet, Bit(r \in has))

\* The host's assembler gets every part in its turn.
StreamInv ==
  Blobs(peerNet) /\ Path(Turns({}), Int, got, popped, inbox, Before(peerNet))

\* Messages by sender.
FromPeer ==
  {m \in Message : m.from = NoConn /\ m.line.op \in {"part", "delete"} /\ m.line.row \in PeerRows}
FromJoiner(C) == {m \in Message : m.from \in C \ {NoConn}}

\* What a connection leaves behind: nothing of its own but what is popped.
ControlInv ==
  /\ inbox \in Seq(FromPeer \cup FromJoiner({occ}))
  /\ popped \in Seq(FromPeer \cup FromJoiner(Conns))
  /\ occ = NoConn => /\ stage = "none" /\ up = <<>> /\ link = <<>> /\ ~seeded
                     /\ jTombs = {} /\ jPark = <<>> /\ jGot = 0
                     /\ jLanded = [r \in Rows |-> 0]
  /\ occ # NoConn => stage # "none"

\* Where the occupant's message is: nowhere, up, in the inbox between lines of
\* the other peer's, or in the game thread's hands.
Silent(s)  == s \in Seq(FromPeer)
Msg(op)    == [from |-> occ, op |-> op]
NoMail     == up = <<>> /\ Silent(inbox) /\ Silent(popped)
MailUp(op) == up = <<op>> /\ Silent(inbox) /\ Silent(popped)
MailIn(op, u, v) ==
  up = <<>> /\ Silent(u) /\ Silent(v) /\ inbox = u \o <<Msg(op)>> \o v /\ Silent(popped)
MailOut(op) == up = <<>> /\ Silent(inbox) /\ popped = <<Msg(op)>>

\* Nothing has been sent to the joiner, nor will be.
Closed ==
  /\ ~ready /\ eligible # occ /\ ~seeded
  /\ link = <<>> /\ jPark = <<>> /\ jTombs = {} /\ jGot = 0 /\ jLanded = [r \in Rows |-> 0]

Menu   == Closed /\ NoMail /\ ~snap.valid /\ ~blob.valid
Asking == /\ Closed /\ ~snap.valid /\ ~blob.valid
          /\ MailUp("request") \/ MailOut("request")
               \/ \E u, v \in Seq(FromPeer) : MailIn("request", u, v)
Served == Closed /\ NoMail /\ (snap.valid => blob = snap)

\* The joiner holds what was photographed, if anything was.
Holding == snap.valid => jStore = snap.n
Loaded  == Closed /\ NoMail /\ Holding

\* The other peer's lines are relayed: the joiner gets the parts of each row in
\* turn, but for a row of which the first part was through.
Relayed ==
  /\ eligible = occ
  /\ \E m \in Int : /\ Runs(Turns(murky), jGot, link, m)
                    /\ m = Before(peerNet) \/ (m = 0 /\ Straddling \subseteq murky)

\* It holds that, but for what the lines behind the announce bring.
Behind(lines) ==
  snap.valid => \A r \in Rows \ murky : JoinerWillHave(r) = snap.n[r] + Pending(lines, r)

\* The four places of the announce.
Calling == Closed /\ MailUp("ready") /\ Holding
Heard(v) ==
  /\ Relayed /\ ~ready /\ ~seeded /\ Behind(LinesIn(v))
  /\ v \in Seq(FromPeer) /\ \E u \in Seq(FromPeer) : MailIn("ready", u, v)
Answering ==
  Relayed /\ ~ready /\ ~seeded /\ MailOut("ready") /\ Behind(LinesIn(inbox))
Answered ==
  /\ Relayed /\ ready /\ NoMail
  /\ seeded => \A r \in Rows \ murky : JoinerWillHave(r) = HostWillHave(r)

Emptied == known = NoConn => ~ready /\ ~snap.valid /\ ~blob.valid /\ Silent(popped)
Seated ==
  /\ known \in {NoConn, occ}
  /\ stage = "menu" => Menu
  /\ stage = "asked" => Asking \/ Served
  /\ stage = "loaded" => Loaded
  /\ stage = "announced" =>
       Calling \/ (\E v \in Seq(FromPeer) : Heard(v)) \/ Answering \/ Answered

\* What the occupant was sent, and will be, as long as the game thread knows of
\* no other.
JoinInv == ~late => IF occ = NoConn THEN Emptied ELSE Seated

SafeInv == TypeOK /\ HostRowsInv /\ PeerRowsInv /\ StreamInv /\ ControlInv
Inv     == SafeInv /\ JoinInv

LEMMA TypeParts ==
  TypeOK <=> /\ LaneTypes /\ NetTypes /\ GameTypes /\ PeerTypes /\ ArrayTypes /\ StageTypes
             /\ CountTypes /\ link \in Seq(Line)
BY DEF TypeOK, LaneTypes, NetTypes, GameTypes, PeerTypes, ArrayTypes, StageTypes, CountTypes

LEMMA TypePartsNext ==
  TypeOK' <=> /\ LaneTypes' /\ NetTypes' /\ GameTypes' /\ PeerTypes' /\ ArrayTypes' /\ StageTypes'
              /\ CountTypes' /\ link' \in Seq(Line)
BY DEF TypeOK, LaneTypes, NetTypes, GameTypes, PeerTypes, ArrayTypes, StageTypes, CountTypes

LEMMA TypesSame ==
  /\ LaneTypes /\ UNCHANGED laneVars => LaneTypes'
  /\ NetTypes /\ UNCHANGED netVars => NetTypes'
  /\ GameTypes /\ UNCHANGED gameVars => GameTypes'
  /\ PeerTypes /\ UNCHANGED peerVars => PeerTypes'
  /\ ArrayTypes /\ UNCHANGED arrayVars => ArrayTypes'
  /\ StageTypes /\ UNCHANGED <<stage, up>> => StageTypes'
  /\ link \in Seq(Line) /\ UNCHANGED link => link' \in Seq(Line)
  /\ CountTypes /\ UNCHANGED <<takenVars, edits>> => CountTypes'
<1>1. LaneTypes /\ UNCHANGED laneVars => LaneTypes'
  BY DEF LaneTypes, laneVars
<1>2. NetTypes /\ UNCHANGED netVars => NetTypes'
  BY DEF NetTypes, netVars
<1>3. GameTypes /\ UNCHANGED gameVars => GameTypes'
  BY DEF GameTypes, gameVars
<1>4. PeerTypes /\ UNCHANGED peerVars => PeerTypes'
  BY DEF PeerTypes, peerVars
<1>5. ArrayTypes /\ UNCHANGED arrayVars => ArrayTypes'
  BY DEF ArrayTypes, arrayVars
<1>6. StageTypes /\ UNCHANGED <<stage, up>> => StageTypes'
  BY DEF StageTypes
<1>7. CountTypes /\ UNCHANGED <<takenVars, edits>> => CountTypes'
  BY DEF CountTypes, takenVars
<1> QED BY <1>1, <1>2, <1>3, <1>4, <1>5, <1>6, <1>7

LEMMA ArraysTyped ==
  /\ LaneTypes => HostArray \in Arrays
  /\ ArrayTypes => JoinerArray \in Arrays
BY DEF LaneTypes, ArrayTypes, HostArray, JoinerArray, Arrays, Rows

LEMMA SetJoinerTypes ==
  ASSUME NEW a \in Arrays, SetJoiner(a), jGot' \in 0..Parts, jPark' \in Seq(Rows), primed' \in BOOLEAN
  PROVE  ArrayTypes'
BY DEF SetJoiner, Arrays, ArrayTypes

LEMMA ConnTypes ==
  ASSUME TypeOK, ControlInv
  PROVE  /\ occ # NoConn => occ \in Conns
         /\ up # <<>> => occ # NoConn
         /\ inbox # <<>> => Head(inbox) \in Message /\ Tail(inbox) \in Seq(Message)
         /\ popped # <<>> => popped = <<popped[1]>> /\ popped[1] \in Message
BY DEF TypeOK, ControlInv

\* A line in the game thread's hands is the other peer's.
LEMMA PoppedLine ==
  ASSUME TypeOK, ControlInv, popped # <<>>, popped[1].op = "line"
  PROVE  /\ popped[1] \in FromPeer /\ popped = <<popped[1]>> /\ popped[1].from = NoConn
         /\ popped[1].line \in Line /\ popped[1].line.row \in PeerRows
         /\ popped[1].line.op \in {"part", "delete"} /\ LineOf(popped[1]) = popped[1].line
<1>1. popped[1] \in Message /\ popped = <<popped[1]>>
  BY ConnTypes
<1>2. popped[1] \in FromPeer \cup FromJoiner(Conns)
  <2>1. popped \in Seq(FromPeer \cup FromJoiner(Conns)) /\ Len(popped) = 1 /\ 1 \in 1..1
    BY <1>1 DEF ControlInv
  <2> QED BY <2>1
<1>3. popped[1].from = NoConn
  BY <1>1, MessageFields
<1>4. popped[1] \in FromPeer
  BY <1>2, <1>3 DEF FromJoiner
<1> QED BY <1>1, <1>3, <1>4, MessageFields DEF FromPeer

-----------------------------------------------------------------------------
(* What the steps do to the arrays and to the balance of the lines.        *)

\* What the arrays count, spelled out.
LEMMA HeldIs ==
  ASSUME NEW r
  PROVE  /\ Held(r) = store[r] - Bit(r \in tombs)
         /\ Held(r)' = store'[r] - Bit(r \in tombs')
         /\ Owned(r) = jStore[r] - Bit(r \in jTombs) + Parked(r)
         /\ Owned(r)' = jStore'[r] - Bit(r \in jTombs') + Parked(r)'
<1>1. Held(r) = store[r] - Bit(r \in tombs) /\ Held(r)' = store'[r] - Bit(r \in tombs')
  BY DEF Held, Net, HostArray, Bit
<1>2. Net(JoinerArray, r) = jStore[r] - Bit(r \in jTombs)
      /\ Net(JoinerArray, r)' = jStore'[r] - Bit(r \in jTombs')
  BY DEF Net, JoinerArray, Bit
<1> QED BY <1>1, <1>2 DEF Owned

\* Steps that write an array write what is held of each row.
LEMMA SetHeld ==
  ASSUME NEW a \in Arrays, SetHost(a), NEW r
  PROVE  Held(r)' = Net(a, r)
<1>1. Held(r)' = store'[r] - Bit(r \in tombs')
  BY HeldIs
<1> QED BY <1>1 DEF SetHost, Net

LEMMA SetOwned ==
  ASSUME NEW a \in Arrays, SetJoiner(a), NEW r
  PROVE  Owned(r)' = Net(a, r) + Parked(r)'
<1>1. Owned(r)' = jStore'[r] - Bit(r \in jTombs') + Parked(r)'
  BY HeldIs
<1> QED BY <1>1 DEF SetJoiner, Net

\* The types, as the lemmas on runs and lines want them.
LEMMA TypeFacts ==
  ASSUME TypeOK
  PROVE  /\ popped \in Seq(Message) /\ inbox \in Seq(Message)
         /\ peerNet \in Seq(Line) /\ link \in Seq(Line) /\ jPark \in Seq(Rows)
         /\ \A r \in Rows : store[r] \in Int /\ jStore[r] \in Int /\ store[r] \in 0..1
<1>1. popped \in Seq(Message)
  <2>1. CASE popped = <<>>
    BY <2>1
  <2>2. ASSUME NEW m \in Message, popped = <<m>> PROVE popped \in Seq(Message)
    BY <2>2
  <2> QED BY <2>1, <2>2 DEF TypeOK
<1>2. inbox \in Seq(Message) /\ jPark \in Seq(Rows) /\ {peerNet, link} \subseteq Seq(Line)
  BY DEF TypeOK
<1>3. store \in [Rows -> 0..1] /\ jStore \in [Rows -> Nat]
  BY DEF TypeOK
<1> QED BY <1>1, <1>2, <1>3

\* What the host will have is what it holds and what its inbox still brings.
LEMMA HostWillHaveIs ==
  TypeOK => \A r \in Rows :
    HostWillHave(r) = Held(r) - Bit(r \in fresh) + Bit(r \in gone)
                        + (Pending(LinesIn(popped), r) + Pending(LinesIn(inbox), r))
<1> SUFFICES ASSUME TypeOK, NEW r \in Rows
             PROVE  HostWillHave(r) = Held(r) - Bit(r \in fresh) + Bit(r \in gone)
                        + (Pending(LinesIn(popped), r) + Pending(LinesIn(inbox), r))
  OBVIOUS
<1>0. inbox \in Seq(Message) /\ popped \in Seq(Message) /\ store[r] \in Int
  BY TypeFacts
<1>1. LinesIn(popped \o inbox) = LinesIn(popped) \o LinesIn(inbox)
      /\ LinesIn(popped) \in Seq(AnyLine) /\ LinesIn(inbox) \in Seq(AnyLine)
  BY <1>0, LinesInJoin, LinesInShape
<1>2. Pending(LinesIn(popped \o inbox), r)
        = Pending(LinesIn(popped), r) + Pending(LinesIn(inbox), r)
  BY <1>1, PendingJoin
<1>3. Held(r) = store[r] - Bit(r \in tombs)
  BY HeldIs
<1>4. HostWillHave(r) = store[r] - Bit(r \in fresh) + Bit(r \in gone) - Bit(r \in tombs)
                          + Pending(LinesIn(popped \o inbox), r)
  BY DEF HostWillHave
<1>5. Pending(LinesIn(popped), r) \in Int /\ Pending(LinesIn(inbox), r) \in Int
  BY <1>1, SumIsPending
<1> QED BY <1>0, <1>2, <1>3, <1>4, <1>5 DEF Bit

LEMMA HostWillHaveNext ==
  TypeOK' => \A r \in Rows :
    HostWillHave(r)' = Held(r)' - Bit(r \in fresh') + Bit(r \in gone')
                         + (Pending(LinesIn(popped'), r) + Pending(LinesIn(inbox'), r))
<1>1. (TypeOK => \A r \in Rows :
         HostWillHave(r) = Held(r) - Bit(r \in fresh) + Bit(r \in gone)
                        + (Pending(LinesIn(popped), r) + Pending(LinesIn(inbox), r)))'
  BY HostWillHaveIs, PTL
<1> QED BY <1>1

\* What the joiner will have is what it holds, parked and not, and what is on its link.
LEMMA JoinerWillHaveIs ==
  TypeOK => \A r \in Rows : JoinerWillHave(r) = Owned(r) + Pending(link, r)
<1> SUFFICES ASSUME TypeOK, NEW r \in Rows PROVE JoinerWillHave(r) = Owned(r) + Pending(link, r)
  OBVIOUS
<1>0. jPark \in Seq(Rows) /\ link \in Seq(Line) /\ jStore[r] \in Int
  BY TypeFacts
<1>1. link \in Seq(AnyLine)
  BY <1>0 DEF AnyLine
<1>2. Pending(link, r) \in Int /\ Parked(r) \in Nat
  BY <1>0, <1>1, SumIsPending, ParkedTimes
<1>3. JoinerWillHave(r) = jStore[r] - Bit(r \in jTombs) + Parked(r) + Pending(link, r)
  BY DEF JoinerWillHave, Parked
<1>4. Owned(r) = jStore[r] - Bit(r \in jTombs) + Parked(r)
  BY HeldIs
<1> QED BY <1>2, <1>3, <1>4

LEMMA JoinerWillHaveNext ==
  TypeOK' => \A r \in Rows : JoinerWillHave(r)' = Owned(r)' + Pending(link', r)
<1>1. (TypeOK => \A r \in Rows : JoinerWillHave(r) = Owned(r) + Pending(link, r))'
  BY JoinerWillHaveIs, PTL
<1> QED BY <1>1

LEMMA HeldInt ==
  TypeOK => \A r \in Rows :
    /\ Held(r) \in Int /\ Owned(r) \in Int
    /\ Pending(link, r) \in Int /\ Pending(LinesIn(inbox), r) \in Int
    /\ Pending(LinesIn(popped), r) \in Int
<1> SUFFICES ASSUME TypeOK, NEW r \in Rows
             PROVE  /\ Held(r) \in Int /\ Owned(r) \in Int
                    /\ Pending(link, r) \in Int /\ Pending(LinesIn(inbox), r) \in Int
                    /\ Pending(LinesIn(popped), r) \in Int
  OBVIOUS
<1>1. jPark \in Seq(Rows) /\ link \in Seq(Line) /\ jStore[r] \in Int /\ store[r] \in Int
      /\ inbox \in Seq(Message) /\ popped \in Seq(Message)
  BY TypeFacts
<1>2. LinesIn(popped) \in Seq(AnyLine) /\ LinesIn(inbox) \in Seq(AnyLine) /\ link \in Seq(AnyLine)
  BY <1>1, LinesInShape DEF AnyLine
<1>3. Parked(r) \in Nat
  BY <1>1, ParkedTimes
<1>4. Held(r) = store[r] - Bit(r \in tombs) /\ Owned(r) = jStore[r] - Bit(r \in jTombs) + Parked(r)
  BY HeldIs
<1>5. Held(r) \in Int /\ Owned(r) \in Int
  BY <1>1, <1>3, <1>4 DEF Bit
<1> QED BY <1>2, <1>5, SumIsPending

LEMMA HeldIntNext ==
  TypeOK' => \A r \in Rows :
    /\ Held(r)' \in Int /\ Owned(r)' \in Int
    /\ Pending(link', r) \in Int /\ Pending(LinesIn(inbox'), r) \in Int
    /\ Pending(LinesIn(popped'), r) \in Int
<1>1. (TypeOK => \A r \in Rows :
         /\ Held(r) \in Int /\ Owned(r) \in Int
         /\ Pending(link, r) \in Int /\ Pending(LinesIn(inbox), r) \in Int
         /\ Pending(LinesIn(popped), r) \in Int)'
  BY HeldInt, PTL
<1> QED BY <1>1

\* A line that reaches the host's lane: it toggles the row, and a part comes in
\* its turn.
LEMMA LineDelivered ==
  ASSUME SafeInv, popped # <<>>, popped[1].op = "line"
  PROVE  LET line == popped[1].line
         IN /\ \A r \in PeerRows :
                 /\ Held(r) \in 0..1 /\ Held(r) + Worth(line, r) \in 0..1
                 /\ \E m \in 0..1 : /\ Runs(Bits(r), Held(r) + Worth(line, r), LinesIn(inbox), m)
                                    /\ Runs(Bits(r), m, peerNet, Bit(r \in has))
            /\ line.op = "part" => InTurn(got, line)
            /\ Runs(Turns({}), After(got, line), LinesIn(inbox), Before(peerNet))
<1> DEFINE line == popped[1].line
<1>1. /\ popped[1] \in Message /\ popped = <<popped[1]>> /\ LineOf(popped[1]) = line
      /\ line \in Line
  <2>1. TypeOK /\ ControlInv
    BY DEF SafeInv
  <2>2. popped[1] \in FromPeer => popped[1] \in Message
    BY DEF FromPeer
  <2> QED BY <2>1, <2>2, PoppedLine
<1>2. LinesIn(popped) = <<line>> /\ line \in AnyLine
  <2>1. LinesIn(<<popped[1]>>) = <<LineOf(popped[1])>>
    BY <1>1, LinesInFew
  <2> QED BY <1>1, <2>1 DEF AnyLine
<1> HIDE DEF line
<1>3. ASSUME NEW r \in PeerRows
      PROVE  /\ Held(r) \in 0..1 /\ Held(r) + Worth(line, r) \in 0..1
             /\ \E m \in 0..1 : /\ Runs(Bits(r), Held(r) + Worth(line, r), LinesIn(inbox), m)
                                /\ Runs(Bits(r), m, peerNet, Bit(r \in has))
  <2>1. PICK k \in 0..1, m \in 0..1 :
          /\ Runs(Bits(r), Held(r), <<line>>, k)
          /\ Runs(Bits(r), k, LinesIn(inbox), m)
          /\ Runs(Bits(r), m, peerNet, Bit(r \in has))
    BY <1>2 DEF SafeInv, PeerRowsInv, Path
  <2>2. Held(r) \in Int /\ k \in Int
    <3>1. TypeOK /\ r \in Rows
      BY DEF SafeInv, Rows
    <3> QED BY <3>1, HeldInt
  <2>3. <<Held(r), line, k>> \in Bits(r)
    BY <2>1, <2>2, RunsOne
  <2>4. Held(r) \in 0..1 /\ k = Held(r) + Worth(line, r)
    BY <2>3, BitsDef
  <2> QED BY <2>1, <2>4
<1>4. PICK k \in Int : /\ Runs(Turns({}), got, <<line>>, k)
                       /\ Runs(Turns({}), k, LinesIn(inbox), Before(peerNet))
  BY <1>2 DEF SafeInv, StreamInv, Path
<1>5. got \in Int
  <2>1. got \in 0..Parts /\ Parts \in Nat
    BY Fields DEF SafeInv, TypeOK
  <2> QED BY <2>1
<1>6. <<got, line, k>> \in Turns({})
  BY <1>4, <1>5, RunsOne
<1>7. k = After(got, line) /\ (line.op = "part" => InTurn(got, line))
  BY <1>6, TurnsDef
<1> QED BY <1>3, <1>4, <1>7 DEF line

\* The dispatch of a line: one copy more or one less, or a part of a row to come.
LEMMA OnLineEffect ==
  ASSUME SafeInv, OnLine
  PROVE  LET line == popped[1].line
         IN /\ popped # <<>> /\ popped[1].op = "line" /\ popped' = <<>>
            /\ line \in Line /\ line.row \in PeerRows
            /\ got' = After(got, line) /\ got' \in 0..Parts
            /\ store' \in [Rows -> 0..1] /\ landed' \in [Rows -> 0..1] /\ tombs' \subseteq PeerRows
            /\ \A r \in HostRows : store'[r] = store[r] /\ landed'[r] = landed[r]
            /\ \A r \in PeerRows : landed'[r] <= store'[r]
            /\ \A r \in Rows : Held(r)' = Held(r) + Worth(line, r)
            /\ UNCHANGED <<fresh, gone>>
<1> DEFINE line == popped[1].line
           q == line.row
           a == HostArray
<1>1. popped # <<>> /\ popped[1].op = "line" /\ popped' = <<>> /\ UNCHANGED <<fresh, gone>>
  BY DEF OnLine, Dispatch
<1>2. TypeOK /\ ControlInv /\ PeerRowsInv /\ HostRowsInv
  BY DEF SafeInv
<1>3. line \in Line /\ q \in PeerRows /\ line.op \in {"part", "delete"} /\ q \in Rows
  BY <1>1, <1>2, PoppedLine DEF Rows
<1>4. /\ Held(q) \in 0..1 /\ Held(q) + Worth(line, q) \in 0..1
      /\ line.op = "part" => InTurn(got, line)
  BY <1>1, <1>3, LineDelivered
<1>5. /\ store \in [Rows -> 0..1] /\ landed \in [Rows -> 0..1] /\ tombs \subseteq PeerRows
      /\ got \in 0..Parts /\ landed[q] <= store[q] /\ \A r \in PeerRows : landed[r] <= store[r]
  BY <1>2, <1>3 DEF TypeOK, PeerRowsInv
<1>6. a \in Arrays /\ a = [n |-> store, new |-> landed, tomb |-> tombs]
  BY <1>2, TypeParts, ArraysTyped DEF HostArray
<1>7. Held(q) = store[q] - Bit(q \in tombs) /\ store[q] \in 0..1 /\ landed[q] \in 0..1
  BY <1>3, <1>5, HeldIs
<1>8. HostRows \cap PeerRows = {} /\ Rows = HostRows \cup PeerRows /\ Parts \in Nat \ {0}
  BY RowsAssumption DEF Rows
<1>9. line.part \in 1..Parts
  BY <1>3, Fields
<1>10. \/ /\ line.op = "delete" /\ UNCHANGED got
          /\ \E aligned \in BOOLEAN : SetHost(ApplyDelete(a, q, aligned))
       \/ /\ line.op # "delete" /\ got' = Assembled(got, line)
          /\ SetHost(IF Brings(got, line) THEN ApplyRow(a, q) ELSE a)
  BY DEF OnLine
<1>11. got' = After(got, line)
  BY <1>3, <1>10 DEF After
<1>12. got' \in 0..Parts
  BY <1>3, <1>5, <1>8, <1>9, <1>10 DEF Assembled
<1> DEFINE Goal ==
      /\ store' \in [Rows -> 0..1] /\ landed' \in [Rows -> 0..1] /\ tombs' \subseteq PeerRows
      /\ \A r \in HostRows : store'[r] = store[r] /\ landed'[r] = landed[r]
      /\ \A r \in PeerRows : landed'[r] <= store'[r]
      /\ \A r \in Rows : Held(r)' = Held(r) + Worth(line, r)
<1>13. \A r \in Rows : r # q => Worth(line, r) = 0
  BY DEF Worth
<1>14. ASSUME UNCHANGED <<store, landed, tombs>>, Worth(line, q) = 0 PROVE Goal
  <2>1. \A r \in Rows : Held(r)' = Held(r) + Worth(line, r)
    <3> TAKE r \in Rows
    <3>1. Held(r)' = Held(r) /\ Held(r) \in Int /\ Worth(line, r) = 0
      BY <1>2, <1>13, <1>14, HeldIs, HeldInt
    <3> QED BY <3>1
  <2> QED BY <1>5, <1>14, <2>1
<1>15. ASSUME line.op = "delete" PROVE Goal
  <2>1. Worth(line, q) = -1
    BY <1>15 DEF Worth
  <2>2. store[q] = 1 /\ q \notin tombs
    BY <1>4, <1>7, <2>1 DEF Bit
  <2>3. PICK aligned \in BOOLEAN : SetHost(ApplyDelete(a, q, aligned))
    BY <1>10, <1>15
  <2>4. CASE aligned /\ store[q] > landed[q]
    <3>1. ApplyDelete(a, q, aligned) = [n |-> [store EXCEPT ![q] = @ - 1], new |-> landed, tomb |-> tombs]
      BY <1>6, <2>4 DEF ApplyDelete
    <3>2. store' = [store EXCEPT ![q] = @ - 1] /\ landed' = landed /\ tombs' = tombs
      BY <2>3, <3>1 DEF SetHost
    <3>3. landed[q] = 0
      BY <1>7, <2>2, <2>4
    <3>4. store' \in [Rows -> 0..1] /\ store'[q] = 0 /\ \A r \in Rows : r # q => store'[r] = store[r]
      BY <1>3, <1>5, <2>2, <3>2
    <3>5. \A r \in HostRows : store'[r] = store[r] /\ landed'[r] = landed[r]
      BY <1>3, <1>8, <3>2, <3>4
    <3>6. \A r \in PeerRows : landed'[r] <= store'[r]
      BY <1>5, <1>8, <3>2, <3>3, <3>4
    <3>7. ASSUME NEW r \in Rows PROVE Held(r)' = Held(r) + Worth(line, r)
      <4>1. Held(r)' = store'[r] - Bit(r \in tombs) /\ Held(r) = store[r] - Bit(r \in tombs)
            /\ store[r] \in 0..1
        BY <1>5, <3>2, HeldIs
      <4> QED BY <1>13, <2>1, <2>2, <3>4, <4>1 DEF Bit
    <3> QED BY <1>5, <3>2, <3>4, <3>5, <3>6, <3>7
  <2>5. CASE ~(aligned /\ store[q] > landed[q])
    <3>1. ApplyDelete(a, q, aligned) = [n |-> store, new |-> landed, tomb |-> tombs \cup {q}]
      BY <1>6, <2>5 DEF ApplyDelete
    <3>2. store' = store /\ landed' = landed /\ tombs' = tombs \cup {q}
      BY <2>3, <3>1 DEF SetHost
    <3>3. ASSUME NEW r \in Rows PROVE Held(r)' = Held(r) + Worth(line, r)
      <4>1. Held(r)' = store[r] - Bit(r \in tombs \cup {q}) /\ Held(r) = store[r] - Bit(r \in tombs)
            /\ store[r] \in 0..1
        BY <1>5, <3>2, HeldIs
      <4>2. r = q => Bit(r \in tombs \cup {q}) = 1 /\ Bit(r \in tombs) = 0
        BY <2>2 DEF Bit
      <4>3. r # q => Bit(r \in tombs \cup {q}) = Bit(r \in tombs)
        BY DEF Bit
      <4>4. Bit(r \in tombs) \in Int
        BY DEF Bit
      <4> QED BY <1>13, <2>1, <4>1, <4>2, <4>3, <4>4
    <3> QED BY <1>3, <1>5, <3>2, <3>3
  <2> QED BY <2>4, <2>5
<1>16. ASSUME line.op = "part", line.part = Parts PROVE Goal
  <2>1. Worth(line, q) = 1
    BY <1>16 DEF Worth
  <2>2. Brings(got, line)
    BY <1>4, <1>16 DEF Brings
  <2>3. (store[q] = 0 /\ q \notin tombs) \/ (store[q] = 1 /\ q \in tombs)
    BY <1>4, <1>7, <2>1 DEF Bit
  <2>4. SetHost(ApplyRow(a, q))
    BY <1>10, <1>16, <2>2
  <2>5. CASE q \in tombs
    <3>1. ApplyRow(a, q) = [n |-> store, new |-> landed, tomb |-> tombs \ {q}]
      BY <1>6, <2>5 DEF ApplyRow
    <3>2. store' = store /\ landed' = landed /\ tombs' = tombs \ {q}
      BY <2>4, <3>1 DEF SetHost
    <3>3. ASSUME NEW r \in Rows PROVE Held(r)' = Held(r) + Worth(line, r)
      <4>1. Held(r)' = store[r] - Bit(r \in tombs \ {q}) /\ Held(r) = store[r] - Bit(r \in tombs)
            /\ store[r] \in 0..1
        BY <1>5, <3>2, HeldIs
      <4>2. r = q => Bit(r \in tombs \ {q}) = 0 /\ Bit(r \in tombs) = 1
        BY <2>5 DEF Bit
      <4>3. r # q => Bit(r \in tombs \ {q}) = Bit(r \in tombs)
        BY DEF Bit
      <4>4. Bit(r \in tombs) \in Int
        BY DEF Bit
      <4> QED BY <1>13, <2>1, <4>1, <4>2, <4>3, <4>4
    <3> QED BY <1>5, <3>2, <3>3
  <2>6. CASE q \notin tombs
    <3>1. ApplyRow(a, q) = [n |-> [store EXCEPT ![q] = @ + 1], new |-> [landed EXCEPT ![q] = @ + 1],
                            tomb |-> tombs]
      BY <1>6, <2>6 DEF ApplyRow
    <3>2. /\ store' = [store EXCEPT ![q] = @ + 1] /\ landed' = [landed EXCEPT ![q] = @ + 1]
          /\ tombs' = tombs
      BY <2>4, <3>1 DEF SetHost
    <3>3. store[q] = 0 /\ landed[q] = 0
      BY <1>5, <1>7, <2>3, <2>6
    <3>4. /\ store' \in [Rows -> 0..1] /\ landed' \in [Rows -> 0..1]
          /\ store'[q] = 1 /\ landed'[q] = 1
          /\ \A r \in Rows : r # q => store'[r] = store[r] /\ landed'[r] = landed[r]
      BY <1>3, <1>5, <3>2, <3>3
    <3>5. \A r \in HostRows : store'[r] = store[r] /\ landed'[r] = landed[r]
      BY <1>3, <1>8, <3>4
    <3>6. \A r \in PeerRows : landed'[r] <= store'[r]
      BY <1>5, <1>8, <3>4
    <3>7. ASSUME NEW r \in Rows PROVE Held(r)' = Held(r) + Worth(line, r)
      <4>1. Held(r)' = store'[r] - Bit(r \in tombs) /\ Held(r) = store[r] - Bit(r \in tombs)
            /\ store[r] \in 0..1
        BY <1>5, <3>2, HeldIs
      <4> QED BY <1>13, <2>1, <3>3, <3>4, <4>1 DEF Bit
    <3> QED BY <1>5, <3>2, <3>4, <3>5, <3>6, <3>7
  <2> QED BY <2>5, <2>6
<1>17. ASSUME line.op = "part", line.part # Parts PROVE Goal
  <2>1. Worth(line, q) = 0 /\ ~Brings(got, line)
    BY <1>17 DEF Worth, Brings
  <2>2. UNCHANGED <<store, landed, tombs>>
    BY <1>6, <1>10, <1>17, <2>1 DEF SetHost
  <2> QED BY <1>14, <2>1, <2>2
<1>18. Goal
  BY <1>3, <1>15, <1>16, <1>17
<1> QED BY <1>1, <1>3, <1>11, <1>12, <1>18

\* Counting the parked rows, one by one.
LEMMA TimesNext ==
  ASSUME NEW d, NEW e, NEW n \in Nat, NEW x, NEW r,
         d[n + 1] = x, \A i \in 1..n : d[i] = e[i]
  PROVE  Times(d, n + 1, r) = Times(e, n, r) + Bit(r = x) /\ Times(e, n, r) \in Nat
<1>1. Times(d, n + 1, r) = Times(d, n, r) + IF d[n + 1] = r THEN 1 ELSE 0
  BY CountTo
<1>2. {i \in 1..n : d[i] = r} = {i \in 1..n : e[i] = r}
  OBVIOUS
<1>3. Times(d, n, r) = Times(e, n, r)
  BY <1>2 DEF Times
<1>4. Times(e, n, r) \in Nat
  BY CountTo
<1> QED BY <1>1, <1>3, <1>4 DEF Bit

LEMMA TimesAppend ==
  ASSUME NEW T, NEW s \in Seq(T), NEW x \in T, NEW r
  PROVE  Times(Append(s, x), Len(Append(s, x)), r) = Times(s, Len(s), r) + Bit(r = x)
<1>1. /\ Len(s) \in Nat /\ Len(Append(s, x)) = Len(s) + 1 /\ Append(s, x)[Len(s) + 1] = x
      /\ \A i \in 1..Len(s) : Append(s, x)[i] = s[i]
  OBVIOUS
<1> DEFINE t == Append(s, x)
           n == Len(s)
<1> HIDE DEF t, n
<1>2. n \in Nat /\ Len(t) = n + 1 /\ t[n + 1] = x /\ \A i \in 1..n : t[i] = s[i]
  BY <1>1 DEF t, n
<1>3. Times(t, n + 1, r) = Times(s, n, r) + Bit(r = x)
  BY <1>2, TimesNext
<1> QED BY <1>2, <1>3 DEF t, n

LEMMA ParkedNext ==
  ASSUME NEW r, jPark' \in Seq(Rows)
  PROVE  Parked(r)' = Times(jPark', Len(jPark'), r) /\ Parked(r)' \in Nat
<1>1. DOMAIN jPark' = 1..Len(jPark') /\ Len(jPark') \in Nat
  OBVIOUS
<1>2. Parked(r)' = Cardinality({i \in DOMAIN jPark' : jPark'[i] = r})
  BY DEF Parked
<1>3. Parked(r)' = Times(jPark', Len(jPark'), r)
  BY <1>1, <1>2 DEF Times
<1> QED BY <1>1, <1>3, CountTo

\* A row the joiner receives is applied or parked, a deletion applied or kept.
LEMMA JReceiveEffect ==
  ASSUME TypeOK, JReceive
  PROVE  LET line == link[1]
         IN /\ link # <<>> /\ line \in Line /\ link' = Tail(link)
            /\ ArrayTypes' /\ murky \subseteq murky' /\ murky' \subseteq Rows
            /\ jGot' = After(jGot, line)
            /\ \A r \in Rows \ murky' :
                 (line.op = "part" /\ line.row = r => InTurn(jGot, line))
                   => Owned(r)' = Owned(r) + Worth(line, r)
<1> DEFINE line == link[1]
           q == line.row
           a == JoinerArray
<1>1. link # <<>> /\ link \in Seq(Line) /\ line \in Line /\ line = Head(link) /\ link' = Tail(link)
  <2>1. link # <<>> /\ link' = Tail(link) /\ link \in Seq(Line)
    BY TypeFacts DEF JReceive
  <2>2. Head(link) = link[1] /\ link[1] \in Line
    BY <2>1, HeadJoins
  <2> QED BY <2>1, <2>2
<1>2. /\ jGot' = IF line.op = "part" THEN Assembled(jGot, line) ELSE jGot
      /\ murky' = IF line.op = "delete" THEN murky \cup ({q} \cap jTombs) ELSE murky
      /\ \/ /\ line.op = "delete"
            /\ SetJoiner(ApplyDelete(a, q, primed))
            /\ UNCHANGED jPark
         \/ Brings(jGot, line) /\ Complete(q)
         \/ /\ line.op # "delete" /\ ~Brings(jGot, line)
            /\ UNCHANGED <<jStore, jLanded, jTombs, jPark>>
      /\ UNCHANGED primed
  BY <1>1 DEF JReceive
<1>3. line.op \in {"row", "delete", "part"} /\ q \in Rows /\ line.part \in 1..Parts
      /\ Parts \in Nat \ {0}
  BY <1>1, Fields
<1>4. ArrayTypes /\ murky \subseteq Rows
  BY TypeParts DEF CountTypes
<1>5. a \in Arrays /\ jGot \in 0..Parts /\ jPark \in Seq(Rows) /\ primed \in BOOLEAN
  BY <1>4, ArraysTyped DEF ArrayTypes
<1>6. jGot' = After(jGot, line) /\ jGot' \in 0..Parts
  BY <1>2, <1>3, <1>5 DEF After, Assembled
<1>7. murky \subseteq murky' /\ murky' \subseteq Rows
  BY <1>2, <1>3, <1>4
<1>8. \A r \in Rows : Owned(r) = Net(a, r) + Parked(r) /\ Net(a, r) \in Int /\ Parked(r) \in Nat
  <2> TAKE r \in Rows
  <2>1. Net(a, r) \in Int
    BY <1>5, PolledNet
  <2> QED BY <1>5, <2>1, ParkedTimes DEF Owned
<1>9. ASSUME UNCHANGED jPark PROVE \A r : Parked(r)' = Parked(r)
  BY <1>9 DEF Parked
<1>10. ASSUME line.op = "delete"
       PROVE  ArrayTypes' /\ \A r \in Rows \ murky' : Owned(r)' = Owned(r) + Worth(line, r)
  <2> DEFINE b == ApplyDelete(a, q, primed)
  <2>1. SetJoiner(b) /\ UNCHANGED <<jPark, primed>>
    BY <1>2, <1>10 DEF Brings
  <2>2. /\ b \in Arrays
        /\ \A r \in Rows : (r = q => q \notin a.tomb) =>
             Net(b, r) = Net(a, r) - Bit(r = q) /\ Net(a, r) \in Int
    BY <1>3, <1>5, ApplyDeleteNet
  <2> HIDE DEF b
  <2>3. ArrayTypes'
    BY <1>5, <1>6, <2>1, <2>2, SetJoinerTypes
  <2>4. ASSUME NEW r \in Rows \ murky' PROVE Owned(r)' = Owned(r) + Worth(line, r)
    <3>1. r = q => q \notin a.tomb
      BY <1>2, <1>10, <2>4 DEF JoinerArray
    <3>2. Net(b, r) = Net(a, r) - Bit(r = q)
      BY <2>2, <3>1
    <3>3. Owned(r)' = Net(b, r) + Parked(r)
      BY <1>9, <2>1, <2>2, SetOwned
    <3>4. Worth(line, r) = 0 - Bit(r = q)
      BY <1>10 DEF Worth, Bit
    <3>5. Bit(r = q) \in Int
      BY DEF Bit
    <3>6. Owned(r) = Net(a, r) + Parked(r) /\ Net(a, r) \in Int /\ Parked(r) \in Nat
      BY <1>8
    <3> HIDE DEF a, line, q
    <3> QED BY <3>2, <3>3, <3>4, <3>5, <3>6
  <2> QED BY <2>3, <2>4
<1>11. ASSUME Brings(jGot, line)
       PROVE  ArrayTypes' /\ \A r \in Rows \ murky' : Owned(r)' = Owned(r) + Worth(line, r)
  <2>1. line.op # "delete" /\ Complete(q)
    BY <1>2, <1>11 DEF Brings
  <2>2. \A r : Worth(line, r) = Bit(r = q)
    BY <1>11, <2>1 DEF Worth, Bit, Brings
  <2>3. CASE jPark # <<>> \/ ~primed
    <3>1. jPark' = Append(jPark, q) /\ SetJoiner(a)
      BY <2>1, <2>3 DEF Complete
    <3>2. jPark' \in Seq(Rows)
      BY <1>3, <1>5, <3>1
    <3>3. ArrayTypes'
      BY <1>2, <1>5, <1>6, <3>1, <3>2, SetJoinerTypes
    <3>4. ASSUME NEW r \in Rows PROVE Owned(r)' = Owned(r) + Worth(line, r)
      <4>1. Times(jPark', Len(jPark'), r) = Times(jPark, Len(jPark), r) + Bit(r = q)
        BY <1>3, <1>5, <3>1, TimesAppend
      <4>2. Parked(r)' = Parked(r) + Bit(r = q)
        BY <1>5, <3>2, <4>1, ParkedNext, ParkedTimes
      <4>3. Owned(r)' = Net(a, r) + Parked(r)'
        BY <1>5, <3>1, SetOwned
      <4>4. Owned(r) = Net(a, r) + Parked(r) /\ Net(a, r) \in Int /\ Parked(r) \in Nat
        BY <1>8
      <4>5. Bit(r = q) \in Int /\ Worth(line, r) = Bit(r = q)
        BY <2>2 DEF Bit
      <4> HIDE DEF a, line, q
      <4> QED BY <4>2, <4>3, <4>4, <4>5
    <3> QED BY <3>3, <3>4
  <2>4. CASE ~(jPark # <<>> \/ ~primed)
    <3> DEFINE b == ApplyRow(a, q)
    <3>1. UNCHANGED jPark /\ SetJoiner(b)
      BY <2>1, <2>4 DEF Complete
    <3>2. b \in Arrays /\ \A r \in Rows : Net(b, r) = Net(a, r) + Bit(r = q)
      <4>1. a \in Arrays /\ q \in Rows
        BY <1>3, <1>5
      <4> HIDE DEF a, q
      <4>2. b \in Arrays
        BY <4>1, ApplyRowNet
      <4>3. ASSUME NEW r \in Rows PROVE Net(b, r) = Net(a, r) + Bit(r = q)
        BY <4>1, ApplyRowNet
      <4> QED BY <4>2, <4>3
    <3> HIDE DEF b
    <3>3. ArrayTypes'
      BY <1>2, <1>5, <1>6, <3>1, <3>2, SetJoinerTypes
    <3>4. ASSUME NEW r \in Rows PROVE Owned(r)' = Owned(r) + Worth(line, r)
      <4>1. Net(b, r) = Net(a, r) + Bit(r = q)
        BY <3>2
      <4>2. Owned(r)' = Net(b, r) + Parked(r)
        BY <1>9, <3>1, <3>2, SetOwned
      <4>3. Owned(r) = Net(a, r) + Parked(r) /\ Net(a, r) \in Int /\ Parked(r) \in Nat
        BY <1>8
      <4>4. Bit(r = q) \in Int /\ Worth(line, r) = Bit(r = q)
        BY <2>2 DEF Bit
      <4> HIDE DEF a, line, q
      <4> QED BY <4>1, <4>2, <4>3, <4>4
    <3> QED BY <3>3, <3>4
  <2> QED BY <2>3, <2>4
<1>12. ASSUME line.op # "delete", ~Brings(jGot, line)
       PROVE  /\ ArrayTypes'
              /\ \A r \in Rows \ murky' :
                   (line.op = "part" /\ q = r => InTurn(jGot, line))
                     => Owned(r)' = Owned(r) + Worth(line, r)
  <2>1. UNCHANGED <<jStore, jLanded, jTombs, jPark, primed>>
    BY <1>2, <1>12
  <2>2. ArrayTypes'
    BY <1>4, <1>6, <2>1 DEF ArrayTypes
  <2>3. ASSUME NEW r \in Rows, line.op = "part" /\ q = r => InTurn(jGot, line)
        PROVE  Owned(r)' = Owned(r) + Worth(line, r)
    <3>1. Worth(line, r) = 0
      <4> HIDE DEF line
      <4> QED BY <1>3, <1>12, <2>3 DEF Worth, Brings
    <3>2. Owned(r)' = Owned(r)
      BY <1>9, <2>1, HeldIs
    <3>3. Owned(r) \in Int
      BY HeldInt
    <3> QED BY <3>1, <3>2, <3>3
  <2> QED BY <2>2, <2>3
<1>13. /\ ArrayTypes'
       /\ \A r \in Rows \ murky' :
            (line.op = "part" /\ q = r => InTurn(jGot, line)) => Owned(r)' = Owned(r) + Worth(line, r)
  BY <1>10, <1>11, <1>12
<1> QED BY <1>1, <1>6, <1>7, <1>13

\* What waits and what is waited for is settled without a loss.
LEMMA JSettleEffect ==
  ASSUME TypeOK, JDrain \/ JPoll
  PROVE  /\ ArrayTypes' /\ UNCHANGED jGot /\ \A r \in Rows : Owned(r)' = Owned(r)
         /\ jPark = <<>> /\ jTombs = {} =>
              /\ JPoll /\ jPark' = <<>> /\ jTombs' = {}
              /\ jLanded' = [r \in Rows |-> 0] /\ jStore' = jStore
<1> DEFINE a == JoinerArray
<1>1. ArrayTypes
  BY TypeParts
<1>2. a \in Arrays /\ jGot \in 0..Parts /\ jPark \in Seq(Rows) /\ primed \in BOOLEAN
      /\ a.tomb = jTombs /\ a.n = jStore
  BY <1>1, ArraysTyped DEF ArrayTypes, JoinerArray
<1>3. \A r \in Rows : Owned(r) = Net(a, r) + Parked(r) /\ Net(a, r) \in Int /\ Parked(r) \in Nat
  <2> TAKE r \in Rows
  <2>1. Net(a, r) \in Int
    BY <1>2, PolledNet
  <2> QED BY <1>2, <2>1, ParkedTimes DEF Owned
<1>4. ASSUME JDrain
      PROVE  /\ ArrayTypes' /\ UNCHANGED jGot /\ jPark # <<>>
             /\ \A r \in Rows : Owned(r)' = Owned(r)
  <2>1. jPark # <<>> /\ jPark' = <<>> /\ SetJoiner(Drained) /\ UNCHANGED <<jGot, primed>>
    BY <1>4 DEF JDrain
  <2>2. Drained \in Arrays /\ \A r \in Rows : Net(Drained, r) = Net(a, r) + Parked(r)
    BY <1>2, DrainedNet
  <2>3. jPark' \in Seq(Rows) /\ Len(jPark') = 0
    BY <2>1
  <2>4. ArrayTypes'
    BY <1>2, <2>1, <2>2, <2>3, SetJoinerTypes
  <2>5. ASSUME NEW r \in Rows PROVE Owned(r)' = Owned(r)
    <3>1. Parked(r)' = 0
      BY <2>3, ParkedNext, CountTo
    <3>2. Owned(r)' = Net(Drained, r) + Parked(r)'
      BY <2>1, <2>2, SetOwned
    <3>3. Net(Drained, r) = Net(a, r) + Parked(r)
      BY <2>2
    <3> HIDE DEF a
    <3> QED BY <1>3, <3>1, <3>2, <3>3
  <2> QED BY <2>1, <2>4, <2>5
<1>5. ASSUME JPoll
      PROVE  /\ ArrayTypes' /\ UNCHANGED jGot /\ jPark' = jPark
             /\ \A r \in Rows : Owned(r)' = Owned(r)
             /\ jTombs = {} => jTombs' = {} /\ jStore' = jStore
             /\ jLanded' = [r \in Rows |-> 0]
  <2> DEFINE b == Polled(a)
  <2>1. SetJoiner(b) /\ UNCHANGED <<jGot, jPark>> /\ primed' = TRUE
    BY <1>5 DEF JPoll
  <2>2. /\ b \in Arrays /\ b.new = [r \in Rows |-> 0] /\ b.tomb \subseteq a.tomb
        /\ \A r \in Rows : Net(b, r) = Net(a, r)
        /\ a.tomb = {} => b.n = a.n
    BY <1>2, PolledNet
  <2> HIDE DEF b
  <2>3. ArrayTypes'
    BY <1>2, <2>1, <2>2, SetJoinerTypes
  <2>4. ASSUME NEW r \in Rows PROVE Owned(r)' = Owned(r)
    <3>1. Owned(r)' = Net(b, r) + Parked(r)'
      BY <2>1, <2>2, SetOwned
    <3>2. Parked(r)' = Parked(r)
      BY <2>1 DEF Parked
    <3> QED BY <1>3, <2>2, <3>1, <3>2
  <2> QED BY <1>2, <2>1, <2>2, <2>3, <2>4 DEF SetJoiner
<1>6. CASE JDrain
  BY <1>4, <1>6
<1>7. CASE JPoll
  BY <1>5, <1>7
<1> QED BY <1>6, <1>7

-----------------------------------------------------------------------------
(* The types.                                                              *)

\* A poll of the host leaves what it holds as it was.
LEMMA HostPollEffect ==
  ASSUME TypeOK, HostPoll
  PROVE  /\ store' \in [Rows -> 0..1] /\ landed' = [r \in Rows |-> 0] /\ tombs' \subseteq tombs
         /\ fresh' = {} /\ gone' = {}
         /\ \A r \in Rows : Held(r)' = Held(r) /\ store'[r] <= store[r]
         /\ \A r \in Rows : r \notin tombs => store'[r] = store[r]
<1> DEFINE a == HostArray
           b == Polled(a)
<1>1. SetHost(b) /\ fresh' = {} /\ gone' = {}
  BY DEF HostPoll
<1>2. a \in Arrays /\ a.n = store /\ a.tomb = tombs /\ store \in [Rows -> 0..1]
  BY TypeParts, ArraysTyped DEF HostArray, LaneTypes
<1> HIDE DEF a
<1>3. /\ b \in Arrays /\ b.new = [r \in Rows |-> 0] /\ b.tomb \subseteq a.tomb
      /\ \A q \in Rows : Net(b, q) = Net(a, q) /\ Net(a, q) \in Int /\ b.n[q] <= a.n[q]
  BY <1>2, PolledNet
<1>4. \A r \in Rows : r \notin a.tomb => b.n[r] = a.n[r]
  BY DEF Polled
<1> HIDE DEF b
<1>5. store' = b.n /\ landed' = b.new /\ tombs' = b.tomb /\ b.n \in [Rows -> Nat]
  BY <1>1, <1>3 DEF SetHost, Arrays
<1>6. store' \in [Rows -> 0..1]
  <2>1. \A r \in Rows : store'[r] \in 0..1
    BY <1>2, <1>3, <1>5
  <2> QED BY <1>5, <2>1
<1>7. ASSUME NEW r \in Rows PROVE Held(r)' = Held(r)
  <2>1. Held(r)' = Net(b, r)
    BY <1>1, <1>3, SetHeld
  <2> QED BY <1>3, <2>1 DEF Held, a
<1> QED BY <1>1, <1>2, <1>3, <1>4, <1>5, <1>6, <1>7

\* The lines of a poll and of a seed.
LEMMA PollLines ==
  ASSUME TypeOK
  PROVE  LET s == SetToSeq({Delete(r) : r \in gone}) \o SetToSeq({Row(r) : r \in fresh})
         IN /\ s \in Seq(Line)
            /\ \A i \in 1..Len(s) : s[i].op # "part"
            /\ \A r \in Rows : Pending(s, r) = Bit(r \in fresh) - Bit(r \in gone)
<1>1. gone \in SUBSET Rows /\ fresh \in SUBSET Rows
  BY DEF TypeOK, Rows
<1> QED BY <1>1, ListsPending

LEMMA SeedLines ==
  ASSUME TypeOK, snap.valid
  PROVE  /\ Seed \in Seq(Line)
         /\ \A i \in 1..Len(Seed) : Seed[i].op # "part"
         /\ snap.n \in [Rows -> 0..1]
         /\ \A r \in Rows : Pending(Seed, r) = store[r] - snap.n[r] /\ snap.n[r] \in Int
<1> DEFINE P == RowsOf(snap.n) \ RowsOf(store)
           Q == RowsOf(store) \ RowsOf(snap.n)
<1>1. snap.n \in [Rows -> 0..1] /\ store \in [Rows -> 0..1]
  BY DEF TypeOK, Snapshots
<1>2. P \in SUBSET Rows /\ Q \in SUBSET Rows
  BY DEF RowsOf
<1>3. Seed = SetToSeq({Delete(r) : r \in P}) \o SetToSeq({Row(r) : r \in Q})
  BY DEF Seed, Difference
<1>4. ASSUME NEW r \in Rows PROVE Bit(r \in Q) - Bit(r \in P) = store[r] - snap.n[r]
  BY <1>1 DEF Bit, RowsOf
<1> HIDE DEF P, Q
<1>5. /\ Seed \in Seq(Line)
      /\ \A i \in 1..Len(Seed) : Seed[i].op # "part"
      /\ \A r \in Rows : Pending(Seed, r) = Bit(r \in Q) - Bit(r \in P)
  BY <1>2, <1>3, ListsPending
<1>6. \A r \in Rows : snap.n[r] \in Int
  BY <1>1
<1> QED BY <1>1, <1>4, <1>5, <1>6

LEMMA SnapFacts ==
  /\ NoSnap \in Snapshots /\ ~NoSnap.valid
  /\ \A s \in Snapshots : s.valid \in BOOLEAN /\ (s.valid => s.n \in [Rows -> 0..1])
BY DEF Snapshots, NoSnap

\* Each action keeps TypeOK.
LEMMA TypeNext ==
  ASSUME SafeInv, Next
  PROVE  TypeOK'
<1>1. TypeOK /\ ControlInv /\ HostRowsInv
  BY DEF SafeInv
<1>2. /\ LaneTypes /\ NetTypes /\ GameTypes /\ PeerTypes /\ ArrayTypes /\ StageTypes
      /\ CountTypes /\ link \in Seq(Line)
  BY <1>1, TypeParts
<1>3. HostRows \subseteq Rows /\ PeerRows \subseteq Rows /\ Parts \in Nat \ {0}
      /\ MaxEdits \in Nat /\ MaxSeats \in Nat
  BY RowsAssumption DEF Rows
<1>4. ASSUME NEW r \in HostRows, HostAppend(r) \/ HostDelete(r) PROVE TypeOK'
  <2>1. UNCHANGED <<netVars, gameVars, peerVars, arrayVars, stage, up, link, takenVars>>
    BY <1>4 DEF HostAppend, HostDelete, joinerVars
  <2>2. NetTypes' /\ GameTypes' /\ PeerTypes' /\ ArrayTypes' /\ StageTypes' /\ link' \in Seq(Line)
    BY <1>2, <2>1, TypesSame
  <2>3. CountTypes'
    BY <1>2, <1>3, <1>4, <2>1 DEF CountTypes, takenVars, HostAppend, HostDelete
  <2>4. LaneTypes'
    BY <1>2, <1>3, <1>4 DEF LaneTypes, HostAppend, HostDelete
  <2> QED BY <2>2, <2>3, <2>4, TypePartsNext
<1>5. ASSUME NEW r \in PeerRows, PeerEdit(r) PROVE TypeOK'
  <2>1. UNCHANGED <<laneVars, netVars, gameVars, arrayVars, stage, up, link, takenVars>>
    BY <1>5 DEF PeerEdit, joinerVars
  <2>2. LaneTypes' /\ NetTypes' /\ GameTypes' /\ ArrayTypes' /\ StageTypes' /\ link' \in Seq(Line)
    BY <1>2, <2>1, TypesSame
  <2>3. CountTypes'
    BY <1>2, <1>3, <1>5, <2>1 DEF CountTypes, takenVars, PeerEdit
  <2>4. (IF r \in has THEN <<Delete(r)>> ELSE Blob(r)) \in Seq(Line)
    BY EditLines
  <2>5. peerNet' \in Seq(Line)
    BY <1>2, <1>5, <2>4, JoinShape DEF PeerTypes, PeerEdit
  <2>6. has' \subseteq PeerRows
    BY <1>2, <1>5 DEF PeerTypes, PeerEdit
  <2> QED BY <2>2, <2>3, <2>5, <2>6, TypePartsNext DEF PeerTypes
<1>6. ASSUME NetReceivePeer PROVE TypeOK'
  <2>1. UNCHANGED <<laneVars, gameVars, arrayVars, stage, up, takenVars, edits, occ, eligible, has>>
    BY <1>6 DEF NetReceivePeer, joinerVars
  <2>2. LaneTypes' /\ GameTypes' /\ ArrayTypes' /\ StageTypes' /\ CountTypes'
    BY <1>2, <2>1, TypesSame
  <2>3. peerNet \in Seq(Line) /\ peerNet # <<>>
    BY <1>2, <1>6 DEF PeerTypes, NetReceivePeer
  <2>4. Head(peerNet) \in Line /\ Tail(peerNet) \in Seq(Line)
    BY <2>3, HeadJoins
  <2>5. [from |-> NoConn, op |-> "line", line |-> Head(peerNet)] \in Message
    BY <2>4, PeerMessage
  <2>6. inbox' \in Seq(Message)
    BY <1>2, <1>6, <2>5 DEF NetTypes, NetReceivePeer
  <2>7. link' \in Seq(Line) /\ peerNet' \in Seq(Line)
    BY <1>2, <1>6, <2>4 DEF NetReceivePeer
  <2> QED BY <1>2, <2>1, <2>2, <2>6, <2>7, TypePartsNext DEF NetTypes, PeerTypes
<1>7. ASSUME NetReceiveJoiner PROVE TypeOK'
  <2>1. UNCHANGED <<laneVars, gameVars, peerVars, arrayVars, stage, link, edits, occ, seats,
                    seeded, late>>
    BY <1>7 DEF NetReceiveJoiner
  <2>2. LaneTypes' /\ GameTypes' /\ PeerTypes' /\ ArrayTypes' /\ link' \in Seq(Line)
    BY <1>2, <2>1, TypesSame
  <2>3. up # <<>> /\ up' = Tail(up) /\ inbox' = Append(inbox, [from |-> occ, op |-> Head(up)])
    BY <1>7 DEF NetReceiveJoiner
  <2>4. Head(up) \in {"request", "ready"} /\ Tail(up) \in Seq({"request", "ready"})
    BY <1>2, <2>3, HeadJoins DEF StageTypes
  <2>5. occ \in Conns
    BY <1>1, <2>3, ConnTypes
  <2>6. [from |-> occ, op |-> Head(up)] \in Message
    BY <2>4, <2>5, JoinerMessage
  <2>7. inbox' \in Seq(Message) /\ eligible' \in {NoConn, occ'}
    BY <1>2, <1>7, <2>1, <2>3, <2>6 DEF NetTypes, NetReceiveJoiner
  <2>8. Straddling \subseteq Rows
    <3>1. peerNet # <<>> => Head(peerNet) \in Line
      BY <1>2, HeadJoins DEF PeerTypes
    <3> QED BY <3>1, Fields DEF Straddling
  <2>9. murky' \subseteq Rows
    BY <1>2, <1>7, <2>8 DEF CountTypes, NetReceiveJoiner
  <2>10. CountTypes'
    BY <1>2, <2>1, <2>9 DEF CountTypes
  <2> QED BY <1>2, <2>1, <2>2, <2>3, <2>4, <2>7, <2>10, TypePartsNext DEF NetTypes, StageTypes
<1>8. ASSUME Seat PROVE TypeOK'
  <2>1. UNCHANGED <<laneVars, eligible, inbox, gameVars, peerVars, up, arrayVars, link, edits,
                    seeded, murky>>
    BY <1>8 DEF Seat
  <2>2. LaneTypes' /\ GameTypes' /\ PeerTypes' /\ ArrayTypes' /\ link' \in Seq(Line)
    BY <1>2, <2>1, TypesSame
  <2>3. occ = NoConn /\ seats' = seats + 1 /\ occ' = seats + 1 /\ seats + 1 \in Conns
        /\ seats' \in 0..MaxSeats
    BY <1>2, <1>3, <1>8 DEF Seat, CountTypes, Conns
  <2>4. NetTypes'
    BY <1>2, <2>1, <2>3 DEF NetTypes
  <2>5. late' \in BOOLEAN /\ stage' = "menu"
    BY <1>8 DEF Seat
  <2>6. CountTypes' /\ StageTypes'
    BY <1>2, <2>1, <2>3, <2>5 DEF CountTypes, StageTypes
  <2> QED BY <2>2, <2>4, <2>6, TypePartsNext
<1>9. ASSUME Leave PROVE TypeOK'
  <2>1. UNCHANGED <<laneVars, gameVars, peerVars, edits, seats>>
    BY <1>9 DEF Leave
  <2>2. LaneTypes' /\ GameTypes' /\ PeerTypes'
    BY <1>2, <2>1, TypesSame
  <2>3. Others(inbox, occ) \in Seq({m \in Message : m.from # occ})
    BY <1>2, OthersFrom DEF NetTypes
  <2>4. inbox' \in Seq(Message) /\ occ' = NoConn /\ eligible' = NoConn
    BY <1>9, <2>3 DEF Leave, Close
  <2>5. ArrayTypes'
    <3>1. /\ jStore' = [r \in Rows |-> 0] /\ jLanded' = [r \in Rows |-> 0] /\ jTombs' = {}
          /\ jGot' = 0 /\ jPark' = <<>> /\ primed' = FALSE
      BY <1>9 DEF Leave, SetJoiner
    <3>2. [r \in Rows |-> 0] \in [Rows -> Nat] /\ <<>> \in Seq(Rows) /\ 0 \in 0..Parts
      BY <1>3
    <3> QED BY <3>1, <3>2 DEF ArrayTypes
  <2>6. link' \in Seq(Line) /\ stage' = "none" /\ up' = <<>>
    BY <1>9 DEF Leave
  <2>7. CountTypes'
    BY <1>2, <1>9, <2>1 DEF CountTypes, Leave
  <2> QED BY <2>2, <2>4, <2>5, <2>6, <2>7, TypePartsNext DEF NetTypes, StageTypes
<1>10. ASSUME Reconcile PROVE TypeOK'
  <2>1. UNCHANGED <<laneVars, netVars, peerVars, arrayVars, stage, up, link, edits, takenVars>>
    BY <1>10 DEF Reconcile, joinerVars
  <2>2. /\ LaneTypes' /\ NetTypes' /\ PeerTypes' /\ ArrayTypes' /\ StageTypes' /\ CountTypes'
        /\ link' \in Seq(Line)
    BY <1>2, <2>1, TypesSame
  <2>3. GameTypes'
    BY <1>2, <1>10, SnapFacts DEF GameTypes, NetTypes, Reconcile, DisconnectSlot
  <2> QED BY <2>2, <2>3, TypePartsNext
<1>11. ASSUME HostPoll PROVE TypeOK'
  <2>1. UNCHANGED <<netVars, gameVars, peerVars, arrayVars, stage, up, edits, takenVars, got>>
    BY <1>11 DEF HostPoll, joinerVars
  <2>2. NetTypes' /\ GameTypes' /\ PeerTypes' /\ ArrayTypes' /\ StageTypes' /\ CountTypes'
    BY <1>2, <2>1, TypesSame
  <2>3. LaneTypes'
    BY <1>1, <1>2, <1>11, <2>1, HostPollEffect DEF LaneTypes
  <2> DEFINE s == SetToSeq({Delete(r) : r \in gone}) \o SetToSeq({Row(r) : r \in fresh})
  <2>4. s \in Seq(Line)
    BY <1>1, PollLines
  <2>5. Send(s)
    BY <1>11 DEF HostPoll
  <2> HIDE DEF s
  <2>6. link' \in Seq(Line)
    BY <1>2, <2>4, <2>5, JoinShape DEF Send
  <2> QED BY <2>2, <2>3, <2>6, TypePartsNext
<1>12. ASSUME Pop PROVE TypeOK'
  <2>1. UNCHANGED <<laneVars, peerVars, arrayVars, stage, up, link, edits, takenVars, occ, eligible,
                    known, ready, snap, blob>>
    BY <1>12 DEF Pop, joinerVars
  <2>2. /\ LaneTypes' /\ PeerTypes' /\ ArrayTypes' /\ StageTypes' /\ CountTypes'
        /\ link' \in Seq(Line)
    BY <1>2, <2>1, TypesSame
  <2>3. inbox # <<>> /\ popped' = <<Head(inbox)>> /\ inbox' = Tail(inbox)
    BY <1>12 DEF Pop
  <2>4. Head(inbox) \in Message /\ Tail(inbox) \in Seq(Message)
    BY <1>1, <2>3, ConnTypes
  <2> QED BY <1>2, <2>1, <2>2, <2>3, <2>4, TypePartsNext DEF NetTypes, GameTypes
<1>13. ASSUME OnLine PROVE TypeOK'
  <2>1. UNCHANGED <<netVars, known, ready, snap, blob, peerVars, arrayVars, stage, up, link, edits,
                    takenVars>>
    BY <1>13 DEF OnLine, joinerVars
  <2>2. /\ NetTypes' /\ PeerTypes' /\ ArrayTypes' /\ StageTypes' /\ CountTypes'
        /\ link' \in Seq(Line)
    BY <1>2, <2>1, TypesSame
  <2>3. popped' = <<>> /\ LaneTypes'
    BY <1>2, <1>13, OnLineEffect DEF LaneTypes
  <2>4. GameTypes'
    BY <1>2, <2>1, <2>3 DEF GameTypes
  <2> QED BY <2>2, <2>3, <2>4, TypePartsNext
<1>14. ASSUME OnRequest PROVE TypeOK'
  <2>1. UNCHANGED <<laneVars, netVars, known, ready, peerVars, arrayVars, stage, up, link, edits,
                    takenVars>>
    BY <1>14 DEF OnRequest, joinerVars
  <2>2. /\ LaneTypes' /\ NetTypes' /\ PeerTypes' /\ ArrayTypes' /\ StageTypes' /\ CountTypes'
        /\ link' \in Seq(Line)
    BY <1>2, <2>1, TypesSame
  <2>3. popped' = <<>> /\ snap' \in Snapshots /\ blob' \in Snapshots
    <3>1. \A n \in [Rows -> 0..1] : Photo(n) \in Snapshots
      BY DEF Photo, Snapshots
    <3>2. \A S : Each(S) \in [Rows -> 0..1]
      BY DEF Each
    <3> QED BY <1>2, <1>14, <3>1, <3>2, SnapFacts
            DEF OnRequest, Dispatch, Captured, Fallback, LaneTypes, GameTypes
  <2>4. GameTypes'
    BY <1>2, <2>1, <2>3 DEF GameTypes
  <2> QED BY <2>2, <2>4, TypePartsNext
<1>15. ASSUME OnReady PROVE TypeOK'
  <2>1. UNCHANGED <<laneVars, netVars, known, blob, peerVars, arrayVars, stage, up, edits, seats, late>>
    BY <1>15 DEF OnReady, joinerVars
  <2>2. LaneTypes' /\ NetTypes' /\ PeerTypes' /\ ArrayTypes' /\ StageTypes'
    BY <1>2, <2>1, TypesSame
  <2>3. popped' = <<>> /\ snap' = NoSnap /\ ready' = TRUE
    BY <1>15 DEF OnReady, Dispatch
  <2>4. GameTypes'
    BY <1>2, <2>1, <2>3, SnapFacts DEF GameTypes
  <2>5. seeded' \in BOOLEAN
    BY <1>2, <1>15, SnapFacts DEF OnReady, GameTypes
  <2>6. CountTypes'
    BY <1>2, <1>3, <1>15, <2>1, <2>5 DEF CountTypes, OnReady, LaneTypes
  <2>7. link' \in Seq(Line)
    <3>1. snap.valid => Seed \in Seq(Line)
      BY <1>1, SeedLines
    <3> QED BY <1>2, <1>15, <3>1, JoinShape DEF OnReady
  <2> QED BY <2>2, <2>4, <2>6, <2>7, TypePartsNext
<1>16. ASSUME JRequest \/ JAnnounce PROVE TypeOK'
  <2>1. UNCHANGED <<laneVars, netVars, gameVars, peerVars, arrayVars, link, edits, takenVars>>
    BY <1>16 DEF JRequest, JAnnounce
  <2>2. /\ LaneTypes' /\ NetTypes' /\ GameTypes' /\ PeerTypes' /\ ArrayTypes' /\ CountTypes'
        /\ link' \in Seq(Line)
    BY <1>2, <2>1, TypesSame
  <2>3. StageTypes'
    BY <1>2, <1>16 DEF StageTypes, JRequest, JAnnounce
  <2> QED BY <2>2, <2>3, TypePartsNext
<1>17. ASSUME JLoad PROVE TypeOK'
  <2>1. UNCHANGED <<laneVars, netVars, popped, known, ready, snap, peerVars, up, jLanded, jTombs,
                    jGot, jPark, primed, link, edits, takenVars>>
    BY <1>17 DEF JLoad
  <2>2. LaneTypes' /\ NetTypes' /\ PeerTypes' /\ CountTypes' /\ link' \in Seq(Line)
    BY <1>2, <2>1, TypesSame
  <2>3. GameTypes' /\ StageTypes'
    BY <1>2, <1>17, <2>1, SnapFacts DEF GameTypes, StageTypes, JLoad
  <2>4. blob.valid /\ jStore' = blob.n
    BY <1>17 DEF JLoad
  <2>5. jStore' \in [Rows -> 0..1]
    BY <1>2, <2>4, SnapFacts DEF GameTypes
  <2>6. ArrayTypes'
    <3>1. jStore' \in [Rows -> Nat]
      BY <2>5
    <3> QED BY <1>2, <2>1, <3>1 DEF ArrayTypes
  <2> QED BY <2>2, <2>3, <2>6, TypePartsNext
<1>18. ASSUME JReceive PROVE TypeOK'
  <2>1. UNCHANGED <<laneVars, netVars, gameVars, peerVars, stage, up, edits, seats, seeded, late>>
    BY <1>18 DEF JReceive
  <2>2. LaneTypes' /\ NetTypes' /\ GameTypes' /\ PeerTypes' /\ StageTypes'
    BY <1>2, <2>1, TypesSame
  <2>3. ArrayTypes' /\ murky' \subseteq Rows /\ link # <<>> /\ link' = Tail(link)
    BY <1>1, <1>18, JReceiveEffect
  <2>4. CountTypes'
    BY <1>2, <2>1, <2>3 DEF CountTypes
  <2>5. link' \in Seq(Line)
    BY <1>2, <2>3, HeadJoins
  <2> QED BY <2>2, <2>3, <2>4, <2>5, TypePartsNext
<1>19. ASSUME JDrain \/ JPoll PROVE TypeOK'
  <2>1. UNCHANGED <<laneVars, netVars, gameVars, peerVars, stage, up, link, edits, takenVars>>
    BY <1>19 DEF JDrain, JPoll
  <2>2. /\ LaneTypes' /\ NetTypes' /\ GameTypes' /\ PeerTypes' /\ StageTypes' /\ CountTypes'
        /\ link' \in Seq(Line)
    BY <1>2, <2>1, TypesSame
  <2>3. ArrayTypes'
    BY <1>1, <1>19, JSettleEffect
  <2> QED BY <2>2, <2>3, TypePartsNext
<1> QED BY <1>4, <1>5, <1>6, <1>7, <1>8, <1>9, <1>10, <1>11, <1>12, <1>13, <1>14, <1>15, <1>16,
           <1>17, <1>18, <1>19 DEF Next

-----------------------------------------------------------------------------
(* The rows of the host and of the other peer.                             *)

\* Where a message that is no line changes nothing.
Idle(R, S) ==
  /\ S \subseteq Int
  /\ \A v, line, w : <<v, line, w>> \in R => v \in S /\ w \in S
  /\ \A v \in S : <<v, NoLine, v>> \in R
  /\ \A v, w : <<v, NoLine, w>> \in R => w = v

\* A row toggled by its lines, and parts taken in turn, are two such runs.
LEMMA IdleCases ==
  Idle(Turns({}), Int) /\ \A r : Idle(Bits(r), 0..1)
<1>1. NoLine.op = "none" /\ NoLine \in AnyLine
  BY Fields
<1>2. Idle(Turns({}), Int)
  BY <1>1, TurnsDef DEF Idle, After
<1>3. ASSUME NEW r PROVE Idle(Bits(r), 0..1)
  <2>1. Worth(NoLine, r) = 0
    BY <1>1, WorthType
  <2> QED BY <1>1, <2>1, BitsDef DEF Idle
<1> QED BY <1>2, <1>3

\* What becomes of a path when a message is queued or popped, or a sender's are dropped.
LEMMA PathMade ==
  ASSUME NEW R, NEW S, NEW k \in S, k \in Int, NEW q, NEW m, Runs(R, k, LinesIn(q), m)
  PROVE  Path(R, S, k, <<>>, q, m)
<1>1. Runs(R, k, LinesIn(<<>>), k)
  BY RunsNone, LinesInFew
<1> QED BY <1>1 DEF Path

LEMMA PathAppend ==
  ASSUME NEW R, NEW S, NEW a, NEW p, NEW q \in Seq(Message), NEW m \in Int, NEW n \in Int,
         NEW msg \in Message, Path(R, S, a, p, q, m), <<m, LineOf(msg), n>> \in R
  PROVE  Path(R, S, a, p, Append(q, msg), n)
<1>1. PICK k \in S : Runs(R, a, LinesIn(p), k) /\ Runs(R, k, LinesIn(q), m)
  BY DEF Path
<1>2. Runs(R, m, <<LineOf(msg)>>, n)
  BY RunsOne
<1>3. LinesIn(q) \in Seq(AnyLine) /\ LineOf(msg) \in AnyLine
  BY LinesInShape, MessageFields
<1>4. LinesIn(Append(q, msg)) = LinesIn(q) \o <<LineOf(msg)>> /\ <<LineOf(msg)>> \in Seq(AnyLine)
  BY <1>3, LinesInAppend, AppendJoins
<1>5. Runs(R, k, LinesIn(q) \o <<LineOf(msg)>>, n)
  BY <1>1, <1>2, <1>3, <1>4, RunsChain
<1> QED BY <1>1, <1>4, <1>5 DEF Path

LEMMA PathPop ==
  ASSUME NEW R, NEW S, Idle(R, S), NEW a, NEW q \in Seq(Message), q # <<>>, NEW m,
         Path(R, S, a, <<>>, q, m)
  PROVE  Path(R, S, a, <<q[1]>>, Tail(q), m)
<1>1. PICK k \in S : Runs(R, a, <<>>, k) /\ Runs(R, k, LinesIn(q), m)
  BY LinesInFew DEF Path
<1>2. a \in Int /\ k = a
  <2>1. a \in Int
    BY <1>1, EmptyJoins, RunsEnds
  <2> QED BY <1>1, <2>1, RunsNone
<1>3. q = <<q[1]>> \o Tail(q) /\ q[1] \in Message /\ <<q[1]>> \in Seq(Message)
      /\ Tail(q) \in Seq(Message)
  BY HeadJoins
<1> DEFINE line == LineOf(q[1])
           rest == LinesIn(Tail(q))
<1>4. LinesIn(<<q[1]>>) = <<line>> /\ line \in AnyLine /\ rest \in Seq(AnyLine)
  BY <1>3, LinesInFew, LinesInShape, MessageFields
<1>5. LinesIn(q) = <<line>> \o rest
  BY <1>3, <1>4, LinesInJoin
<1> HIDE DEF line, rest
<1>6. <<line>> \in Seq(AnyLine) /\ <<line>> # <<>> /\ <<line>>[1] = line /\ Tail(<<line>>) = <<>>
  BY <1>4
<1>7. <<line>> \o rest \in Seq(AnyLine) /\ <<line>> \o rest # <<>> /\ (<<line>> \o rest)[1] = line
      /\ Tail(<<line>> \o rest) = <<>> \o rest
  BY <1>4, <1>6, JoinShape, HeadOfJoin
<1>8. <<>> \o rest = rest
  BY <1>4, EmptyJoins
<1>9. PICK c \in Int : <<k, line, c>> \in R /\ Runs(R, c, rest, m)
  BY <1>1, <1>5, <1>7, <1>8, RunsTail
<1>10. c \in S
  BY <1>9 DEF Idle
<1>11. Runs(R, a, <<line>>, c)
  BY <1>2, <1>9, RunsOne
<1> QED BY <1>4, <1>9, <1>10, <1>11 DEF Path, line, rest

LEMMA PathDrop ==
  ASSUME NEW R, NEW S, Idle(R, S), NEW a \in Int, NEW msg \in Message, msg.from # NoConn,
         NEW q, NEW m, Path(R, S, a, <<msg>>, q, m)
  PROVE  Path(R, S, a, <<>>, q, m)
<1>1. LinesIn(<<msg>>) = <<NoLine>>
  BY LinesInFew, MessageFields
<1>2. PICK k \in S : Runs(R, a, <<NoLine>>, k) /\ Runs(R, k, LinesIn(q), m)
  BY <1>1 DEF Path
<1>3. k \in Int
  BY DEF Idle
<1>4. <<a, NoLine, k>> \in R
  BY <1>2, <1>3, RunsOne
<1>5. k = a
  BY <1>4 DEF Idle
<1> QED BY <1>2, <1>5, PathMade

LEMMA PathOthers ==
  ASSUME NEW R, NEW S, Idle(R, S), NEW a, NEW p, NEW q \in Seq(Message), NEW m,
         NEW o \in Conns, Path(R, S, a, p, q, m)
  PROVE  Path(R, S, a, p, Others(q, o), m)
<1>1. PICK k \in S : Runs(R, a, LinesIn(p), k) /\ Runs(R, k, LinesIn(q), m)
  BY DEF Path
<1>2. \A v, w : <<v, NoLine, w>> \in R => w = v
  BY DEF Idle
<1>3. Runs(R, k, LinesIn(Others(q, o)), m)
  BY <1>1, <1>2, OthersRun
<1> QED BY <1>1, <1>3 DEF Path

\* Each action keeps HostRowsInv.
LEMMA HostRowsNext ==
  ASSUME SafeInv, Next
  PROVE  HostRowsInv'
<1>1. TypeOK /\ HostRowsInv
  BY DEF SafeInv
<1>2. store \in [Rows -> 0..1] /\ HostRows \subseteq Rows
  BY <1>1 DEF TypeOK, Rows
<1>3. ASSUME NEW r \in HostRows, HostAppend(r) \/ HostDelete(r) PROVE HostRowsInv'
  <2>1. CASE HostAppend(r)
    BY <1>1, <1>2, <2>1 DEF HostAppend, HostRowsInv
  <2>2. CASE HostDelete(r)
    BY <1>1, <1>2, <2>2 DEF HostDelete, HostRowsInv
  <2> QED BY <1>3, <2>1, <2>2
<1>4. ASSUME HostPoll PROVE HostRowsInv'
  BY <1>1, <1>2, <1>4, HostPollEffect DEF HostRowsInv
<1>5. ASSUME OnLine PROVE HostRowsInv'
  BY <1>1, <1>5, OnLineEffect DEF HostRowsInv
<1>6. ASSUME UNCHANGED laneVars PROVE HostRowsInv'
  BY <1>1, <1>6 DEF HostRowsInv, laneVars
<1>7. \/ \E r \in HostRows : HostAppend(r) \/ HostDelete(r)
      \/ HostPoll \/ OnLine \/ UNCHANGED laneVars
  BY DEF Next, PeerEdit, NetReceivePeer, NetReceiveJoiner, Seat, Leave, Reconcile, Pop, OnRequest,
         OnReady, JRequest, JLoad, JAnnounce, JReceive, JDrain, JPoll
<1> QED BY <1>3, <1>4, <1>5, <1>6, <1>7

\* The steps that take no line from the other peer or to the lane.
Elsewhere == Next /\ ~(\E r \in PeerRows : PeerEdit(r)) /\ ~NetReceivePeer /\ ~OnLine

\* A pop moves a line from the inbox to the hands and a teardown takes none away.
LEMMA QueueMoves ==
  ASSUME SafeInv, Elsewhere,
         NEW R, NEW S, Idle(R, S), NEW a \in Int, NEW m \in S, Path(R, S, a, popped, inbox, m)
  PROVE  Path(R, S, a, popped', inbox', m)
<1>1. TypeOK /\ ControlInv
  BY DEF SafeInv
<1>2. inbox \in Seq(Message) /\ popped \in Seq(Message)
  BY <1>1, TypeFacts
<1>3. CASE UNCHANGED <<popped, inbox>>
  BY <1>3
<1>4. CASE NetReceiveJoiner
  <2>1. up # <<>> /\ UNCHANGED popped
        /\ inbox' = Append(inbox, [from |-> occ, op |-> Head(up)])
    BY <1>4 DEF NetReceiveJoiner, gameVars
  <2>2. Head(up) \in {"request", "ready"} /\ occ \in Conns
    <3>1. up \in Seq({"request", "ready"})
      BY <1>1 DEF TypeOK
    <3> QED BY <1>1, <2>1, <3>1, ConnTypes
  <2>3. [from |-> occ, op |-> Head(up)] \in Message
        /\ LineOf([from |-> occ, op |-> Head(up)]) = NoLine
    BY <2>2, JoinerMessage
  <2>4. <<m, NoLine, m>> \in R /\ m \in Int
    BY DEF Idle
  <2>5. Path(R, S, a, popped, Append(inbox, [from |-> occ, op |-> Head(up)]), m)
    BY <1>2, <2>3, <2>4, PathAppend
  <2> QED BY <2>1, <2>5
<1>5. CASE Leave
  <2>1. UNCHANGED popped /\ occ # NoConn /\ inbox' = Others(inbox, occ)
    BY <1>5 DEF Leave, Close, gameVars
  <2>2. occ \in Conns
    BY <1>1, <2>1, ConnTypes
  <2>3. Path(R, S, a, popped, Others(inbox, occ), m)
    BY <1>2, <2>2, PathOthers
  <2> QED BY <2>1, <2>3
<1>6. CASE Pop
  <2>1. popped = <<>> /\ inbox # <<>> /\ popped' = <<Head(inbox)>> /\ inbox' = Tail(inbox)
    BY <1>6 DEF Pop
  <2>2. Head(inbox) = inbox[1]
    BY <1>2, <2>1, HeadJoins
  <2>3. Path(R, S, a, <<inbox[1]>>, Tail(inbox), m)
    BY <1>2, <2>1, PathPop
  <2> QED BY <2>1, <2>2, <2>3
<1>7. CASE OnRequest \/ OnReady
  <2>1. popped # <<>> /\ popped[1].op # "line" /\ popped' = <<>> /\ UNCHANGED inbox
    BY <1>7 DEF OnRequest, OnReady, Dispatch, netVars
  <2>2. popped = <<popped[1]>> /\ popped[1] \in Message
    BY <1>1, <2>1, ConnTypes
  <2>3. popped[1].from # NoConn
    BY <2>1, <2>2, MessageFields
  <2>4. Path(R, S, a, <<popped[1]>>, inbox, m)
    BY <2>2
  <2>5. Path(R, S, a, <<>>, inbox, m)
    BY <2>2, <2>3, <2>4, PathDrop
  <2> QED BY <2>1, <2>5
<1>8. \/ NetReceiveJoiner \/ Leave \/ Pop \/ OnRequest \/ OnReady
      \/ UNCHANGED <<popped, inbox>>
  BY DEF Elsewhere, Next, HostAppend, HostDelete, Seat, Reconcile, HostPoll, JRequest, JLoad, JAnnounce,
         JReceive, JDrain, JPoll, netVars, gameVars
<1> QED BY <1>3, <1>4, <1>5, <1>6, <1>7, <1>8

\* Steps that leave the host's copies of the other peer's rows alone.
LEMMA LaneStill ==
  ASSUME SafeInv, Elsewhere
  PROVE  /\ UNCHANGED <<peerVars, got>>
         /\ \A r \in PeerRows : Held(r)' = Held(r) /\ landed'[r] <= store'[r]
<1>1. TypeOK /\ \A r \in PeerRows : landed[r] <= store[r]
  BY DEF SafeInv, PeerRowsInv
<1>2. store \in [Rows -> 0..1] /\ Rows = HostRows \cup PeerRows /\ HostRows \cap PeerRows = {}
  BY <1>1, RowsAssumption DEF TypeOK, Rows
<1>3. ASSUME NEW q \in HostRows, HostAppend(q) \/ HostDelete(q), NEW r \in PeerRows
      PROVE  Held(r)' = Held(r) /\ landed'[r] <= store'[r]
  <2>1. store'[r] = store[r] /\ UNCHANGED <<tombs, landed>>
    BY <1>2, <1>3 DEF HostAppend, HostDelete
  <2>2. Held(r)' = Held(r)
    BY <2>1, HeldIs
  <2> QED BY <1>1, <2>1, <2>2
<1>4. ASSUME HostPoll, NEW r \in PeerRows PROVE Held(r)' = Held(r) /\ landed'[r] <= store'[r]
  BY <1>1, <1>2, <1>4, HostPollEffect
<1>5. ASSUME UNCHANGED laneVars, NEW r \in PeerRows
      PROVE  Held(r)' = Held(r) /\ landed'[r] <= store'[r]
  <2>1. UNCHANGED <<store, landed, tombs>>
    BY <1>5 DEF laneVars
  <2>2. Held(r)' = Held(r)
    BY <2>1, HeldIs
  <2> QED BY <1>1, <2>1, <2>2
<1>6. \/ \E q \in HostRows : HostAppend(q) \/ HostDelete(q)
      \/ HostPoll \/ UNCHANGED laneVars
  BY DEF Elsewhere, Next, NetReceiveJoiner, Seat, Leave, Reconcile, Pop, OnRequest,
         OnReady, JRequest, JLoad, JAnnounce, JReceive, JDrain, JPoll
<1>7. UNCHANGED <<peerVars, got>>
  BY DEF Elsewhere, Next, HostAppend, HostDelete, NetReceiveJoiner, Seat, Leave, Reconcile, HostPoll,
         Pop, OnRequest, OnReady, JRequest, JLoad, JAnnounce, JReceive, JDrain, JPoll, laneVars
<1> QED BY <1>3, <1>4, <1>5, <1>6, <1>7

\* What a line's receipt does to the two invariants of the other peer's lines.
LEMMA ReceiptMoves ==
  ASSUME SafeInv, NetReceivePeer
  PROVE  LET line == peerNet[1]
             msg == [from |-> NoConn, op |-> "line", line |-> line]
         IN /\ peerNet # <<>> /\ line \in Line /\ line.row \in PeerRows
            /\ line.op \in {"part", "delete"} /\ line \in AnyLine
            /\ peerNet' = Tail(peerNet) /\ peerNet \in Seq(Line) /\ peerNet' \in Seq(Line)
            /\ inbox' = Append(inbox, msg) /\ msg \in Message /\ LineOf(msg) = line
            /\ msg \in FromPeer
            /\ Blobs(peerNet') /\ <<Before(peerNet), line, Before(peerNet')>> \in Turns({})
            /\ Head(peerNet) = line
<1>1. TypeOK /\ Blobs(peerNet)
  BY DEF SafeInv, StreamInv
<1>2. peerNet \in Seq(Line) /\ peerNet # <<>>
  BY <1>1, TypeFacts DEF NetReceivePeer
<1> DEFINE line == peerNet[1]
           msg == [from |-> NoConn, op |-> "line", line |-> line]
<1>3. Head(peerNet) = line /\ line \in Line /\ Tail(peerNet) \in Seq(Line)
  BY <1>2, HeadJoins
<1>4. /\ Blobs(Tail(peerNet)) /\ line.op \in {"part", "delete"} /\ line.row \in PeerRows
      /\ line.op = "part" => InTurn(Before(peerNet), line)
      /\ After(Before(peerNet), line) = Before(Tail(peerNet)) /\ Before(peerNet) \in Int
  BY <1>1, <1>2, BlobsHead
<1>5. Before(Tail(peerNet)) \in Int
  <2>1. Tail(peerNet) # <<>> => Before(Tail(peerNet)) \in Int
    BY <1>3, <1>4, BlobsHead
  <2> QED BY <2>1 DEF Before
<1>6. line \in AnyLine
  BY <1>3 DEF AnyLine
<1>7. <<Before(peerNet), line, Before(Tail(peerNet))>> \in Turns({})
  BY <1>4, <1>5, <1>6, TurnsDef
<1>8. msg \in Message /\ LineOf(msg) = line
  BY <1>3, PeerMessage
<1>9. msg.from = NoConn /\ msg.line = line
  OBVIOUS
<1>10. msg \in FromPeer
  BY <1>4, <1>8, <1>9 DEF FromPeer
<1>11. peerNet' = Tail(peerNet) /\ inbox' = Append(inbox, msg)
  BY <1>3 DEF NetReceivePeer
<1> QED BY <1>2, <1>3, <1>4, <1>6, <1>7, <1>8, <1>10, <1>11

\* Each action keeps PeerRowsInv.
LEMMA PeerRowsNext ==
  ASSUME SafeInv, Next
  PROVE  PeerRowsInv'
<1>1. TypeOK /\ PeerRowsInv
  BY DEF SafeInv
<1>2. /\ inbox \in Seq(Message) /\ peerNet \in Seq(Line) /\ PeerRows \subseteq Rows
      /\ Seq(Line) \subseteq Seq(AnyLine) /\ \A r \in PeerRows : Held(r) \in Int
  BY <1>1, TypeFacts, HeldInt DEF Rows, AnyLine
<1>3. ASSUME NEW r \in PeerRows
      PROVE  \E m \in 0..1 : /\ Path(Bits(r), 0..1, Held(r), popped, inbox, m)
                             /\ Runs(Bits(r), m, peerNet, Bit(r \in has))
  BY <1>1 DEF PeerRowsInv
<1> DEFINE Goal(r) ==
      /\ landed'[r] <= store'[r]
      /\ \E m \in 0..1 : /\ Path(Bits(r), 0..1, Held(r)', popped', inbox', m)
                         /\ Runs(Bits(r), m, peerNet', Bit(r \in has'))
<1>4. ASSUME Elsewhere, NEW r \in PeerRows PROVE Goal(r)
  <2>1. PICK m \in 0..1 : /\ Path(Bits(r), 0..1, Held(r), popped, inbox, m)
                          /\ Runs(Bits(r), m, peerNet, Bit(r \in has))
    BY <1>3
  <2>2. Idle(Bits(r), 0..1)
    BY IdleCases
  <2>3. Path(Bits(r), 0..1, Held(r), popped', inbox', m)
    BY <1>2, <1>4, <2>1, <2>2, QueueMoves
  <2>4. UNCHANGED <<peerNet, has>> /\ Held(r)' = Held(r) /\ landed'[r] <= store'[r]
    BY <1>4, LaneStill DEF peerVars
  <2> QED BY <2>1, <2>3, <2>4
<1>5. ASSUME NEW q \in PeerRows, PeerEdit(q), NEW r \in PeerRows PROVE Goal(r)
  <2>1. PICK m \in 0..1 : /\ Path(Bits(r), 0..1, Held(r), popped, inbox, m)
                          /\ Runs(Bits(r), m, peerNet, Bit(r \in has))
    BY <1>3
  <2> DEFINE held == q \in has
             t == IF held THEN <<Delete(q)>> ELSE Blob(q)
  <2>2. /\ UNCHANGED <<store, landed, tombs, popped, inbox>> /\ peerNet' = peerNet \o t
        /\ has' = IF held THEN has \ {q} ELSE has \cup {q}
    BY <1>5 DEF PeerEdit, laneVars, netVars, gameVars
  <2>3. Bit(r \in has) \in 0..1 /\ r \in Rows /\ held \in BOOLEAN
        /\ (r = q => Bit(r \in has) = Bit(held))
    BY <1>2 DEF Bit
  <2>4. t \in Seq(Line)
        /\ Runs(Bits(r), Bit(r \in has), t, IF r = q THEN 1 - Bit(r \in has) ELSE Bit(r \in has))
    <3> HIDE DEF held
    <3> QED BY <2>3, EditLines
  <2>5. Bit(r \in has') = IF r = q THEN 1 - Bit(r \in has) ELSE Bit(r \in has)
    BY <2>2 DEF Bit
  <2> HIDE DEF t, held
  <2>6. Runs(Bits(r), m, peerNet \o t, Bit(r \in has'))
    BY <1>2, <2>1, <2>4, <2>5, RunsChain
  <2>7. Held(r)' = Held(r) /\ landed'[r] <= store'[r]
    BY <1>1, <2>2, HeldIs DEF PeerRowsInv
  <2> QED BY <2>1, <2>2, <2>6, <2>7
<1>6. ASSUME NetReceivePeer, NEW r \in PeerRows PROVE Goal(r)
  <2>1. PICK m \in 0..1 : /\ Path(Bits(r), 0..1, Held(r), popped, inbox, m)
                          /\ Runs(Bits(r), m, peerNet, Bit(r \in has))
    BY <1>3
  <2> DEFINE line == peerNet[1]
             msg == [from |-> NoConn, op |-> "line", line |-> line]
  <2>2. /\ peerNet # <<>> /\ peerNet' = Tail(peerNet) /\ inbox' = Append(inbox, msg)
        /\ msg \in Message /\ LineOf(msg) = line
    BY <1>6, ReceiptMoves
  <2> HIDE DEF line, msg
  <2>3. PICK c \in Int : <<m, line, c>> \in Bits(r) /\ Runs(Bits(r), c, Tail(peerNet), Bit(r \in has))
    BY <1>2, <2>1, <2>2, RunsTail DEF line
  <2>4. c \in 0..1
    BY <2>3, BitsDef
  <2>5. Path(Bits(r), 0..1, Held(r), popped, Append(inbox, msg), c)
    BY <1>2, <2>1, <2>2, <2>3, PathAppend
  <2>6. UNCHANGED <<store, landed, tombs, popped, has>>
    BY <1>6 DEF NetReceivePeer, laneVars, gameVars
  <2>7. Held(r)' = Held(r) /\ landed'[r] <= store'[r]
    BY <1>1, <2>6, HeldIs DEF PeerRowsInv
  <2> QED BY <2>2, <2>3, <2>4, <2>5, <2>6, <2>7
<1>7. ASSUME OnLine, NEW r \in PeerRows PROVE Goal(r)
  <2> DEFINE line == popped[1].line
  <2>1. /\ popped # <<>> /\ popped[1].op = "line" /\ popped' = <<>>
        /\ landed'[r] <= store'[r] /\ Held(r)' = Held(r) + Worth(line, r)
    BY <1>2, <1>7, OnLineEffect
  <2>2. /\ Held(r) + Worth(line, r) \in 0..1
        /\ \E m \in 0..1 : /\ Runs(Bits(r), Held(r) + Worth(line, r), LinesIn(inbox), m)
                           /\ Runs(Bits(r), m, peerNet, Bit(r \in has))
    BY <2>1, LineDelivered
  <2> HIDE DEF line
  <2>3. PICK m \in 0..1 : /\ Runs(Bits(r), Held(r)', LinesIn(inbox), m)
                          /\ Runs(Bits(r), m, peerNet, Bit(r \in has))
    BY <2>1, <2>2
  <2>4. Held(r)' \in 0..1 /\ Held(r)' \in Int
    BY <2>1, <2>2
  <2>5. Path(Bits(r), 0..1, Held(r)', <<>>, inbox, m)
    BY <2>3, <2>4, PathMade
  <2>6. UNCHANGED <<inbox, peerNet, has>>
    BY <1>7 DEF OnLine, netVars, peerVars
  <2> QED BY <2>1, <2>3, <2>5, <2>6
<1>8. \/ Elsewhere \/ \E q \in PeerRows : PeerEdit(q)
      \/ NetReceivePeer \/ OnLine
  BY DEF Elsewhere
<1>9. \A r \in PeerRows : Goal(r)
  BY <1>4, <1>5, <1>6, <1>7, <1>8
<1> QED BY <1>9 DEF PeerRowsInv

\* Each action keeps StreamInv.
LEMMA StreamNext ==
  ASSUME SafeInv, Next
  PROVE  StreamInv'
<1>1. TypeOK /\ Blobs(peerNet) /\ Path(Turns({}), Int, got, popped, inbox, Before(peerNet))
  BY DEF SafeInv, StreamInv
<1>2. /\ inbox \in Seq(Message) /\ peerNet \in Seq(Line) /\ got \in Int
      /\ Idle(Turns({}), Int)
  <2>1. got \in 0..Parts /\ Parts \in Nat
    BY <1>1, Fields DEF TypeOK
  <2> QED BY <1>1, <2>1, TypeFacts, IdleCases
<1>3. Before(peerNet) \in Int
  <2>1. peerNet # <<>> => Before(peerNet) \in Int
    BY <1>1, <1>2, BlobsHead
  <2> QED BY <2>1 DEF Before
<1> DEFINE Goal == Blobs(peerNet') /\ Path(Turns({}), Int, got', popped', inbox', Before(peerNet'))
<1>4. ASSUME Elsewhere PROVE Goal
  <2>1. Path(Turns({}), Int, got, popped', inbox', Before(peerNet))
    BY <1>1, <1>2, <1>3, <1>4, QueueMoves
  <2>2. UNCHANGED <<peerNet, got>>
    BY <1>4, LaneStill DEF peerVars
  <2> QED BY <1>1, <2>1, <2>2
<1>5. ASSUME NEW q \in PeerRows, PeerEdit(q) PROVE Goal
  <2> DEFINE held == q \in has
             t == IF held THEN <<Delete(q)>> ELSE Blob(q)
  <2>1. UNCHANGED <<got, popped, inbox>> /\ peerNet' = peerNet \o t
    BY <1>5 DEF PeerEdit, laneVars, netVars, gameVars
  <2>2. t \in Seq(Line) /\ t # <<>> /\ Blobs(t) /\ t[1].part = 1
    <3>1. held \in BOOLEAN
      OBVIOUS
    <3> HIDE DEF held
    <3> QED BY <3>1, EditLines
  <2> HIDE DEF t, held
  <2>3. Blobs(peerNet \o t) /\ Before(peerNet \o t) = Before(peerNet)
    BY <1>1, <1>2, <2>2, BlobsJoin
  <2> QED BY <1>1, <2>1, <2>3
<1>6. ASSUME NetReceivePeer PROVE Goal
  <2> DEFINE line == peerNet[1]
             msg == [from |-> NoConn, op |-> "line", line |-> line]
  <2>1. /\ inbox' = Append(inbox, msg) /\ msg \in Message /\ LineOf(msg) = line
        /\ Blobs(peerNet') /\ <<Before(peerNet), line, Before(peerNet')>> \in Turns({})
    BY <1>6, ReceiptMoves
  <2> HIDE DEF line, msg
  <2>2. Before(peerNet') \in Int
    BY <2>1, TurnsDef
  <2>3. Path(Turns({}), Int, got, popped, Append(inbox, msg), Before(peerNet'))
    BY <1>1, <1>2, <1>3, <2>1, <2>2, PathAppend
  <2>4. UNCHANGED <<got, popped>>
    BY <1>6 DEF NetReceivePeer, laneVars, gameVars
  <2> QED BY <2>1, <2>3, <2>4
<1>7. ASSUME OnLine PROVE Goal
  <2> DEFINE line == popped[1].line
  <2>1. /\ popped # <<>> /\ popped[1].op = "line" /\ popped' = <<>>
        /\ got' = After(got, line) /\ got' \in 0..Parts
    BY <1>7, OnLineEffect
  <2>2. Runs(Turns({}), After(got, line), LinesIn(inbox), Before(peerNet))
    BY <2>1, LineDelivered
  <2> HIDE DEF line
  <2>3. got' \in Int
    BY <2>1, Fields
  <2>4. Path(Turns({}), Int, got', <<>>, inbox, Before(peerNet))
    BY <2>1, <2>2, <2>3, PathMade
  <2>5. UNCHANGED <<inbox, peerNet>>
    BY <1>7 DEF OnLine, netVars, peerVars
  <2> QED BY <1>1, <2>1, <2>4, <2>5
<1>8. \/ Elsewhere \/ \E q \in PeerRows : PeerEdit(q)
      \/ NetReceivePeer \/ OnLine
  BY DEF Elsewhere
<1>9. Goal
  BY <1>4, <1>5, <1>6, <1>7, <1>8
<1> QED BY <1>9 DEF StreamInv

\* The senders of what is queued and popped.
LEMMA SeqMore ==
  ASSUME NEW S, NEW T, S \subseteq T, NEW s \in Seq(S)
  PROVE  s \in Seq(T)
OBVIOUS

LEMMA Senders ==
  /\ FromJoiner({NoConn}) = {}
  /\ \A o \in Conns \cup {NoConn} : FromJoiner({o}) \subseteq FromJoiner(Conns)
  /\ FromPeer \subseteq Message /\ \A C : FromJoiner(C) \subseteq Message
  /\ \A o \in Conns : \A op \in {"request", "ready"} : [from |-> o, op |-> op] \in FromJoiner({o})
  /\ \A o : \A m \in FromPeer \cup FromJoiner({o}) : m.from # o => m \in FromPeer
  /\ \A m \in FromPeer : m.from = NoConn /\ m.op = "line" /\ m.line \in Line /\ LineOf(m) = m.line
<1>1. \A m \in FromPeer : m.from = NoConn /\ m.op = "line" /\ m.line \in Line /\ LineOf(m) = m.line
  BY MessageFields DEF FromPeer
<1>2. ASSUME NEW o \in Conns, NEW op \in {"request", "ready"}
      PROVE  [from |-> o, op |-> op] \in FromJoiner({o})
  <2>1. o # NoConn
    BY DEF Conns, NoConn
  <2> QED BY <2>1, JoinerMessage DEF FromJoiner
<1>3. \A o : \A m \in FromPeer \cup FromJoiner({o}) : m.from # o => m \in FromPeer
  BY DEF FromJoiner
<1>4. FromJoiner({NoConn}) = {} /\ FromPeer \subseteq Message
      /\ \A C : FromJoiner(C) \subseteq Message
  BY DEF FromJoiner, FromPeer
<1>5. \A o \in Conns \cup {NoConn} : FromJoiner({o}) \subseteq FromJoiner(Conns)
  BY DEF FromJoiner
<1> QED BY <1>1, <1>2, <1>3, <1>4, <1>5

\* An empty slot stays so until the next connection.
EmptySlot ==
  /\ stage = "none" /\ up = <<>> /\ link = <<>> /\ ~seeded
  /\ jTombs = {} /\ jPark = <<>> /\ jGot = 0 /\ jLanded = [r \in Rows |-> 0]

\* ControlInv in two parts: the mail, and the slot.
LEMMA ControlParts ==
  ControlInv <=> /\ inbox \in Seq(FromPeer \cup FromJoiner({occ}))
                 /\ popped \in Seq(FromPeer \cup FromJoiner(Conns))
                 /\ occ = NoConn => EmptySlot
                 /\ occ # NoConn => stage # "none"
BY DEF ControlInv, EmptySlot

LEMMA ControlPartsNext ==
  ControlInv' <=> /\ inbox' \in Seq(FromPeer \cup FromJoiner({occ'}))
                  /\ popped' \in Seq(FromPeer \cup FromJoiner(Conns))
                  /\ occ' = NoConn => EmptySlot'
                  /\ occ' # NoConn => stage' # "none"
BY DEF ControlInv, EmptySlot

LEMMA MailNext ==
  ASSUME SafeInv, Next
  PROVE  /\ inbox' \in Seq(FromPeer \cup FromJoiner({occ'}))
         /\ popped' \in Seq(FromPeer \cup FromJoiner(Conns))
<1>1. TypeOK /\ ControlInv
  BY DEF SafeInv
<1>2. /\ inbox \in Seq(FromPeer \cup FromJoiner({occ}))
      /\ popped \in Seq(FromPeer \cup FromJoiner(Conns))
      /\ occ \in Conns \cup {NoConn} /\ inbox \in Seq(Message)
  BY <1>1, ControlParts, TypeFacts DEF TypeOK
<1> DEFINE T == FromPeer \cup FromJoiner({occ})
           Goal == /\ inbox' \in Seq(FromPeer \cup FromJoiner({occ'}))
                   /\ popped' \in Seq(FromPeer \cup FromJoiner(Conns))
<1>3. ASSUME UNCHANGED <<inbox, popped, occ>> PROVE Goal
  BY <1>2, <1>3
<1>4. ASSUME NetReceivePeer PROVE Goal
  <2> DEFINE msg == [from |-> NoConn, op |-> "line", line |-> peerNet[1]]
  <2>1. inbox' = Append(inbox, msg) /\ msg \in FromPeer
    BY <1>4, ReceiptMoves
  <2> HIDE DEF msg
  <2>2. Append(inbox, msg) \in Seq(T)
    BY <1>2, <2>1
  <2>3. UNCHANGED <<popped, occ>>
    BY <1>4 DEF NetReceivePeer, gameVars
  <2> QED BY <1>2, <2>1, <2>2, <2>3
<1>5. ASSUME NetReceiveJoiner PROVE Goal
  <2> DEFINE msg == [from |-> occ, op |-> Head(up)]
  <2>1. up # <<>> /\ UNCHANGED <<popped, occ>> /\ inbox' = Append(inbox, msg)
    BY <1>5 DEF NetReceiveJoiner, gameVars
  <2>2. Head(up) \in {"request", "ready"} /\ occ \in Conns
    <3>1. up \in Seq({"request", "ready"})
      BY <1>1 DEF TypeOK
    <3> QED BY <1>1, <2>1, <3>1, ConnTypes
  <2>3. msg \in FromJoiner({occ})
    BY <2>2, Senders
  <2> HIDE DEF msg
  <2>4. Append(inbox, msg) \in Seq(T)
    BY <1>2, <2>3
  <2> QED BY <1>2, <2>1, <2>4
<1>6. ASSUME Seat PROVE Goal
  <2>1. UNCHANGED <<inbox, popped>> /\ occ = NoConn
    BY <1>6 DEF Seat, gameVars
  <2>2. FromPeer \cup FromJoiner({occ}) \subseteq FromPeer \cup FromJoiner({occ'})
    BY <2>1, Senders
  <2>3. inbox \in Seq(FromPeer \cup FromJoiner({occ'}))
    BY <1>2, <2>2, SeqMore
  <2> QED BY <1>2, <2>1, <2>3
<1>7. ASSUME Leave PROVE Goal
  <2>1. UNCHANGED popped /\ inbox' = Others(inbox, occ) /\ occ' = NoConn
    BY <1>7 DEF Leave, Close, gameVars
  <2>2. Others(inbox, occ) \in Seq({m \in T : m.from # occ})
    BY <1>2, OthersFrom
  <2>3. {m \in T : m.from # occ} \subseteq FromPeer \cup FromJoiner({occ'})
    BY Senders
  <2>4. Others(inbox, occ) \in Seq(FromPeer \cup FromJoiner({occ'}))
    BY <2>2, <2>3, SeqMore
  <2> QED BY <1>2, <2>1, <2>4
<1>8. ASSUME Pop PROVE Goal
  <2>1. UNCHANGED occ /\ inbox # <<>> /\ popped' = <<Head(inbox)>> /\ inbox' = Tail(inbox)
    BY <1>8 DEF Pop
  <2>2. Head(inbox) \in T /\ Tail(inbox) \in Seq(T)
    <3>1. inbox \in Seq(T)
      BY <1>2
    <3> HIDE DEF T
    <3>2. Head(inbox) = inbox[1] /\ inbox[1] \in T /\ Tail(inbox) \in Seq(T)
      BY <2>1, <3>1, HeadJoins
    <3> QED BY <3>2
  <2>3. Head(inbox) \in FromPeer \cup FromJoiner(Conns)
    BY <1>2, <2>2, Senders
  <2> QED BY <2>1, <2>2, <2>3
<1>9. ASSUME UNCHANGED <<inbox, occ>>, popped' = <<>> PROVE Goal
  BY <1>2, <1>9
<1>10. \/ NetReceivePeer \/ NetReceiveJoiner \/ Seat \/ Leave \/ Pop
       \/ UNCHANGED <<inbox, popped, occ>> \/ (UNCHANGED <<inbox, occ>> /\ popped' = <<>>)
  BY DEF Next, HostAppend, HostDelete, PeerEdit, Reconcile, HostPoll, OnLine, OnRequest, OnReady, Dispatch,
         JRequest, JLoad, JAnnounce, JReceive, JDrain, JPoll, netVars, gameVars
<1> QED BY <1>3, <1>4, <1>5, <1>6, <1>7, <1>8, <1>9, <1>10

\* Each action keeps what is said of the slot.
LEMMA SlotNext ==
  ASSUME SafeInv, Next
  PROVE  /\ occ' = NoConn => EmptySlot'
         /\ occ' # NoConn => stage' # "none"
<1>1. TypeOK /\ ControlInv
  BY DEF SafeInv
<1>2. (occ = NoConn => EmptySlot) /\ (occ # NoConn => stage # "none")
  BY <1>1, ControlParts
<1> DEFINE Goal == (occ' = NoConn => EmptySlot') /\ (occ' # NoConn => stage' # "none")
           slotVars == <<occ, up, stage, link, seeded, jTombs, jPark, jGot, jLanded>>
<1>3. ASSUME UNCHANGED slotVars PROVE Goal
  BY <1>2, <1>3 DEF EmptySlot
<1>4. ASSUME Seat PROVE Goal
  <2>1. occ' = seats + 1 /\ stage' = "menu" /\ seats \in Nat
    BY <1>1, <1>4 DEF Seat, TypeOK
  <2> QED BY <2>1 DEF NoConn
<1>5. ASSUME Leave PROVE Goal
  BY <1>5 DEF Leave, Close, SetJoiner, EmptySlot
<1>6. ASSUME NetReceivePeer \/ HostPoll PROVE Goal
  <2>1. UNCHANGED <<occ, up, stage, seeded, jTombs, jPark, jGot, jLanded>>
    BY <1>6 DEF NetReceivePeer, HostPoll, netVars, joinerVars, arrayVars, takenVars
  <2>2. occ = NoConn => link' = link
    BY <1>6 DEF NetReceivePeer, HostPoll, Send
  <2> QED BY <1>2, <2>1, <2>2 DEF EmptySlot
<1>7. ASSUME OnReady PROVE Goal
  <2>1. UNCHANGED <<occ, up, stage, jTombs, jPark, jGot, jLanded>>
    BY <1>7 DEF OnReady, netVars, joinerVars, arrayVars
  <2>2. occ = NoConn => link' = link
    BY <1>7 DEF OnReady
  <2>3. popped # <<>> /\ popped[1].op = "ready"
    BY <1>7 DEF OnReady, Dispatch
  <2>4. popped[1].from # NoConn
    BY <1>1, <2>3, ConnTypes, MessageFields
  <2>5. occ = NoConn => ~seeded'
    BY <1>7, <2>4 DEF OnReady
  <2> QED BY <1>2, <2>1, <2>2, <2>5 DEF EmptySlot
<1>8. ASSUME NetReceiveJoiner \/ JReceive \/ JRequest \/ JLoad \/ JAnnounce \/ JDrain \/ JPoll
      PROVE  Goal
  <2>1. UNCHANGED occ
    BY <1>8 DEF NetReceiveJoiner, JReceive, JRequest, JLoad, JAnnounce, JDrain, JPoll, netVars
  <2>2. occ # NoConn
    BY <1>2, <1>8 DEF EmptySlot, NetReceiveJoiner, JReceive, JRequest, JLoad, JAnnounce, JDrain, JPoll
  <2>3. stage # "none" => stage' # "none"
    BY <1>8 DEF NetReceiveJoiner, JReceive, JRequest, JLoad, JAnnounce, JDrain, JPoll
  <2> QED BY <1>2, <2>1, <2>2, <2>3
<1>9. \/ UNCHANGED slotVars \/ Seat \/ Leave \/ NetReceivePeer \/ HostPoll \/ OnReady
      \/ NetReceiveJoiner \/ JReceive \/ JRequest \/ JLoad \/ JAnnounce \/ JDrain \/ JPoll
  BY DEF Next, HostAppend, HostDelete, PeerEdit, Reconcile, Pop, OnLine, OnRequest, netVars, joinerVars,
         arrayVars, takenVars
<1> QED BY <1>3, <1>4, <1>5, <1>6, <1>7, <1>8, <1>9

\* Each action keeps SafeInv.
LEMMA SafeNext ==
  ASSUME SafeInv, Next
  PROVE  SafeInv'
<1>1. ControlInv'
  BY MailNext, SlotNext, ControlPartsNext
<1> QED BY <1>1, TypeNext, HostRowsNext, PeerRowsNext, StreamNext DEF SafeInv

-----------------------------------------------------------------------------
(* The balance of host and joiner, step by step.                           *)

\* The steps that leave what the host will have as it is.
LEMMA HostEditBalance ==
  ASSUME SafeInv, TypeOK', NEW q \in HostRows, HostAppend(q) \/ HostDelete(q), NEW r \in Rows
  PROVE  HostWillHave(r)' = HostWillHave(r)
<1>1. TypeOK /\ HostRowsInv
  BY DEF SafeInv
<1>2. store \in [Rows -> 0..1] /\ HostRows \subseteq Rows
  BY <1>1 DEF TypeOK, Rows
<1>3. UNCHANGED <<popped, inbox, tombs>>
  BY DEF HostAppend, HostDelete, netVars, gameVars
<1>4. store'[r] - Bit(r \in fresh') + Bit(r \in gone') = store[r] - Bit(r \in fresh) + Bit(r \in gone)
  <2>1. CASE HostAppend(q)
    <3>1. /\ store[q] = 0 /\ store' = [store EXCEPT ![q] = 1]
          /\ fresh' = fresh \cup {q} /\ gone' = gone
      BY <2>1 DEF HostAppend
    <3>2. q \notin fresh
      BY <1>1, <3>1 DEF HostRowsInv
    <3>3. CASE r = q
      BY <1>2, <3>1, <3>2, <3>3 DEF Bit
    <3>4. CASE r # q
      BY <1>2, <3>1, <3>4 DEF Bit
    <3> QED BY <3>3, <3>4
  <2>2. CASE HostDelete(q)
    <3>1. /\ store[q] = 1 /\ store' = [store EXCEPT ![q] = 0]
          /\ fresh' = fresh \ {q} /\ gone' = IF q \in fresh THEN gone ELSE gone \cup {q}
      BY <2>2 DEF HostDelete
    <3>2. q \in gone => q \in fresh
      BY <1>1, <3>1 DEF HostRowsInv
    <3>3. CASE r = q
      BY <1>2, <3>1, <3>2, <3>3 DEF Bit
    <3>4. CASE r # q
      BY <1>2, <3>1, <3>4 DEF Bit
    <3> QED BY <3>3, <3>4
  <2> QED BY <2>1, <2>2
<1>5. Held(r) = store[r] - Bit(r \in tombs) /\ Held(r)' = store'[r] - Bit(r \in tombs)
      /\ store[r] \in Int /\ store'[r] \in Int
  <2>1. store[r] \in Int
    BY <1>2
  <2>2. store'[r] \in Int
    BY DEF TypeOK
  <2>3. Held(r) = store[r] - Bit(r \in tombs) /\ Held(r)' = store'[r] - Bit(r \in tombs')
    BY HeldIs
  <2> QED BY <1>3, <2>1, <2>2, <2>3
<1> DEFINE x == Bit(r \in tombs)
           y == Pending(LinesIn(popped), r) + Pending(LinesIn(inbox), r)
<1>6. HostWillHave(r) = Held(r) - Bit(r \in fresh) + Bit(r \in gone) + y
  BY <1>1, HostWillHaveIs
<1>7. HostWillHave(r)' = Held(r)' - Bit(r \in fresh') + Bit(r \in gone') + y
  BY <1>3, HostWillHaveNext
<1>8. /\ x \in Int /\ y \in Int /\ Bit(r \in fresh) \in Int /\ Bit(r \in gone) \in Int
      /\ Bit(r \in fresh') \in Int /\ Bit(r \in gone') \in Int
  BY <1>1, HeldInt DEF Bit
<1>9. Held(r) = store[r] - x /\ Held(r)' = store'[r] - x
  BY <1>5
<1> HIDE DEF x, y
<1> QED BY <1>4, <1>5, <1>6, <1>7, <1>8, <1>9

\* Steps that touch neither the host's lane nor its queue leave the host's side as it is.
LEMMA HostQuiet ==
  ASSUME UNCHANGED <<laneVars, popped, inbox>>, NEW r
  PROVE  HostWillHave(r)' = HostWillHave(r)
BY DEF HostWillHave, laneVars

LEMMA PopBalance ==
  ASSUME SafeInv, Pop, NEW r \in Rows
  PROVE  HostWillHave(r)' = HostWillHave(r)
<1>1. inbox \in Seq(Message)
  BY TypeFacts DEF SafeInv
<1>2. /\ popped = <<>> /\ inbox # <<>> /\ popped' = <<Head(inbox)>> /\ inbox' = Tail(inbox)
      /\ UNCHANGED laneVars
  BY DEF Pop
<1>3. <<Head(inbox)>> \o Tail(inbox) = inbox /\ <<>> \o inbox = inbox
  BY <1>1, <1>2, HeadJoins, EmptyJoins
<1>4. popped' \o inbox' = popped \o inbox
  BY <1>2, <1>3
<1> QED BY <1>2, <1>4 DEF HostWillHave, laneVars

LEMMA OnLineBalance ==
  ASSUME SafeInv, OnLine, TypeOK', NEW r \in Rows
  PROVE  HostWillHave(r)' = HostWillHave(r)
<1> DEFINE line == popped[1].line
<1>1. TypeOK /\ ControlInv
  BY DEF SafeInv
<1>2. /\ popped # <<>> /\ popped[1].op = "line" /\ popped' = <<>> /\ line \in Line
      /\ Held(r)' = Held(r) + Worth(line, r) /\ UNCHANGED <<fresh, gone>>
  BY OnLineEffect
<1>3. popped = <<popped[1]>> /\ popped[1] \in Message /\ LineOf(popped[1]) = line
  <2>1. popped[1] \in FromPeer /\ popped = <<popped[1]>> /\ LineOf(popped[1]) = line
    BY <1>1, <1>2, PoppedLine
  <2> QED BY <2>1, Senders
<1>4. LinesIn(popped) = <<line>> /\ line \in AnyLine
  BY <1>2, <1>3, LinesInFew DEF AnyLine
<1>5. UNCHANGED inbox
  BY DEF OnLine, netVars
<1> HIDE DEF line
<1>6. Pending(LinesIn(popped), r) = Worth(line, r) /\ Worth(line, r) \in Int
  BY <1>4, PendingOne
<1>7. Pending(LinesIn(popped'), r) = 0
  BY <1>2, LinesInFew, PendingNone
<1>8. HostWillHave(r) = Held(r) - Bit(r \in fresh) + Bit(r \in gone)
                        + (Pending(LinesIn(popped), r) + Pending(LinesIn(inbox), r))
  BY <1>1, HostWillHaveIs
<1>9. HostWillHave(r)' = Held(r)' - Bit(r \in fresh') + Bit(r \in gone')
                        + (Pending(LinesIn(popped'), r) + Pending(LinesIn(inbox'), r))
  BY HostWillHaveNext
<1>10. Held(r) \in Int /\ Pending(LinesIn(inbox), r) \in Int
  BY <1>1, HeldInt
<1>11. Bit(r \in fresh) \in Int /\ Bit(r \in gone) \in Int
       /\ Bit(r \in fresh') = Bit(r \in fresh) /\ Bit(r \in gone') = Bit(r \in gone)
  BY <1>2 DEF Bit
<1>12. Pending(LinesIn(inbox'), r) = Pending(LinesIn(inbox), r) /\ Held(r)' = Held(r) + Worth(line, r)
  BY <1>2, <1>5
<1>13. HostWillHave(r) = Held(r) - Bit(r \in fresh) + Bit(r \in gone)
                        + (Worth(line, r) + Pending(LinesIn(inbox), r))
  BY <1>6, <1>8
<1>14. HostWillHave(r)' = Held(r) + Worth(line, r) - Bit(r \in fresh) + Bit(r \in gone)
                        + (0 + Pending(LinesIn(inbox), r))
  <2>1. HostWillHave(r)' = Held(r)' - Bit(r \in fresh') + Bit(r \in gone')
                             + (0 + Pending(LinesIn(inbox), r))
    BY <1>7, <1>9, <1>12
  <2>2. HostWillHave(r)' = Held(r)' - Bit(r \in fresh) + Bit(r \in gone)
                             + (0 + Pending(LinesIn(inbox), r))
    BY <1>11, <2>1
  <2> QED BY <1>6, <1>10, <1>11, <1>12, <2>2
<1> QED BY <1>6, <1>10, <1>11, <1>13, <1>14

\* A line from the other peer adds its worth, for the inbox and for the link.
LEMMA InboxBalance ==
  ASSUME TypeOK, NEW msg \in Message, NEW r
  PROVE  /\ Pending(LinesIn(Append(inbox, msg)), r) = Pending(LinesIn(inbox), r) + Worth(LineOf(msg), r)
         /\ Pending(LinesIn(inbox), r) \in Int /\ Worth(LineOf(msg), r) \in Int
<1>1. inbox \in Seq(Message)
  BY TypeFacts
<1>2. LinesIn(Append(inbox, msg)) = Append(LinesIn(inbox), LineOf(msg))
      /\ LinesIn(inbox) \in Seq(AnyLine) /\ LineOf(msg) \in AnyLine
  BY <1>1, LinesInAppend, LinesInShape, MessageFields
<1>3. Worth(LineOf(msg), r) \in Int
  BY <1>2, WorthType
<1> QED BY <1>2, <1>3, PendingAppend, SumIsPending

LEMMA ReceiptBalance ==
  ASSUME SafeInv, NetReceivePeer, TypeOK', NEW r \in Rows
  PROVE  /\ HostWillHave(r)' = HostWillHave(r) + Worth(peerNet[1], r)
         /\ Worth(peerNet[1], r) \in Int
<1> DEFINE line == peerNet[1]
           msg == [from |-> NoConn, op |-> "line", line |-> line]
<1>1. TypeOK
  BY DEF SafeInv
<1>2. inbox' = Append(inbox, msg) /\ msg \in Message /\ LineOf(msg) = line
  BY ReceiptMoves
<1> HIDE DEF line, msg
<1>3. UNCHANGED <<store, tombs, fresh, gone, popped>>
  BY DEF NetReceivePeer, laneVars, gameVars
<1>4. Held(r)' = Held(r)
  BY <1>3, HeldIs
<1>5. Pending(LinesIn(inbox'), r) = Pending(LinesIn(inbox), r) + Worth(line, r)
      /\ Worth(line, r) \in Int
  BY <1>1, <1>2, InboxBalance
<1>6. HostWillHave(r) = Held(r) - Bit(r \in fresh) + Bit(r \in gone)
                        + (Pending(LinesIn(popped), r) + Pending(LinesIn(inbox), r))
  BY <1>1, HostWillHaveIs
<1>7. HostWillHave(r)' = Held(r)' - Bit(r \in fresh') + Bit(r \in gone')
                        + (Pending(LinesIn(popped'), r) + Pending(LinesIn(inbox'), r))
  BY HostWillHaveNext
<1>8. Held(r) \in Int /\ Pending(LinesIn(inbox), r) \in Int /\ Pending(LinesIn(popped), r) \in Int
  BY <1>1, HeldInt
<1>9. Bit(r \in fresh) \in Int /\ Bit(r \in gone) \in Int
  BY DEF Bit
<1>10. HostWillHave(r)' = Held(r) - Bit(r \in fresh) + Bit(r \in gone)
                + (Pending(LinesIn(popped), r) + (Pending(LinesIn(inbox), r) + Worth(line, r)))
  BY <1>3, <1>4, <1>5, <1>7
<1>11. HostWillHave(r)' = HostWillHave(r) + Worth(line, r)
  BY <1>5, <1>6, <1>8, <1>9, <1>10
<1> QED BY <1>5, <1>11 DEF line

\* A host's poll sends what it adds and deletes: to the joiner as well, if it is ready.
LEMMA PollBalance ==
  ASSUME SafeInv, HostPoll, TypeOK', NEW r \in Rows
  PROVE  HostWillHave(r)' = HostWillHave(r) + (Bit(r \in fresh) - Bit(r \in gone))
<1>1. TypeOK
  BY DEF SafeInv
<1>2. Held(r)' = Held(r) /\ fresh' = {} /\ gone' = {}
  BY <1>1, HostPollEffect
<1>3. UNCHANGED <<popped, inbox>>
  BY DEF HostPoll, netVars, gameVars
<1>6. HostWillHave(r) = Held(r) - Bit(r \in fresh) + Bit(r \in gone)
                        + (Pending(LinesIn(popped), r) + Pending(LinesIn(inbox), r))
  BY <1>1, HostWillHaveIs
<1>7. HostWillHave(r)' = Held(r)' - Bit(r \in fresh') + Bit(r \in gone')
                        + (Pending(LinesIn(popped'), r) + Pending(LinesIn(inbox'), r))
  BY HostWillHaveNext
<1>8. Held(r) \in Int /\ Pending(LinesIn(inbox), r) \in Int /\ Pending(LinesIn(popped), r) \in Int
  BY <1>1, HeldInt
<1>9. Bit(r \in fresh) \in Int /\ Bit(r \in gone) \in Int /\ Bit(r \in fresh') = 0
      /\ Bit(r \in gone') = 0
  BY <1>2 DEF Bit
<1>10. HostWillHave(r)' = Held(r) - 0 + 0
                        + (Pending(LinesIn(popped), r) + Pending(LinesIn(inbox), r))
  BY <1>2, <1>3, <1>7, <1>9
<1> QED BY <1>6, <1>8, <1>9, <1>10

\* The joiner's side.
LEMMA JoinerQuiet ==
  ASSUME UNCHANGED <<jStore, jTombs, jPark, link>>, NEW r
  PROVE  JoinerWillHave(r)' = JoinerWillHave(r)
BY DEF JoinerWillHave

\* A line sent to the joiner adds its worth.
LEMMA SentBalance ==
  ASSUME TypeOK, TypeOK', UNCHANGED <<jStore, jTombs, jPark>>,
         NEW t \in Seq(Line), link' = link \o t, NEW r \in Rows
  PROVE  JoinerWillHave(r)' = JoinerWillHave(r) + Pending(t, r)
<1>1. link \in Seq(AnyLine) /\ t \in Seq(AnyLine)
  BY TypeFacts DEF AnyLine
<1>2. Pending(link', r) = Pending(link, r) + Pending(t, r)
  BY <1>1, PendingJoin
<1>3. Owned(r)' = Owned(r)
  <2>1. Parked(r)' = Parked(r)
    BY DEF Parked
  <2> QED BY <2>1, HeldIs
<1>4. JoinerWillHave(r) = Owned(r) + Pending(link, r)
  BY JoinerWillHaveIs
<1>5. JoinerWillHave(r)' = Owned(r)' + Pending(link', r)
  BY JoinerWillHaveNext
<1>6. Owned(r) \in Int /\ Pending(link, r) \in Int /\ Pending(t, r) \in Int
  BY <1>1, HeldInt, SumIsPending
<1> QED BY <1>2, <1>3, <1>4, <1>5, <1>6

\* Draining the park and polling lose nothing.
LEMMA SettleBalance ==
  ASSUME TypeOK, TypeOK', JDrain \/ JPoll, NEW r \in Rows
  PROVE  JoinerWillHave(r)' = JoinerWillHave(r)
<1>1. Owned(r)' = Owned(r)
  BY JSettleEffect
<1>2. UNCHANGED link
  BY DEF JDrain, JPoll
<1> QED BY <1>1, <1>2, JoinerWillHaveIs, JoinerWillHaveNext

\* Nor does a receipt.
LEMMA TakenBalance ==
  ASSUME TypeOK, TypeOK', JReceive, NEW m, Runs(Turns(murky), jGot, link, m),
         NEW r \in Rows \ murky'
  PROVE  JoinerWillHave(r)' = JoinerWillHave(r)
<1> DEFINE line == link[1]
<1>1. /\ link # <<>> /\ line \in Line /\ link' = Tail(link) /\ murky \subseteq murky'
      /\ (line.op = "part" /\ line.row = r => InTurn(jGot, line))
            => Owned(r)' = Owned(r) + Worth(line, r)
  BY JReceiveEffect
<1>2. link \in Seq(Line) /\ link \in Seq(AnyLine)
  BY TypeFacts DEF AnyLine
<1>3. PICK c \in Int : <<jGot, line, c>> \in Turns(murky)
  BY <1>1, <1>2, RunsTail
<1>4. r \notin murky
  BY <1>1
<1> HIDE DEF line
<1>5. line.op = "part" /\ line.row \notin murky => InTurn(jGot, line)
  BY <1>3, TurnsDef
<1>6. Owned(r)' = Owned(r) + Worth(line, r)
  BY <1>1, <1>4, <1>5
<1>7. Pending(link, r) = Worth(line, r) + Pending(Tail(link), r)
  BY <1>1, <1>2, PendingTail DEF line
<1>8. Owned(r) \in Int /\ Pending(link', r) \in Int /\ Worth(line, r) \in Int
  <2>1. line \in AnyLine
    BY <1>1 DEF AnyLine
  <2>2. Worth(line, r) \in Int
    BY <2>1, WorthType
  <2> QED BY <2>2, HeldInt, HeldIntNext
<1>9. JoinerWillHave(r) = Owned(r) + Pending(link, r)
  BY JoinerWillHaveIs
<1>10. JoinerWillHave(r)' = Owned(r)' + Pending(link', r)
  BY JoinerWillHaveNext
<1> QED BY <1>1, <1>6, <1>7, <1>8, <1>9, <1>10

-----------------------------------------------------------------------------
(* What the joiner is sent, and what it sends.                             *)

\* Relayed for the parts n that are through and the lines on the link.
Relaying(S, n, lines, net, straddling) ==
  \E m \in Int : /\ Runs(Turns(S), n, lines, m)
                 /\ m = Before(net) \/ (m = 0 /\ straddling \subseteq S)

LEMMA RelayedIs ==
  /\ Relayed <=> eligible = occ /\ Relaying(murky, jGot, link, peerNet, Straddling)
  /\ Relayed' <=> eligible' = occ' /\ Relaying(murky', jGot', link', peerNet', Straddling')
BY DEF Relayed, Relaying

LEMMA RelayingMore ==
  ASSUME NEW S, NEW T, S \subseteq T, NEW n, NEW lines \in Seq(Line), NEW net, NEW x,
         NEW more \in Seq(Line), \A i \in 1..Len(more) : more[i].op # "part",
         Relaying(S, n, lines, net, x)
  PROVE  Relaying(T, n, lines \o more, net, x) /\ Relaying(T, n, lines, net, x)
<1>1. PICK m \in Int : /\ Runs(Turns(S), n, lines, m)
                       /\ m = Before(net) \/ (m = 0 /\ x \subseteq S)
  BY DEF Relaying
<1>2. Turns(S) \subseteq Turns(T)
  BY TurnsGrow
<1>3. Runs(Turns(T), n, lines, m)
  BY <1>1, <1>2, RunsMore
<1>4. Runs(Turns(T), m, more, m)
  BY TurnsIdle
<1>5. Runs(Turns(T), n, lines \o more, m)
  BY <1>3, <1>4, RunsChain
<1> QED BY <1>1, <1>3, <1>5 DEF Relaying

\* Relaying goes on for the same occupant.
LEMMA RelayedNext ==
  ASSUME SafeInv, Next, Relayed, up = <<>>, occ # NoConn, ~Leave
  PROVE  Relayed'
<1>1. TypeOK /\ Blobs(peerNet)
  BY DEF SafeInv, StreamInv
<1>2. eligible = occ /\ Relaying(murky, jGot, link, peerNet, Straddling)
  BY RelayedIs
<1>3. peerNet \in Seq(Line) /\ link \in Seq(Line)
  BY <1>1, TypeFacts
<1>4. UNCHANGED <<eligible, occ>>
  BY DEF Next, HostAppend, HostDelete, PeerEdit, NetReceivePeer, NetReceiveJoiner, Seat, Reconcile,
         HostPoll, Pop, OnLine, OnRequest, OnReady, JRequest, JLoad, JAnnounce, JReceive, JDrain, JPoll,
         netVars
<1> SUFFICES Relaying(murky', jGot', link', peerNet', Straddling')
  BY <1>2, <1>4, RelayedIs
<1>5. UNCHANGED peerNet => Straddling' = Straddling
  BY DEF Straddling
<1>6. CASE UNCHANGED <<murky, jGot, link, peerNet>>
  BY <1>2, <1>5, <1>6
<1>7. ASSUME NEW q \in PeerRows, PeerEdit(q)
      PROVE  Relaying(murky', jGot', link', peerNet', Straddling')
  <2> DEFINE held == q \in has
             t == IF held THEN <<Delete(q)>> ELSE Blob(q)
  <2>1. UNCHANGED <<murky, jGot, link>> /\ peerNet' = peerNet \o t
    BY <1>7 DEF PeerEdit, joinerVars, arrayVars, takenVars
  <2>2. t \in Seq(Line) /\ t # <<>> /\ Blobs(t) /\ t[1].part = 1
    <3>1. held \in BOOLEAN
      OBVIOUS
    <3> HIDE DEF held
    <3> QED BY <3>1, EditLines
  <2> HIDE DEF t, held
  <2>3. /\ Before(peerNet \o t) = Before(peerNet)
        /\ peerNet # <<>> => (peerNet \o t)[1] = peerNet[1]
        /\ peerNet = <<>> => (peerNet \o t)[1].part = 1
    BY <1>1, <1>3, <2>2, BlobsJoin
  <2>4. Straddling' \subseteq Straddling
    <3>1. peerNet' # <<>> /\ Head(peerNet') = peerNet'[1]
      <4>1. peerNet' # <<>> /\ peerNet' \in Seq(Line)
        BY <1>3, <2>1, <2>2
      <4> QED BY <4>1, HeadJoins
    <3>2. peerNet # <<>> => Head(peerNet) = peerNet[1]
      BY <1>3, HeadJoins
    <3> QED BY <2>1, <2>3, <3>1, <3>2 DEF Straddling
  <2>5. Before(peerNet') = Before(peerNet)
    BY <2>1, <2>3
  <2> QED BY <1>2, <2>1, <2>4, <2>5 DEF Relaying
<1>8. ASSUME NetReceivePeer PROVE Relaying(murky', jGot', link', peerNet', Straddling')
  <2> DEFINE line == peerNet[1]
  <2>1. /\ peerNet # <<>> /\ peerNet' = Tail(peerNet) /\ line \in Line /\ line \in AnyLine
        /\ Head(peerNet) = line
        /\ <<Before(peerNet), line, Before(peerNet')>> \in Turns({})
    BY <1>8, ReceiptMoves
  <2>2. /\ UNCHANGED <<murky, jGot>> /\ link' = Append(link, line)
    BY <1>2, <1>8, <2>1 DEF NetReceivePeer, Relays, joinerVars, arrayVars, takenVars
  <2>3. line.part \in 1..Parts /\ (line.op # "part" => line.part = 1) /\ Parts \in Nat \ {0}
    BY <2>1, Fields
  <2>4. /\ Before(peerNet) = line.part - 1
        /\ Straddling = IF line.part > 1 THEN {line.row} ELSE {}
    BY <2>1 DEF Before, Straddling
  <2>5. Straddling' \subseteq {line.row}
        /\ (Straddling' # {} => line.op = "part" /\ line.part < Parts)
    <3>1. LET rest == Tail(peerNet)
          IN rest # <<>> /\ rest[1].part > 1 =>
                 line.op = "part" /\ line.part < Parts /\ rest[1].row = line.row
      BY <1>1, <1>3, <2>1, BlobsHead
    <3>2. Tail(peerNet) # <<>> => Head(Tail(peerNet)) = Tail(peerNet)[1]
      <4>1. Tail(peerNet) \in Seq(Line)
        BY <1>3, <2>1, HeadJoins
      <4> QED BY <4>1, HeadJoins
    <3> QED BY <2>1, <3>1, <3>2 DEF Straddling
  <2>6. PICK m \in Int : /\ Runs(Turns(murky), jGot, link, m)
                         /\ m = Before(peerNet) \/ (m = 0 /\ Straddling \subseteq murky)
    BY <1>2 DEF Relaying
  <2> HIDE DEF line
  <2>7. ASSUME NEW n \in Int, <<m, line, n>> \in Turns(murky)
        PROVE  Runs(Turns(murky), jGot', link', n)
    <3>1. Runs(Turns(murky), m, <<line>>, n)
      BY <2>7, RunsOne
    <3>2. Append(link, line) = link \o <<line>> /\ <<line>> \in Seq(Line)
      BY <1>3, <2>1, AppendJoins
    <3> QED BY <1>3, <2>2, <2>6, <3>1, <3>2, RunsChain
  <2>8. CASE m = Before(peerNet)
    <3>1. Turns({}) \subseteq Turns(murky)
      BY TurnsGrow
    <3>2. <<m, line, Before(peerNet')>> \in Turns(murky) /\ Before(peerNet') \in Int
      BY <2>1, <2>8, <3>1, TurnsDef
    <3>3. Runs(Turns(murky'), jGot', link', Before(peerNet'))
      BY <2>2, <2>7, <3>2
    <3> QED BY <3>2, <3>3 DEF Relaying
  <2>9. CASE m = 0 /\ m # Before(peerNet) /\ Straddling \subseteq murky
    <3>1. line.part > 1 /\ line.row \in murky /\ line.op = "part"
      BY <2>3, <2>4, <2>9
    <3>2. After(m, line) = 0
      BY <2>3, <2>9, <3>1 DEF After, Assembled, InTurn
    <3>3. <<m, line, 0>> \in Turns(murky)
      BY <2>1, <3>1, <3>2, TurnsDef
    <3>4. Straddling' \subseteq murky'
      BY <2>2, <2>5, <3>1
    <3>5. Runs(Turns(murky'), jGot', link', 0)
      BY <2>2, <2>7, <3>3
    <3> QED BY <3>4, <3>5 DEF Relaying
  <2> QED BY <2>6, <2>8, <2>9
<1>9. ASSUME HostPoll PROVE Relaying(murky', jGot', link', peerNet', Straddling')
  <2> DEFINE s == SetToSeq({Delete(r) : r \in gone}) \o SetToSeq({Row(r) : r \in fresh})
  <2>1. s \in Seq(Line) /\ \A i \in 1..Len(s) : s[i].op # "part"
    BY <1>1, PollLines
  <2>2. Send(s) /\ UNCHANGED <<murky, jGot, peerNet>>
    BY <1>9 DEF HostPoll, joinerVars, arrayVars, takenVars, peerVars
  <2> HIDE DEF s
  <2>3. link' = link \o s \/ link' = link
    BY <2>2 DEF Send
  <2>4. Relaying(murky, jGot, link \o s, peerNet, Straddling)
    BY <1>2, <1>3, <2>1, RelayingMore
  <2> QED BY <1>2, <1>5, <2>2, <2>3, <2>4
<1>10. ASSUME OnReady PROVE Relaying(murky', jGot', link', peerNet', Straddling')
  <2>1. UNCHANGED <<jGot, peerNet>> /\ murky \subseteq murky'
    BY <1>10 DEF OnReady, joinerVars, arrayVars, peerVars
  <2>2. CASE snap.valid /\ link' = link \o Seed
    <3>1. Seed \in Seq(Line) /\ \A i \in 1..Len(Seed) : Seed[i].op # "part"
      BY <1>1, <2>2, SeedLines
    <3>2. Relaying(murky', jGot, link \o Seed, peerNet, Straddling)
      BY <1>2, <1>3, <2>1, <3>1, RelayingMore
    <3> QED BY <1>5, <2>1, <2>2, <3>2
  <2>3. CASE link' = link
    <3>1. <<>> \in Seq(Line) /\ \A i \in 1..Len(<<>>) : <<>>[i].op # "part"
      OBVIOUS
    <3>2. Relaying(murky', jGot, link, peerNet, Straddling)
      BY <1>2, <1>3, <2>1, <3>1, RelayingMore
    <3> QED BY <1>5, <2>1, <2>3, <3>2
  <2>4. (snap.valid /\ link' = link \o Seed) \/ link' = link
    BY <1>10 DEF OnReady
  <2> QED BY <2>2, <2>3, <2>4
<1>11. ASSUME JReceive PROVE Relaying(murky', jGot', link', peerNet', Straddling')
  <2> DEFINE line == link[1]
  <2>1. /\ link # <<>> /\ line \in Line /\ link' = Tail(link) /\ murky \subseteq murky'
        /\ jGot' = After(jGot, line)
    BY <1>1, <1>11, JReceiveEffect
  <2>2. UNCHANGED peerNet
    BY <1>11 DEF JReceive, peerVars
  <2>3. PICK m \in Int : /\ Runs(Turns(murky), jGot, link, m)
                         /\ m = Before(peerNet) \/ (m = 0 /\ Straddling \subseteq murky)
    BY <1>2 DEF Relaying
  <2>4. PICK c \in Int : <<jGot, line, c>> \in Turns(murky) /\ Runs(Turns(murky), c, Tail(link), m)
    BY <1>3, <2>1, <2>3, RunsTail
  <2> HIDE DEF line
  <2>5. c = jGot'
    BY <2>1, <2>4, TurnsDef
  <2>6. Relaying(murky, jGot', link', peerNet', Straddling')
    BY <1>5, <2>1, <2>2, <2>3, <2>4, <2>5 DEF Relaying
  <2>7. link' \in Seq(Line)
    BY <1>3, <2>1, HeadJoins
  <2>8. <<>> \in Seq(Line) /\ \A i \in 1..Len(<<>>) : <<>>[i].op # "part"
    OBVIOUS
  <2> QED BY <2>1, <2>6, <2>7, <2>8, RelayingMore
<1>12. \/ UNCHANGED <<murky, jGot, link, peerNet>> \/ \E q \in PeerRows : PeerEdit(q)
       \/ NetReceivePeer \/ HostPoll \/ OnReady \/ JReceive
  BY DEF Next, HostAppend, HostDelete, NetReceiveJoiner, Seat, Reconcile, Pop, OnLine, OnRequest,
         JRequest, JLoad, JAnnounce, JDrain, JPoll, joinerVars, arrayVars, takenVars, peerVars
<1> QED BY <1>6, <1>7, <1>8, <1>9, <1>10, <1>11, <1>12

\* While the slot keeps its occupant, of which the game thread knows no other.
LEMMA KnownNext ==
  ASSUME SafeInv, Next, occ # NoConn, ~Leave, known \in {NoConn, occ}
  PROVE  /\ UNCHANGED <<occ, late>> /\ known' \in {NoConn, occ'}
         /\ ~OnRequest /\ ~OnReady => UNCHANGED <<snap, ready, seeded>> /\ (JLoad \/ UNCHANGED blob)
         /\ JRequest \/ JLoad \/ JAnnounce \/ UNCHANGED stage
         /\ (NetReceiveJoiner /\ Head(up) = "ready") \/ UNCHANGED eligible
         /\ JLoad \/ JReceive \/ JDrain \/ JPoll \/ UNCHANGED arrayVars
<1>1. UNCHANGED <<occ, late>>
  BY DEF Next, HostAppend, HostDelete, PeerEdit, NetReceivePeer, NetReceiveJoiner, Seat, Reconcile,
         HostPoll, Pop, OnLine, OnRequest, OnReady, JRequest, JLoad, JAnnounce, JReceive, JDrain, JPoll,
         netVars, takenVars
<1>2. known' \in {NoConn, occ'}
  <2>1. Reconcile => known' = occ
    BY DEF Reconcile
  <2>2. ~Reconcile => known' = known
    BY DEF Next, HostAppend, HostDelete, PeerEdit, NetReceivePeer, NetReceiveJoiner, Seat,
         HostPoll, Pop, OnLine, OnRequest, OnReady, JRequest, JLoad, JAnnounce, JReceive, JDrain, JPoll,
         gameVars
  <2> QED BY <1>1, <2>1, <2>2
<1>3. ASSUME ~OnRequest, ~OnReady PROVE UNCHANGED <<snap, ready, seeded>> /\ (JLoad \/ UNCHANGED blob)
  BY <1>3 DEF Next, HostAppend, HostDelete, PeerEdit, NetReceivePeer, NetReceiveJoiner, Seat, Reconcile,
         HostPoll, Pop, OnLine, JRequest, JLoad, JAnnounce, JReceive, JDrain, JPoll,
         gameVars, takenVars
<1>4. JRequest \/ JLoad \/ JAnnounce \/ UNCHANGED stage
  BY DEF Next, HostAppend, HostDelete, PeerEdit, NetReceivePeer, NetReceiveJoiner, Seat, Reconcile,
         HostPoll, Pop, OnLine, OnRequest, OnReady, JReceive, JDrain, JPoll, joinerVars
<1>5. (NetReceiveJoiner /\ Head(up) = "ready") \/ UNCHANGED eligible
  BY DEF Next, HostAppend, HostDelete, PeerEdit, NetReceivePeer, NetReceiveJoiner, Seat, Reconcile,
         HostPoll, Pop, OnLine, OnRequest, OnReady, JRequest, JLoad, JAnnounce, JReceive, JDrain, JPoll,
         netVars
<1>6. JLoad \/ JReceive \/ JDrain \/ JPoll \/ UNCHANGED arrayVars
  BY DEF Next, HostAppend, HostDelete, PeerEdit, NetReceivePeer, NetReceiveJoiner, Seat, Reconcile,
         HostPoll, Pop, OnLine, OnRequest, OnReady, JRequest, JAnnounce, joinerVars
<1> QED BY <1>1, <1>2, <1>3, <1>4, <1>5, <1>6

\* Nothing is sent until the announce is received.
LEMMA ClosedNext ==
  ASSUME SafeInv, Next, occ # NoConn, ~Leave, known \in {NoConn, occ}, Closed, ~OnRequest, ~OnReady,
         ~(NetReceiveJoiner /\ Head(up) = "ready")
  PROVE  Closed' /\ (JLoad \/ UNCHANGED jStore)
<1>1. TypeOK
  BY DEF SafeInv
<1>2. UNCHANGED <<occ, ready, seeded, eligible>>
  BY KnownNext
<1>3. UNCHANGED link
  BY DEF Closed, Next, HostAppend, HostDelete, PeerEdit, NetReceivePeer, Relays, NetReceiveJoiner, Seat,
         Reconcile, HostPoll, Send, Pop, OnLine, JRequest, JLoad, JAnnounce, JReceive, JDrain, JPoll
<1>4. ~JReceive /\ ~JDrain
  BY DEF Closed, JReceive, JDrain
<1>5. CASE JPoll
  <2>1. /\ UNCHANGED jGot /\ jPark' = <<>> /\ jTombs' = {}
        /\ jLanded' = [r \in Rows |-> 0] /\ jStore' = jStore
    BY <1>1, <1>5, JSettleEffect DEF Closed
  <2> QED BY <1>2, <1>3, <2>1 DEF Closed
<1>6. CASE JLoad
  <2>1. UNCHANGED <<jLanded, jTombs, jGot, jPark>>
    BY <1>6 DEF JLoad
  <2> QED BY <1>2, <1>3, <1>6, <2>1 DEF Closed
<1>7. CASE UNCHANGED arrayVars
  BY <1>2, <1>3, <1>7 DEF Closed, arrayVars
<1> QED BY <1>4, <1>5, <1>6, <1>7, KnownNext

-----------------------------------------------------------------------------
(* Where the occupant's message is.                                        *)

\* Sequences of the other peer's messages.
LEMMA SilentFacts ==
  /\ Silent(<<>>)
  /\ \A s : Silent(s) /\ s # <<>> => s[1] \in FromPeer /\ s[1].op = "line" /\ s[1].from = NoConn
                                     /\ Head(s) = s[1] /\ Silent(Tail(s)) /\ Silent(<<s[1]>>)
  /\ \A s : \A m \in FromPeer : Silent(s) => Silent(Append(s, m))
  /\ \A s : Silent(s) => s \in Seq(Message)
<1>1. Silent(<<>>)
  BY DEF Silent
<1>2. ASSUME NEW s, Silent(s), s # <<>>
      PROVE  s[1] \in FromPeer /\ s[1].op = "line" /\ s[1].from = NoConn
             /\ Head(s) = s[1] /\ Silent(Tail(s)) /\ Silent(<<s[1]>>)
  <2>1. s \in Seq(FromPeer)
    BY <1>2 DEF Silent
  <2>2. Head(s) = s[1] /\ s[1] \in FromPeer /\ <<s[1]>> \in Seq(FromPeer) /\ Tail(s) \in Seq(FromPeer)
    BY <1>2, <2>1, HeadJoins
  <2> QED BY <2>2, Senders DEF Silent
<1>3. ASSUME NEW s, NEW m \in FromPeer, Silent(s) PROVE Silent(Append(s, m))
  BY <1>3 DEF Silent
<1>4. ASSUME NEW s, Silent(s) PROVE s \in Seq(Message)
  <2>1. FromPeer \subseteq Message
    BY Senders
  <2>2. s \in Seq(FromPeer)
    BY <1>4 DEF Silent
  <2> QED BY <2>1, <2>2, SeqMore
<1> QED BY <1>1, <1>2, <1>3, <1>4

\* The four places of the occupant's message, as sequences.
LEMMA MsgFacts ==
  ASSUME TypeOK, occ # NoConn, NEW op \in {"request", "ready"}
  PROVE  Msg(op) \in Message /\ Msg(op).from = occ /\ Msg(op).op = op /\ Msg(op) \notin FromPeer
<1>1. occ \in Conns
  BY DEF TypeOK
<1>2. Msg(op) \in Message /\ Msg(op).from = occ /\ Msg(op).op = op
  BY <1>1, JoinerMessage DEF Msg
<1> QED BY <1>2, Senders

\* Steps that neither take a message nor bring one.
LEMMA MailStill ==
  ASSUME Next, ~Leave, ~Seat
  PROVE  \/ UNCHANGED <<up, inbox, popped>> \/ NetReceivePeer \/ NetReceiveJoiner \/ Pop
         \/ OnLine \/ OnRequest \/ OnReady \/ JRequest \/ JAnnounce
BY DEF Next, HostAppend, HostDelete, PeerEdit, Reconcile, HostPoll, JLoad, JReceive, JDrain, JPoll,
       netVars, gameVars, joinerVars

\* Where the occupant's message goes next.
LEMMA NoMailNext ==
  ASSUME SafeInv, Next, occ # NoConn, ~Leave, NoMail
  PROVE  /\ ~OnRequest /\ ~OnReady /\ ~NetReceiveJoiner
         /\ JRequest => MailUp("request")'
         /\ JAnnounce => MailUp("ready")'
         /\ ~JRequest /\ ~JAnnounce => NoMail'
<1>1. up = <<>> /\ Silent(inbox) /\ Silent(popped)
  BY DEF NoMail
<1>2. popped # <<>> => popped[1].op = "line"
  BY <1>1, SilentFacts
<1>3. ~OnRequest /\ ~OnReady /\ ~NetReceiveJoiner
  BY <1>1, <1>2 DEF OnRequest, OnReady, Dispatch, NetReceiveJoiner
<1>4. ASSUME NetReceivePeer PROVE NoMail'
  <2> DEFINE msg == [from |-> NoConn, op |-> "line", line |-> peerNet[1]]
  <2>1. inbox' = Append(inbox, msg) /\ msg \in FromPeer
    BY <1>4, ReceiptMoves
  <2> HIDE DEF msg
  <2>2. UNCHANGED <<up, popped>>
    BY <1>4 DEF NetReceivePeer, joinerVars, gameVars
  <2>3. Silent(inbox')
    BY <1>1, <2>1, SilentFacts
  <2> QED BY <1>1, <2>2, <2>3 DEF NoMail
<1>5. ASSUME Pop PROVE NoMail'
  <2>1. inbox # <<>> /\ popped' = <<Head(inbox)>> /\ inbox' = Tail(inbox) /\ UNCHANGED up
    BY <1>5 DEF Pop, joinerVars
  <2>2. Silent(popped') /\ Silent(inbox')
    BY <1>1, <2>1, SilentFacts
  <2> QED BY <1>1, <2>1, <2>2 DEF NoMail
<1>6. ASSUME OnLine PROVE NoMail'
  <2>1. popped' = <<>> /\ UNCHANGED <<up, inbox>>
    BY <1>6 DEF OnLine, Dispatch, netVars, joinerVars
  <2>2. Silent(popped')
    BY <2>1, SilentFacts
  <2> QED BY <1>1, <2>1, <2>2 DEF NoMail
<1>7. ASSUME JRequest PROVE MailUp("request")'
  <2>1. up' = <<"request">> /\ UNCHANGED <<inbox, popped>>
    BY <1>1, <1>7 DEF JRequest, netVars, gameVars
  <2> QED BY <1>1, <2>1 DEF MailUp
<1>8. ASSUME JAnnounce PROVE MailUp("ready")'
  <2>1. up' = <<"ready">> /\ UNCHANGED <<inbox, popped>>
    BY <1>1, <1>8 DEF JAnnounce, netVars, gameVars
  <2> QED BY <1>1, <2>1 DEF MailUp
<1>9. ASSUME UNCHANGED <<up, inbox, popped>> PROVE NoMail'
  BY <1>1, <1>9 DEF NoMail
<1>10. ~Seat
  BY DEF Seat
<1> QED BY <1>3, <1>4, <1>5, <1>6, <1>7, <1>8, <1>9, <1>10, MailStill

LEMMA MailUpNext ==
  ASSUME SafeInv, Next, occ # NoConn, ~Leave, ~JRequest, ~JAnnounce,
         NEW op \in {"request", "ready"}, MailUp(op)
  PROVE  /\ ~OnRequest /\ ~OnReady
         /\ NetReceiveJoiner => /\ Head(up) = op /\ UNCHANGED popped
                                /\ inbox \in Seq(FromPeer) /\ <<>> \in Seq(FromPeer)
                                /\ inbox' = inbox \o <<Msg(op)>> \o <<>> /\ up' = <<>>
                                /\ Silent(popped')
         /\ ~NetReceiveJoiner => MailUp(op)'
<1>1. up = <<op>> /\ Silent(inbox) /\ Silent(popped)
  BY DEF MailUp
<1>2. popped # <<>> => popped[1].op = "line"
  BY <1>1, SilentFacts
<1>3. ~OnRequest /\ ~OnReady
  BY <1>2 DEF OnRequest, OnReady, Dispatch
<1>4. ASSUME NetReceiveJoiner
      PROVE  /\ Head(up) = op /\ UNCHANGED popped
             /\ inbox \in Seq(FromPeer) /\ <<>> \in Seq(FromPeer)
             /\ inbox' = inbox \o <<Msg(op)>> \o <<>> /\ up' = <<>> /\ Silent(popped')
  <2>1. Head(up) = op /\ up' = <<>>
    BY <1>1, <1>4 DEF NetReceiveJoiner
  <2>2. UNCHANGED popped /\ inbox' = Append(inbox, Msg(op))
    BY <1>4, <2>1 DEF NetReceiveJoiner, gameVars, Msg
  <2>3. inbox \in Seq(FromPeer)
    BY <1>1 DEF Silent
  <2>4. inbox \in Seq(Message) /\ Msg(op) \in Message
    BY <1>1, SilentFacts, MsgFacts DEF SafeInv
  <2>5. Append(inbox, Msg(op)) = inbox \o <<Msg(op)>>
        /\ (inbox \o <<Msg(op)>>) \o <<>> = inbox \o <<Msg(op)>>
    <3>1. Append(inbox, Msg(op)) = inbox \o <<Msg(op)>> /\ Append(inbox, Msg(op)) \in Seq(Message)
      BY <2>4, AppendJoins
    <3>2. (inbox \o <<Msg(op)>>) \o <<>> = inbox \o <<Msg(op)>>
      BY <3>1, EmptyJoins
    <3> QED BY <3>1, <3>2
  <2>6. <<>> \in Seq(FromPeer)
    OBVIOUS
  <2>7. Silent(popped')
    BY <1>1, <2>2
  <2> QED BY <2>1, <2>2, <2>3, <2>5, <2>6, <2>7
<1>5. ASSUME NetReceivePeer PROVE MailUp(op)'
  <2> DEFINE msg == [from |-> NoConn, op |-> "line", line |-> peerNet[1]]
  <2>1. inbox' = Append(inbox, msg) /\ msg \in FromPeer
    BY <1>5, ReceiptMoves
  <2> HIDE DEF msg
  <2>2. UNCHANGED <<up, popped>>
    BY <1>5 DEF NetReceivePeer, joinerVars, gameVars
  <2>3. Silent(inbox')
    BY <1>1, <2>1, SilentFacts
  <2> QED BY <1>1, <2>2, <2>3 DEF MailUp
<1>6. ASSUME Pop PROVE MailUp(op)'
  <2>1. inbox # <<>> /\ popped' = <<Head(inbox)>> /\ inbox' = Tail(inbox) /\ UNCHANGED up
    BY <1>6 DEF Pop, joinerVars
  <2>2. Silent(popped') /\ Silent(inbox')
    BY <1>1, <2>1, SilentFacts
  <2> QED BY <1>1, <2>1, <2>2 DEF MailUp
<1>7. ASSUME OnLine PROVE MailUp(op)'
  <2>1. popped' = <<>> /\ UNCHANGED <<up, inbox>>
    BY <1>7 DEF OnLine, Dispatch, netVars, joinerVars
  <2>2. Silent(popped')
    BY <2>1, SilentFacts
  <2> QED BY <1>1, <2>1, <2>2 DEF MailUp
<1>8. ASSUME UNCHANGED <<up, inbox, popped>> PROVE MailUp(op)'
  BY <1>1, <1>8 DEF MailUp
<1>9. ~Seat
  BY DEF Seat
<1> QED BY <1>3, <1>4, <1>5, <1>6, <1>7, <1>8, <1>9, MailStill

LEMMA MailInNext ==
  ASSUME SafeInv, Next, occ # NoConn, ~Leave, ~JRequest, ~JAnnounce,
         NEW op \in {"request", "ready"}, NEW u \in Seq(FromPeer), NEW v \in Seq(FromPeer),
         MailIn(op, u, v)
  PROVE  /\ ~OnRequest /\ ~OnReady /\ ~NetReceiveJoiner
         /\ NetReceivePeer =>
              \E w \in Seq(FromPeer) :
                /\ w = Append(v, [from |-> NoConn, op |-> "line", line |-> peerNet[1]])
                /\ MailIn(op, u, w)'
         /\ Pop => (MailOut(op)' /\ inbox' = v) \/ \E t \in Seq(FromPeer) : MailIn(op, t, v)'
         /\ ~NetReceivePeer /\ ~Pop => MailIn(op, u, v)'
<1>1. /\ up = <<>> /\ Silent(u) /\ Silent(v) /\ inbox = u \o <<Msg(op)>> \o v
      /\ Silent(popped)
  BY DEF MailIn
<1>2. popped # <<>> => popped[1].op = "line"
  BY <1>1, SilentFacts
<1>3. ~OnRequest /\ ~OnReady /\ ~NetReceiveJoiner
  BY <1>1, <1>2 DEF OnRequest, OnReady, Dispatch, NetReceiveJoiner
<1>4. u \in Seq(Message) /\ v \in Seq(Message) /\ <<Msg(op)>> \in Seq(Message)
      /\ Msg(op) \in Message /\ Msg(op) \notin FromPeer
  BY <1>1, SilentFacts, MsgFacts DEF SafeInv
<1>5. ~Seat /\ UNCHANGED occ
  BY DEF Seat, Next, HostAppend, HostDelete, PeerEdit, NetReceivePeer, NetReceiveJoiner, Reconcile,
         HostPoll, Pop, OnLine, OnRequest, OnReady, JRequest, JLoad, JAnnounce, JReceive, JDrain, JPoll,
         netVars
<1>6. Msg(op)' = Msg(op)
  BY <1>5 DEF Msg
<1> DEFINE x == Msg(op)
           uX == u \o <<x>>
<1>7. uX \in Seq(Message) /\ inbox = uX \o v /\ uX # <<>>
  <2>1. uX \in Seq(Message) /\ Len(uX) = Len(u) + 1 /\ Len(u) \in Nat
    BY <1>4, JoinShape
  <2> QED BY <1>1, <2>1
<1>8. ASSUME NetReceivePeer
      PROVE  \E w \in Seq(FromPeer) :
                /\ w = Append(v, [from |-> NoConn, op |-> "line", line |-> peerNet[1]])
                /\ MailIn(op, u, w)'
  <2> DEFINE msg == [from |-> NoConn, op |-> "line", line |-> peerNet[1]]
  <2>1. inbox' = Append(inbox, msg) /\ msg \in FromPeer /\ msg \in Message
    BY <1>8, ReceiptMoves
  <2>2. UNCHANGED <<up, popped>>
    BY <1>8 DEF NetReceivePeer, joinerVars, gameVars
  <2> HIDE DEF msg
  <2>3. PICK w \in Seq(FromPeer) : w = Append(v, msg)
    <3>1. Append(v, msg) \in Seq(FromPeer)
      BY <2>1, AppendJoins
    <3> QED BY <3>1
  <2>4. Silent(w)
    BY <1>1, <2>1, <2>3, SilentFacts
  <2>5. Append(uX \o v, msg) = uX \o w
    <3> HIDE DEF uX
    <3>1. uX \o v \in Seq(Message) /\ <<msg>> \in Seq(Message)
          /\ Append(v, msg) = v \o <<msg>>
      BY <1>4, <1>7, <2>1, JoinShape, AppendJoins
    <3>2. Append(uX \o v, msg) = (uX \o v) \o <<msg>>
      BY <2>1, <3>1, AppendJoins
    <3>3. (uX \o v) \o <<msg>> = uX \o (v \o <<msg>>)
      BY <1>4, <1>7, <3>1, JoinAssoc
    <3> QED BY <2>3, <3>1, <3>2, <3>3
  <2>6. inbox' = u \o <<Msg(op)>> \o w
    BY <1>7, <2>1, <2>5
  <2>7. MailIn(op, u, w)'
    BY <1>1, <1>6, <2>2, <2>4, <2>6 DEF MailIn
  <2> QED BY <2>3, <2>7 DEF msg
<1>9. ASSUME Pop PROVE (MailOut(op)' /\ inbox' = v) \/ \E t \in Seq(FromPeer) : MailIn(op, t, v)'
  <2>1. inbox # <<>> /\ popped' = <<Head(inbox)>> /\ inbox' = Tail(inbox) /\ UNCHANGED up
    BY <1>9 DEF Pop, joinerVars
  <2>2. inbox \in Seq(Message) /\ Head(inbox) = inbox[1]
    BY <1>4, <1>7, <2>1, JoinShape, HeadJoins
  <2>3. CASE u = <<>>
    <3>1. uX = <<x>>
      BY <1>4, <2>3, EmptyJoins
    <3>2. inbox[1] = x /\ Tail(inbox) = v
      <4>1. <<x>> # <<>> /\ <<x>>[1] = x /\ Tail(<<x>>) = <<>>
        OBVIOUS
      <4> HIDE DEF x
      <4>2. (<<x>> \o v)[1] = <<x>>[1] /\ Tail(<<x>> \o v) = Tail(<<x>>) \o v
        BY <1>4, <4>1, HeadOfJoin DEF x
      <4>3. <<>> \o v = v
        BY <1>4, EmptyJoins
      <4> QED BY <1>7, <3>1, <4>1, <4>2, <4>3
    <3>3. popped' = <<Msg(op)>> /\ inbox' = v
      BY <2>1, <2>2, <3>2
    <3>4. MailOut(op)'
      BY <1>1, <1>6, <2>1, <3>3 DEF MailOut
    <3> QED BY <3>3, <3>4
  <2>4. CASE u # <<>>
    <3>1. u[1] \in FromPeer /\ Silent(Tail(u)) /\ Silent(<<u[1]>>) /\ Tail(u) \in Seq(FromPeer)
      BY <1>1, <2>4, SilentFacts DEF Silent
    <3>2. uX[1] = u[1] /\ Tail(uX) = Tail(u) \o <<x>>
      BY <1>4, <2>4, HeadOfJoin
    <3>3. inbox[1] = uX[1] /\ Tail(inbox) = Tail(uX) \o v
      <4> HIDE DEF uX
      <4> QED BY <1>4, <1>7, HeadOfJoin
    <3>4. PICK t \in Seq(FromPeer) : t = Tail(u)
      BY <3>1
    <3>5. inbox' = t \o <<Msg(op)>> \o v /\ popped' = <<u[1]>>
      BY <2>1, <2>2, <3>2, <3>3, <3>4
    <3>6. Silent(popped') /\ Silent(t)
      BY <3>1, <3>4, <3>5
    <3>7. MailIn(op, t, v)'
      BY <1>1, <1>6, <2>1, <3>5, <3>6 DEF MailIn
    <3> QED BY <3>7
  <2> QED BY <2>3, <2>4
<1>10. ASSUME OnLine PROVE MailIn(op, u, v)'
  <2>1. popped' = <<>> /\ UNCHANGED <<up, inbox>>
    BY <1>10 DEF OnLine, Dispatch, netVars, joinerVars
  <2>2. Silent(popped')
    BY <2>1, SilentFacts
  <2> QED BY <1>1, <1>6, <2>1, <2>2 DEF MailIn
<1>11. ASSUME UNCHANGED <<up, inbox, popped>> PROVE MailIn(op, u, v)'
  BY <1>1, <1>6, <1>11 DEF MailIn
<1> QED BY <1>3, <1>5, <1>8, <1>9, <1>10, <1>11, MailStill

LEMMA MailOutNext ==
  ASSUME SafeInv, Next, occ # NoConn, ~Leave, ~JRequest, ~JAnnounce,
         NEW op \in {"request", "ready"}, MailOut(op)
  PROVE  /\ ~NetReceiveJoiner /\ ~Pop /\ ~OnLine /\ ~HostPoll /\ ~Reconcile
         /\ popped[1].from = occ
         /\ op = "request" => ~OnReady
         /\ op = "ready" => ~OnRequest
         /\ OnRequest \/ OnReady => NoMail' /\ UNCHANGED inbox
         /\ ~OnRequest /\ ~OnReady => MailOut(op)' /\ (NetReceivePeer \/ UNCHANGED inbox)
<1>1. up = <<>> /\ Silent(inbox) /\ popped = <<Msg(op)>>
  BY DEF MailOut
<1>2. popped # <<>> /\ popped[1] = Msg(op) /\ popped[1].op = op /\ popped[1].from = occ
  BY <1>1, MsgFacts DEF SafeInv
<1>3. ~NetReceiveJoiner /\ ~Pop /\ ~OnLine /\ ~HostPoll /\ ~Reconcile
  BY <1>1, <1>2 DEF NetReceiveJoiner, Pop, OnLine, Dispatch, HostPoll, Reconcile
<1>4. (op = "request" => ~OnReady) /\ (op = "ready" => ~OnRequest)
  BY <1>2 DEF OnRequest, OnReady, Dispatch
<1>5. ~Seat /\ UNCHANGED occ
  BY DEF Seat, Next, HostAppend, HostDelete, PeerEdit, NetReceivePeer, NetReceiveJoiner, Reconcile,
         HostPoll, Pop, OnLine, OnRequest, OnReady, JRequest, JLoad, JAnnounce, JReceive, JDrain, JPoll,
         netVars
<1>6. Msg(op)' = Msg(op)
  BY <1>5 DEF Msg
<1>7. ASSUME OnRequest \/ OnReady PROVE NoMail' /\ UNCHANGED inbox
  <2>1. popped' = <<>> /\ UNCHANGED <<up, inbox>>
    BY <1>7 DEF OnRequest, OnReady, Dispatch, netVars, joinerVars
  <2>2. Silent(popped') /\ Silent(inbox')
    BY <1>1, <2>1, SilentFacts
  <2> QED BY <1>1, <2>1, <2>2 DEF NoMail
<1>8. ASSUME NetReceivePeer PROVE MailOut(op)'
  <2> DEFINE msg == [from |-> NoConn, op |-> "line", line |-> peerNet[1]]
  <2>1. inbox' = Append(inbox, msg) /\ msg \in FromPeer
    BY <1>8, ReceiptMoves
  <2> HIDE DEF msg
  <2>2. UNCHANGED <<up, popped>>
    BY <1>8 DEF NetReceivePeer, joinerVars, gameVars
  <2>3. Silent(inbox')
    BY <1>1, <2>1, SilentFacts
  <2> QED BY <1>1, <1>6, <2>2, <2>3 DEF MailOut
<1>9. ASSUME UNCHANGED <<up, inbox, popped>> PROVE MailOut(op)' /\ UNCHANGED inbox
  BY <1>1, <1>6, <1>9 DEF MailOut
<1> QED BY <1>2, <1>3, <1>4, <1>5, <1>7, <1>8, <1>9, MailStill

-----------------------------------------------------------------------------
(* The two sides of the balance, while the slot keeps its occupant.        *)

LEMMA MurkyGrows ==
  ASSUME Next, ~Leave
  PROVE  murky \subseteq murky'
BY DEF Next, HostAppend, HostDelete, PeerEdit, NetReceivePeer, NetReceiveJoiner, Seat, Reconcile,
       HostPoll, Pop, OnLine, OnRequest, OnReady, JRequest, JLoad, JAnnounce, JReceive, JDrain, JPoll,
       takenVars

\* What the joiner will have changes with the relay and the host's broadcasts only.
LEMMA JoinerNext ==
  ASSUME SafeInv, TypeOK', Next, occ # NoConn, ~Leave, Relayed, ~OnReady, stage = "announced",
         NEW r \in Rows \ murky'
  PROVE  /\ NetReceivePeer => JoinerWillHave(r)' = JoinerWillHave(r) + Worth(peerNet[1], r)
         /\ HostPoll /\ ready =>
              JoinerWillHave(r)' = JoinerWillHave(r) + (Bit(r \in fresh) - Bit(r \in gone))
         /\ ~NetReceivePeer /\ ~(HostPoll /\ ready) => JoinerWillHave(r)' = JoinerWillHave(r)
<1>1. TypeOK /\ r \in Rows
  BY DEF SafeInv
<1>2. eligible = occ /\ Relaying(murky, jGot, link, peerNet, Straddling)
  BY RelayedIs
<1>3. ASSUME NetReceivePeer PROVE JoinerWillHave(r)' = JoinerWillHave(r) + Worth(peerNet[1], r)
  <2> DEFINE line == peerNet[1]
  <2>1. line \in Line /\ Head(peerNet) = line /\ line \in AnyLine
    BY <1>3, ReceiptMoves
  <2>2. UNCHANGED <<jStore, jTombs, jPark>> /\ link' = Append(link, line)
    BY <1>2, <1>3, <2>1 DEF NetReceivePeer, Relays, joinerVars, arrayVars
  <2> HIDE DEF line
  <2>3. link \in Seq(Line)
    BY <1>1, TypeFacts
  <2>4. link' = link \o <<line>> /\ <<line>> \in Seq(Line)
    BY <2>1, <2>2, <2>3, AppendJoins
  <2>5. Pending(<<line>>, r) = Worth(line, r)
    BY <2>1, PendingOne
  <2> QED BY <1>1, <2>2, <2>4, <2>5, SentBalance DEF line
<1>4. ASSUME HostPoll, ready
      PROVE  JoinerWillHave(r)' = JoinerWillHave(r) + (Bit(r \in fresh) - Bit(r \in gone))
  <2> DEFINE s == SetToSeq({Delete(q) : q \in gone}) \o SetToSeq({Row(q) : q \in fresh})
  <2>1. s \in Seq(Line) /\ Pending(s, r) = Bit(r \in fresh) - Bit(r \in gone)
    BY <1>1, PollLines
  <2>2. Send(s) /\ UNCHANGED <<jStore, jTombs, jPark>>
    BY <1>4 DEF HostPoll, joinerVars, arrayVars
  <2> HIDE DEF s
  <2>3. link' = link \o s
    BY <1>4, <2>2 DEF Send
  <2> QED BY <1>1, <2>1, <2>2, <2>3, SentBalance
<1>5. ASSUME JReceive PROVE JoinerWillHave(r)' = JoinerWillHave(r)
  BY <1>1, <1>2, <1>5, TakenBalance DEF Relaying
<1>6. ASSUME JDrain \/ JPoll PROVE JoinerWillHave(r)' = JoinerWillHave(r)
  BY <1>1, <1>6, SettleBalance
<1>7. ASSUME UNCHANGED <<jStore, jTombs, jPark, link>>
      PROVE  JoinerWillHave(r)' = JoinerWillHave(r)
  BY <1>7, JoinerQuiet
<1>8. \/ NetReceivePeer \/ (HostPoll /\ ready) \/ JReceive \/ JDrain \/ JPoll
      \/ UNCHANGED <<jStore, jTombs, jPark, link>>
  BY DEF Next, HostAppend, HostDelete, PeerEdit, NetReceiveJoiner, Seat, Reconcile, HostPoll, Send,
         Pop, OnLine, OnRequest, JRequest, JLoad, JAnnounce, joinerVars, arrayVars
<1> QED BY <1>3, <1>4, <1>5, <1>6, <1>7, <1>8

\* What the host will have changes by as much.
LEMMA HostNext ==
  ASSUME SafeInv, TypeOK', Next, ~Leave, ~NetReceiveJoiner, ~OnRequest, ~OnReady, NEW r \in Rows
  PROVE  /\ NetReceivePeer => HostWillHave(r)' = HostWillHave(r) + Worth(peerNet[1], r)
         /\ HostPoll => HostWillHave(r)' = HostWillHave(r) + (Bit(r \in fresh) - Bit(r \in gone))
         /\ ~NetReceivePeer /\ ~HostPoll => HostWillHave(r)' = HostWillHave(r)
<1>1. \/ \E q \in HostRows : HostAppend(q) \/ HostDelete(q)
      \/ NetReceivePeer \/ HostPoll \/ Pop \/ OnLine
      \/ UNCHANGED <<laneVars, popped, inbox>>
  BY DEF Next, PeerEdit, Seat, Reconcile, JRequest, JLoad, JAnnounce, JReceive, JDrain, JPoll,
         netVars, gameVars
<1>2. ASSUME NEW q \in HostRows, HostAppend(q) \/ HostDelete(q)
      PROVE  HostWillHave(r)' = HostWillHave(r)
  BY <1>2, HostEditBalance
<1>3. (Pop => HostWillHave(r)' = HostWillHave(r)) /\ (OnLine => HostWillHave(r)' = HostWillHave(r))
  BY PopBalance, OnLineBalance
<1>4. UNCHANGED <<laneVars, popped, inbox>> => HostWillHave(r)' = HostWillHave(r)
  BY HostQuiet
<1>5. NetReceivePeer => HostWillHave(r)' = HostWillHave(r) + Worth(peerNet[1], r)
  BY ReceiptBalance
<1>6. HostPoll => HostWillHave(r)' = HostWillHave(r) + (Bit(r \in fresh) - Bit(r \in gone))
  BY PollBalance
<1> QED BY <1>1, <1>2, <1>3, <1>4, <1>5, <1>6

\* A joiner to which nothing was sent has what it loaded.
LEMMA JoinerHolds ==
  ASSUME TypeOK, Closed
  PROVE  \A r \in Rows : JoinerWillHave(r) = jStore[r] /\ jStore[r] \in Int
<1> TAKE r \in Rows
<1>1. link = <<>> /\ jPark = <<>> /\ jTombs = {}
  BY DEF Closed
<1>2. jPark \in Seq(Rows) /\ jStore[r] \in Int
  BY TypeFacts
<1>3. Parked(r) = 0
  <2>1. Parked(r) = Times(jPark, Len(jPark), r)
    BY <1>2, ParkedTimes
  <2>2. Len(jPark) = 0
    BY <1>1
  <2> QED BY <2>1, <2>2, CountTo
<1>4. Owned(r) = jStore[r] - Bit(r \in jTombs) + Parked(r)
  BY HeldIs
<1>5. Bit(r \in jTombs) = 0
  BY <1>1 DEF Bit
<1>6. Pending(link, r) = 0
  BY <1>1, PendingNone
<1>7. JoinerWillHave(r) = Owned(r) + Pending(link, r)
  BY JoinerWillHaveIs
<1> QED BY <1>2, <1>3, <1>4, <1>5, <1>6, <1>7

-----------------------------------------------------------------------------
(* From seat to seed.                                                      *)

\* Each stage leads to itself or to the next.
LEMMA MenuNext ==
  ASSUME SafeInv, Next, occ # NoConn, ~Leave, known \in {NoConn, occ}, stage = "menu", Menu
  PROVE  IF stage' = "asked" THEN Asking' ELSE stage' = "menu" /\ Menu'
<1>1. Closed /\ NoMail /\ ~snap.valid /\ ~blob.valid
  BY DEF Menu
<1>2. ~OnRequest /\ ~OnReady /\ ~NetReceiveJoiner /\ ~JLoad /\ ~JAnnounce
  BY <1>1, NoMailNext DEF JLoad, JAnnounce
<1>3. Closed' /\ UNCHANGED <<snap, blob>>
  BY <1>1, <1>2, ClosedNext, KnownNext
<1>4. CASE JRequest
  <2>1. MailUp("request")' /\ stage' = "asked"
    BY <1>1, <1>4, NoMailNext DEF JRequest
  <2> QED BY <1>1, <1>3, <2>1 DEF Asking
<1>5. CASE ~JRequest
  <2>1. NoMail' /\ UNCHANGED stage
    BY <1>1, <1>2, <1>5, NoMailNext, KnownNext
  <2> QED BY <1>1, <1>3, <2>1 DEF Menu
<1> QED BY <1>4, <1>5

LEMMA AskingNext ==
  ASSUME SafeInv, Next, occ # NoConn, ~Leave, known \in {NoConn, occ}, stage = "asked", Asking
  PROVE  UNCHANGED stage /\ (Asking' \/ Served')
<1>1. /\ Closed /\ ~snap.valid /\ ~blob.valid
      /\ MailUp("request") \/ MailOut("request")
           \/ \E u, v \in Seq(FromPeer) : MailIn("request", u, v)
  BY DEF Asking
<1>2. ~JRequest /\ ~JLoad /\ ~JAnnounce /\ UNCHANGED stage
  BY <1>1, KnownNext DEF JRequest, JLoad, JAnnounce
<1>3. ASSUME ~OnRequest, ~OnReady, ~(NetReceiveJoiner /\ Head(up) = "ready")
      PROVE  Closed' /\ ~snap'.valid /\ ~blob'.valid
  BY <1>1, <1>2, <1>3, ClosedNext, KnownNext
<1>4. CASE MailUp("request")
  <2>1. ~OnRequest /\ ~OnReady /\ (NetReceiveJoiner => Head(up) # "ready")
    BY <1>2, <1>4, MailUpNext
  <2>2. ASSUME NetReceiveJoiner PROVE Asking'
    <3>1. /\ inbox \in Seq(FromPeer) /\ <<>> \in Seq(FromPeer)
          /\ inbox' = inbox \o <<Msg("request")>> \o <<>> /\ up' = <<>>
          /\ Silent(popped')
      BY <1>2, <1>4, <2>2, MailUpNext
    <3>2. PICK u \in Seq(FromPeer) : u = inbox
      BY <3>1
    <3>3. Msg("request")' = Msg("request")
      BY KnownNext DEF Msg
    <3>4. MailIn("request", u, <<>>)'
      BY <3>1, <3>2, <3>3 DEF MailIn, Silent
    <3> QED BY <1>3, <2>1, <3>1, <3>4 DEF Asking
  <2>3. ASSUME ~NetReceiveJoiner PROVE Asking'
    <3>1. MailUp("request")'
      BY <1>2, <1>4, <2>3, MailUpNext
    <3> QED BY <1>3, <2>1, <3>1 DEF Asking
  <2> QED BY <1>2, <2>2, <2>3
<1>5. ASSUME NEW u \in Seq(FromPeer), NEW v \in Seq(FromPeer), MailIn("request", u, v)
      PROVE  Asking'
  <2>1. ~OnRequest /\ ~OnReady /\ ~NetReceiveJoiner
    BY <1>2, <1>5, MailInNext
  <2>2. MailOut("request")' \/ \E t, w \in Seq(FromPeer) : MailIn("request", t, w)'
    BY <1>2, <1>5, MailInNext
  <2>3. Closed' /\ ~snap'.valid /\ ~blob'.valid
    BY <1>3, <2>1
  <2> QED BY <2>2, <2>3 DEF Asking
<1>6. CASE MailOut("request")
  <2>1. ~OnReady /\ ~NetReceiveJoiner
    BY <1>2, <1>6, MailOutNext
  <2>2. CASE OnRequest
    <3>1. NoMail'
      BY <1>2, <1>6, <2>2, MailOutNext
    <3>2. snap'.valid => blob' = snap'
      BY <1>1, <2>2, SnapFacts DEF OnRequest, Captured, Fallback
    <3>3. Closed'
      BY <1>1, <2>2 DEF Closed, OnRequest, netVars, joinerVars, arrayVars, takenVars
    <3> QED BY <1>2, <3>1, <3>2, <3>3 DEF Served
  <2>3. CASE ~OnRequest
    <3>1. MailOut("request")'
      BY <1>2, <1>6, <2>1, <2>3, MailOutNext
    <3>2. Closed' /\ ~snap'.valid /\ ~blob'.valid
      BY <1>3, <2>1, <2>3
    <3> QED BY <1>2, <3>1, <3>2 DEF Asking
  <2> QED BY <2>2, <2>3
<1> QED BY <1>1, <1>2, <1>4, <1>5, <1>6

LEMMA ServedNext ==
  ASSUME SafeInv, Next, occ # NoConn, ~Leave, known \in {NoConn, occ}, stage = "asked", Served
  PROVE  IF stage' = "loaded" THEN Loaded' ELSE stage' = "asked" /\ Served'
<1>1. Closed /\ NoMail /\ (snap.valid => blob = snap)
  BY DEF Served
<1>2. ~OnRequest /\ ~OnReady /\ ~NetReceiveJoiner /\ ~JRequest /\ ~JAnnounce
  BY <1>1, NoMailNext DEF JRequest, JAnnounce
<1>3. Closed' /\ UNCHANGED snap /\ NoMail'
  BY <1>1, <1>2, ClosedNext, KnownNext, NoMailNext
<1>4. CASE JLoad
  <2>1. jStore' = blob.n /\ stage' = "loaded"
    BY <1>4 DEF JLoad
  <2> QED BY <1>1, <1>3, <2>1 DEF Loaded, Holding
<1>5. CASE ~JLoad
  <2>1. UNCHANGED <<blob, stage>>
    BY <1>2, <1>5, KnownNext
  <2> QED BY <1>1, <1>3, <2>1 DEF Served
<1> QED BY <1>4, <1>5

LEMMA LoadedNext ==
  ASSUME SafeInv, Next, occ # NoConn, ~Leave, known \in {NoConn, occ}, stage = "loaded", Loaded
  PROVE  IF stage' = "announced" THEN Calling' ELSE stage' = "loaded" /\ Loaded'
<1>1. Closed /\ NoMail /\ Holding
  BY DEF Loaded
<1>2. ~OnRequest /\ ~OnReady /\ ~NetReceiveJoiner /\ ~JRequest /\ ~JLoad
  BY <1>1, NoMailNext DEF JRequest, JLoad
<1>3. Closed' /\ UNCHANGED <<snap, jStore>>
  BY <1>1, <1>2, ClosedNext, KnownNext
<1>4. CASE JAnnounce
  <2>1. MailUp("ready")' /\ stage' = "announced"
    BY <1>1, <1>4, NoMailNext DEF JAnnounce
  <2> QED BY <1>1, <1>3, <2>1 DEF Calling, Holding
<1>5. CASE ~JAnnounce
  <2>1. NoMail' /\ UNCHANGED stage
    BY <1>1, <1>2, <1>5, NoMailNext, KnownNext
  <2> QED BY <1>1, <1>3, <2>1 DEF Loaded, Holding
<1> QED BY <1>4, <1>5

LEMMA CallingNext ==
  ASSUME SafeInv, SafeInv', Next, occ # NoConn, ~Leave, known \in {NoConn, occ},
         stage = "announced", Calling
  PROVE  Calling' \/ \E v \in Seq(FromPeer) : Heard(v)'
<1>0. TypeOK /\ TypeOK'
  BY DEF SafeInv
<1>1. Closed /\ MailUp("ready") /\ Holding
  BY DEF Calling
<1>2. ~JRequest /\ ~JLoad /\ ~JAnnounce
  BY DEF JRequest, JLoad, JAnnounce
<1>3. ~OnRequest /\ ~OnReady
  BY <1>1, <1>2, MailUpNext
<1>4. CASE ~NetReceiveJoiner
  <2>1. Closed' /\ UNCHANGED <<snap, jStore>> /\ MailUp("ready")'
    BY <1>1, <1>2, <1>3, <1>4, ClosedNext, KnownNext, MailUpNext
  <2> QED BY <1>1, <2>1 DEF Calling, Holding
<1>5. CASE NetReceiveJoiner
  <2>1. /\ inbox \in Seq(FromPeer) /\ <<>> \in Seq(FromPeer)
        /\ inbox' = inbox \o <<Msg("ready")>> \o <<>> /\ up' = <<>>
        /\ Silent(popped') /\ Head(up) = "ready"
    BY <1>1, <1>2, <1>5, MailUpNext
  <2>2. PICK u \in Seq(FromPeer) : u = inbox
    BY <2>1
  <2>3. Msg("ready")' = Msg("ready") /\ UNCHANGED occ
    BY KnownNext DEF Msg
  <2>4. MailIn("ready", u, <<>>)'
    BY <2>1, <2>2, <2>3 DEF MailIn, Silent
  <2>5. /\ eligible' = occ /\ murky' = murky \cup Straddling
        /\ UNCHANGED <<ready, seeded, snap, peerNet, jGot, link, jStore, jTombs, jPark>>
    BY <1>5, <2>1 DEF NetReceiveJoiner, gameVars, peerVars, arrayVars
  <2>6. Relayed'
    <3>1. Runs(Turns(murky'), 0, <<>>, 0)
      BY RunsNone
    <3>2. link' = <<>> /\ jGot' = 0 /\ Straddling \subseteq murky'
      BY <1>1, <2>5 DEF Closed
    <3>3. Straddling' = Straddling
      BY <2>5 DEF Straddling
    <3>4. Relaying(murky', jGot', link', peerNet', Straddling')
      BY <3>1, <3>2, <3>3 DEF Relaying
    <3> QED BY <2>3, <2>5, <3>4, RelayedIs
  <2>7. Behind(LinesIn(<<>>))'
    <3>1. ASSUME snap'.valid, NEW r \in Rows \ murky'
          PROVE  JoinerWillHave(r)' = snap'.n[r] + Pending(LinesIn(<<>>), r)
      <4>1. JoinerWillHave(r)' = JoinerWillHave(r)
        BY <2>5, JoinerQuiet
      <4>2. JoinerWillHave(r) = jStore[r] /\ jStore[r] \in Int
        BY <1>0, <1>1, JoinerHolds
      <4>3. Pending(LinesIn(<<>>), r) = 0
        BY LinesInFew, PendingNone
      <4> QED BY <1>1, <2>5, <3>1, <4>1, <4>2, <4>3 DEF Holding
    <3> QED BY <3>1 DEF Behind
  <2>8. ~ready' /\ ~seeded'
    BY <1>1, <2>5 DEF Closed
  <2>9. Heard(<<>>)'
    BY <2>1, <2>4, <2>6, <2>7, <2>8 DEF Heard
  <2> QED BY <2>1, <2>9
<1> QED BY <1>4, <1>5

LEMMA HeardNext ==
  ASSUME SafeInv, SafeInv', Next, occ # NoConn, ~Leave, known \in {NoConn, occ},
         stage = "announced", NEW v \in Seq(FromPeer), Heard(v)
  PROVE  Answering' \/ \E w \in Seq(FromPeer) : Heard(w)'
<1>0. TypeOK /\ TypeOK'
  BY DEF SafeInv
<1>1. Relayed /\ ~ready /\ ~seeded /\ Behind(LinesIn(v))
  BY DEF Heard
<1>2. PICK u \in Seq(FromPeer) : MailIn("ready", u, v)
  BY DEF Heard
<1>3. ~JRequest /\ ~JLoad /\ ~JAnnounce
  BY DEF JRequest, JLoad, JAnnounce
<1>4. ~OnRequest /\ ~OnReady /\ ~NetReceiveJoiner /\ up = <<>>
  BY <1>2, <1>3, MailInNext DEF MailIn
<1>5. Relayed' /\ ~ready' /\ ~seeded' /\ UNCHANGED snap
  BY <1>1, <1>4, RelayedNext, KnownNext
<1>6. ASSUME snap.valid, NEW r \in Rows \ murky'
      PROVE  JoinerWillHave(r) = snap.n[r] + Pending(LinesIn(v), r)
  BY <1>1, <1>6, MurkyGrows DEF Behind
<1>7. CASE NetReceivePeer
  <2> DEFINE msg == [from |-> NoConn, op |-> "line", line |-> peerNet[1]]
  <2>1. PICK w \in Seq(FromPeer) : w = Append(v, msg) /\ MailIn("ready", u, w)'
    BY <1>2, <1>3, <1>7, MailInNext
  <2>2. msg \in Message /\ LineOf(msg) = peerNet[1]
    BY <1>7, ReceiptMoves
  <2> HIDE DEF msg
  <2>3. ASSUME snap.valid, NEW r \in Rows \ murky'
        PROVE  JoinerWillHave(r)' = snap'.n[r] + Pending(LinesIn(w), r)
    <3>1. v \in Seq(Message)
      BY <1>2, SilentFacts DEF MailIn
    <3>2. LinesIn(w) = Append(LinesIn(v), peerNet[1])
          /\ LinesIn(v) \in Seq(AnyLine) /\ peerNet[1] \in AnyLine
      BY <2>1, <2>2, <3>1, LinesInAppend, LinesInShape, MessageFields
    <3>3. Pending(LinesIn(w), r) = Pending(LinesIn(v), r) + Worth(peerNet[1], r)
          /\ Pending(LinesIn(v), r) \in Int /\ Worth(peerNet[1], r) \in Int
      <4>1. Worth(peerNet[1], r) \in {-1, 0, 1}
        BY <3>2, WorthType
      <4>2. Worth(peerNet[1], r) \in Int
        BY <4>1
      <4>3. Pending(LinesIn(v), r) \in Int
        <5>1. 0 \in Int
          OBVIOUS
        <5> QED BY <3>2, <5>1, SumIsPending
      <4>4. Pending(LinesIn(w), r) = Pending(LinesIn(v), r) + Worth(peerNet[1], r)
        BY <3>2, PendingAppend
      <4> QED BY <4>2, <4>3, <4>4
    <3>4. JoinerWillHave(r)' = JoinerWillHave(r) + Worth(peerNet[1], r)
      BY <1>0, <1>1, <1>4, <1>7, JoinerNext
    <3>5. snap.n[r] \in Int
      BY <1>0, <2>3, SeedLines
    <3> QED BY <1>5, <1>6, <2>3, <3>3, <3>4, <3>5
  <2>4. Behind(LinesIn(w))'
    BY <1>5, <2>3 DEF Behind
  <2>5. Heard(w)'
    BY <1>5, <2>1, <2>4 DEF Heard
  <2> QED BY <2>5
<1>8. CASE ~NetReceivePeer
  <2>1. ASSUME snap.valid, NEW r \in Rows \ murky'
        PROVE  JoinerWillHave(r)' = snap'.n[r] + Pending(LinesIn(v), r)
    <3>1. JoinerWillHave(r)' = JoinerWillHave(r)
      BY <1>0, <1>1, <1>4, <1>8, JoinerNext
    <3> QED BY <1>5, <1>6, <2>1, <3>1
  <2>2. Behind(LinesIn(v))'
    BY <1>5, <2>1 DEF Behind
  <2>3. (MailOut("ready")' /\ inbox' = v) \/ \E t \in Seq(FromPeer) : MailIn("ready", t, v)'
    BY <1>2, <1>3, <1>8, MailInNext
  <2>4. ASSUME MailOut("ready")', inbox' = v PROVE Answering'
    <3>1. Behind(LinesIn(inbox))'
      BY <1>5, <2>1, <2>4 DEF Behind
    <3> QED BY <1>5, <2>4, <3>1 DEF Answering
  <2>5. ASSUME NEW t \in Seq(FromPeer), MailIn("ready", t, v)' PROVE Heard(v)'
    BY <1>5, <2>2, <2>5 DEF Heard
  <2> QED BY <2>3, <2>4, <2>5
<1> QED BY <1>7, <1>8

LEMMA AnsweringNext ==
  ASSUME SafeInv, SafeInv', Next, occ # NoConn, ~Leave, known \in {NoConn, occ},
         stage = "announced", Answering
  PROVE  Answering' \/ Answered'
<1>0. TypeOK /\ TypeOK'
  BY DEF SafeInv
<1>1. Relayed /\ ~ready /\ ~seeded /\ MailOut("ready") /\ Behind(LinesIn(inbox))
  BY DEF Answering
<1>2. ~JRequest /\ ~JLoad /\ ~JAnnounce
  BY DEF JRequest, JLoad, JAnnounce
<1>3. ~NetReceiveJoiner /\ ~HostPoll /\ ~OnRequest /\ popped[1].from = occ /\ up = <<>>
  BY <1>1, <1>2, MailOutNext DEF MailOut
<1>4. Relayed'
  BY <1>1, <1>3, RelayedNext
<1>5. ASSUME snap.valid, NEW r \in Rows \ murky'
      PROVE  /\ JoinerWillHave(r) = snap.n[r] + Pending(LinesIn(inbox), r)
             /\ snap.n[r] \in Int /\ Pending(LinesIn(inbox), r) \in Int /\ r \in Rows
  <2>1. snap.n[r] \in Int /\ Pending(LinesIn(inbox), r) \in Int
    BY <1>0, <1>5, SeedLines, HeldInt
  <2> QED BY <1>1, <1>5, <2>1, MurkyGrows DEF Behind
<1>6. CASE OnReady
  <2>1. /\ ready' = TRUE /\ (seeded' => snap.valid /\ link' = link \o Seed)
        /\ murky' = murky \cup fresh \cup gone \cup tombs
        /\ UNCHANGED <<laneVars, inbox, jStore, jTombs, jPark>>
    BY <1>1, <1>3, <1>6 DEF OnReady, netVars, joinerVars, arrayVars
  <2>2. NoMail'
    BY <1>1, <1>2, <1>6, MailOutNext
  <2>3. snap.valid => Seed \in Seq(Line)
    BY <1>0, SeedLines
  <2>4. ASSUME seeded', NEW r \in Rows \ murky' PROVE JoinerWillHave(r)' = HostWillHave(r)'
    <3>0. snap.valid /\ link' = link \o Seed
      BY <2>1, <2>4
    <3>1. Pending(Seed, r) = store[r] - snap.n[r] /\ store[r] \in Int
      BY <1>0, <3>0, SeedLines, TypeFacts
    <3>2. JoinerWillHave(r)' = JoinerWillHave(r) + Pending(Seed, r)
      BY <1>0, <2>1, <2>3, <3>0, SentBalance
    <3>3. JoinerWillHave(r)' = store[r] + Pending(LinesIn(inbox), r)
      BY <1>5, <3>0, <3>1, <3>2
    <3>4. HostWillHave(r)' = Held(r)' - Bit(r \in fresh') + Bit(r \in gone')
                        + (Pending(LinesIn(popped'), r) + Pending(LinesIn(inbox'), r))
      BY <1>0, HostWillHaveNext
    <3>5. Held(r)' = store'[r] - Bit(r \in tombs')
      BY HeldIs
    <3>6. Bit(r \in fresh') = 0 /\ Bit(r \in gone') = 0 /\ Bit(r \in tombs') = 0
          /\ store'[r] = store[r]
      BY <2>1 DEF Bit, laneVars
    <3>7. popped' = <<>>
      BY <1>6 DEF OnReady, Dispatch
    <3>8. Pending(LinesIn(popped'), r) = 0
      BY <3>7, LinesInFew, PendingNone
    <3>9. Pending(LinesIn(inbox'), r) = Pending(LinesIn(inbox), r)
      BY <2>1
    <3> QED BY <1>5, <3>0, <3>1, <3>3, <3>4, <3>5, <3>6, <3>8, <3>9
  <2>5. Answered'
    BY <1>4, <2>1, <2>2, <2>4 DEF Answered
  <2> QED BY <2>5
<1>7. CASE ~OnReady
  <2>1. MailOut("ready")' /\ (NetReceivePeer \/ UNCHANGED inbox)
    BY <1>1, <1>2, <1>3, <1>7, MailOutNext
  <2>2. ~ready' /\ ~seeded' /\ UNCHANGED snap
    BY <1>1, <1>3, <1>7, KnownNext
  <2>3. ASSUME snap.valid, NEW r \in Rows \ murky'
        PROVE  JoinerWillHave(r)' = snap'.n[r] + Pending(LinesIn(inbox'), r)
    <3>1. CASE NetReceivePeer
      <4> DEFINE msg == [from |-> NoConn, op |-> "line", line |-> peerNet[1]]
      <4>1. inbox' = Append(inbox, msg) /\ msg \in Message /\ LineOf(msg) = peerNet[1]
        BY <3>1, ReceiptMoves
      <4> HIDE DEF msg
      <4>2. Pending(LinesIn(inbox'), r) = Pending(LinesIn(inbox), r) + Worth(peerNet[1], r)
            /\ Worth(peerNet[1], r) \in Int
        BY <1>0, <4>1, InboxBalance
      <4>3. JoinerWillHave(r)' = JoinerWillHave(r) + Worth(peerNet[1], r)
        BY <1>0, <1>1, <1>7, <3>1, JoinerNext
      <4> QED BY <1>5, <2>2, <2>3, <4>2, <4>3
    <3>2. CASE ~NetReceivePeer
      <4>1. JoinerWillHave(r)' = JoinerWillHave(r)
        BY <1>0, <1>1, <1>3, <1>7, <3>2, JoinerNext
      <4> QED BY <1>5, <2>1, <2>2, <2>3, <3>2, <4>1
    <3> QED BY <3>1, <3>2
  <2>4. Behind(LinesIn(inbox))'
    BY <2>2, <2>3 DEF Behind
  <2> QED BY <1>4, <2>1, <2>2, <2>4 DEF Answering
<1> QED BY <1>6, <1>7

LEMMA AnsweredNext ==
  ASSUME SafeInv, SafeInv', Next, occ # NoConn, ~Leave, known \in {NoConn, occ},
         stage = "announced", Answered
  PROVE  Answered'
<1>0. TypeOK /\ TypeOK'
  BY DEF SafeInv
<1>1. /\ Relayed /\ ready /\ NoMail
      /\ seeded => \A r \in Rows \ murky : JoinerWillHave(r) = HostWillHave(r)
  BY DEF Answered
<1>2. ~JRequest /\ ~JAnnounce
  BY DEF JRequest, JAnnounce
<1>3. ~OnRequest /\ ~OnReady /\ ~NetReceiveJoiner /\ NoMail' /\ up = <<>>
  BY <1>1, <1>2, NoMailNext DEF NoMail
<1>4. Relayed' /\ ready' /\ UNCHANGED seeded
  BY <1>1, <1>3, RelayedNext, KnownNext
<1>5. ASSUME seeded, NEW r \in Rows \ murky' PROVE JoinerWillHave(r)' = HostWillHave(r)'
  <2>1. JoinerWillHave(r) = HostWillHave(r)
    BY <1>1, <1>5, MurkyGrows
  <2>2. CASE NetReceivePeer
    <3>1. JoinerWillHave(r)' = JoinerWillHave(r) + Worth(peerNet[1], r)
      BY <1>0, <1>1, <1>3, <2>2, JoinerNext
    <3>2. HostWillHave(r)' = HostWillHave(r) + Worth(peerNet[1], r)
      BY <1>0, <1>3, <2>2, HostNext
    <3> QED BY <2>1, <3>1, <3>2
  <2>3. CASE HostPoll
    <3>1. JoinerWillHave(r)' = JoinerWillHave(r) + (Bit(r \in fresh) - Bit(r \in gone))
      BY <1>0, <1>1, <1>3, <2>3, JoinerNext
    <3>2. HostWillHave(r)' = HostWillHave(r) + (Bit(r \in fresh) - Bit(r \in gone))
      BY <1>0, <1>3, <2>3, HostNext
    <3> QED BY <2>1, <3>1, <3>2
  <2>4. CASE ~NetReceivePeer /\ ~HostPoll
    <3>1. JoinerWillHave(r)' = JoinerWillHave(r)
      BY <1>0, <1>1, <1>3, <2>4, JoinerNext
    <3>2. HostWillHave(r)' = HostWillHave(r)
      BY <1>0, <1>3, <2>4, HostNext
    <3> QED BY <2>1, <3>1, <3>2
  <2> QED BY <2>2, <2>3, <2>4
<1> QED BY <1>3, <1>4, <1>5 DEF Answered

\* The stages together: the occupant stays.
LEMMA SeatedNext ==
  ASSUME SafeInv, SafeInv', Next, occ # NoConn, ~Leave, Seated
  PROVE  Seated'
<1>1. known \in {NoConn, occ} /\ known' \in {NoConn, occ'}
  <2>1. known \in {NoConn, occ}
    BY DEF Seated
  <2> QED BY <2>1, KnownNext
<1>2. CASE stage = "menu"
  BY <1>1, <1>2, MenuNext DEF Seated
<1>3. CASE stage = "asked"
  BY <1>1, <1>3, AskingNext, ServedNext DEF Seated
<1>4. CASE stage = "loaded"
  BY <1>1, <1>4, LoadedNext DEF Seated
<1>5. CASE stage = "announced"
  <2>1. stage' = "announced"
    <3>1. ~JRequest /\ ~JLoad /\ ~JAnnounce
      BY <1>5 DEF JRequest, JLoad, JAnnounce
    <3> QED BY <1>1, <1>5, <3>1, KnownNext
  <2>2. Calling \/ (\E v \in Seq(FromPeer) : Heard(v)) \/ Answering \/ Answered
    BY <1>5 DEF Seated
  <2>3. Calling' \/ (\E v \in Seq(FromPeer) : Heard(v)') \/ Answering' \/ Answered'
    BY <1>1, <1>5, <2>2, CallingNext, HeardNext, AnsweringNext, AnsweredNext
  <2> QED BY <1>1, <2>1, <2>3 DEF Seated
<1>6. stage \in {"menu", "asked", "loaded", "announced"}
  <2>1. TypeOK /\ stage # "none"
    BY ControlParts DEF SafeInv
  <2> QED BY <2>1 DEF TypeOK
<1> QED BY <1>2, <1>3, <1>4, <1>5, <1>6

\* An empty slot, a new occupant, and the old one's end.
LEMMA EmptiedNext ==
  ASSUME SafeInv, Next, occ = NoConn, Emptied
  PROVE  IF occ' = NoConn THEN Emptied' ELSE ~late' => Seated'
<1>1. TypeOK /\ EmptySlot
  BY ControlParts DEF SafeInv
<1>2. inbox \in Seq(FromPeer)
  <2>1. inbox \in Seq(FromPeer \cup FromJoiner({NoConn}))
    BY ControlParts DEF SafeInv
  <2> QED BY <2>1, Senders
<1>3. Silent(inbox)
  BY <1>2 DEF Silent
<1>4. CASE Seat
  <2>1. /\ occ' = seats + 1 /\ stage' = "menu" /\ late' = (late \/ known # NoConn)
        /\ UNCHANGED <<eligible, inbox, popped, known, ready, snap, blob, link, seeded, up,
                       jStore, jLanded, jTombs, jGot, jPark>>
    BY <1>4 DEF Seat, gameVars, arrayVars
  <2>2. occ' # NoConn /\ eligible = NoConn
    BY <1>1, <2>1 DEF TypeOK, NoConn
  <2>3. ASSUME ~late' PROVE Seated'
    <3>1. known = NoConn /\ ~ready /\ ~snap.valid /\ ~blob.valid /\ Silent(popped)
      BY <2>1, <2>3 DEF Emptied
    <3>2. Closed'
      BY <1>1, <2>1, <2>2, <3>1 DEF Closed, EmptySlot
    <3>3. NoMail'
      BY <1>1, <1>3, <2>1, <3>1 DEF NoMail, EmptySlot
    <3>4. Menu'
      BY <2>1, <3>1, <3>2, <3>3 DEF Menu
    <3> QED BY <2>1, <3>1, <3>4 DEF Seated
  <2> QED BY <2>2, <2>3
<1>5. CASE ~Seat
  <2>1. UNCHANGED occ /\ ~Leave /\ ~NetReceiveJoiner /\ ~JLoad
    BY <1>1, <1>5 DEF Next, HostAppend, HostDelete, PeerEdit, NetReceivePeer, NetReceiveJoiner, Reconcile,
         HostPoll, Pop, OnLine, OnRequest, OnReady, JRequest, JLoad, JAnnounce, JReceive, JDrain, JPoll,
         netVars, Leave, EmptySlot
  <2>2. CASE Reconcile
    <3>1. popped = <<>> /\ UNCHANGED popped /\ ready' = FALSE /\ snap' = NoSnap /\ blob' = NoSnap
      BY <2>2 DEF Reconcile, DisconnectSlot
    <3>2. Emptied'
      BY <3>1, SilentFacts, SnapFacts DEF Emptied
    <3> QED BY <2>1, <3>2
  <2>3. CASE ~Reconcile
    <3>1. UNCHANGED known
      BY <1>5, <2>3 DEF Next, HostAppend, HostDelete, PeerEdit, NetReceivePeer, NetReceiveJoiner,
         HostPoll, Pop, OnLine, OnRequest, OnReady, JRequest, JLoad, JAnnounce, JReceive, JDrain, JPoll,
         gameVars, Leave
    <3>2. ASSUME known = NoConn PROVE ~ready' /\ ~snap'.valid /\ ~blob'.valid /\ Silent(popped')
      <4>1. ~ready /\ ~snap.valid /\ ~blob.valid /\ Silent(popped)
        BY <3>2 DEF Emptied
      <4>2. popped # <<>> => popped[1].op = "line"
        BY <4>1, SilentFacts
      <4>3. ~OnRequest /\ ~OnReady
        BY <4>2 DEF OnRequest, OnReady, Dispatch
      <4>4. UNCHANGED <<ready, snap, blob>>
        BY <1>5, <2>1, <2>3, <4>3 DEF Next, HostAppend, HostDelete, PeerEdit, NetReceivePeer,
         HostPoll, Pop, OnLine, JRequest, JAnnounce, JReceive, JDrain, JPoll, gameVars
      <4>5. Silent(popped')
        <5>1. CASE Pop
          <6>1. popped' = <<Head(inbox)>> /\ inbox # <<>>
            BY <5>1 DEF Pop
          <6> QED BY <1>3, <6>1, SilentFacts
        <5>2. CASE OnLine
          <6>1. popped' = <<>>
            BY <5>2 DEF OnLine, Dispatch
          <6> QED BY <6>1, SilentFacts
        <5>3. CASE UNCHANGED popped
          BY <4>1, <5>3
        <5> QED BY <1>5, <2>1, <2>3, <4>3, <5>1, <5>2, <5>3 DEF Next, HostAppend, HostDelete, PeerEdit,
               NetReceivePeer, HostPoll, JRequest, JAnnounce, JReceive, JDrain, JPoll, gameVars
      <4> QED BY <4>1, <4>4, <4>5
    <3>3. Emptied'
      BY <3>1, <3>2 DEF Emptied
    <3> QED BY <2>1, <3>3
  <2> QED BY <2>2, <2>3
<1> QED BY <1>4, <1>5

\* The history of a late reconcile is not forgotten while it matters.
LEMMA LateStays ==
  ASSUME SafeInv, Next, ~Leave, ~late'
  PROVE  ~late
BY DEF Next, HostAppend, HostDelete, PeerEdit, NetReceivePeer, NetReceiveJoiner, Seat, Reconcile,
       HostPoll, Pop, OnLine, OnRequest, OnReady, JRequest, JLoad, JAnnounce, JReceive, JDrain, JPoll,
       takenVars

\* Each action keeps JoinInv.
LEMMA JoinNext ==
  ASSUME Inv, SafeInv', Next
  PROVE  JoinInv'
<1>1. SafeInv /\ JoinInv /\ TypeOK
  BY DEF Inv, SafeInv
<1>2. CASE Leave
  <2>1. occ # NoConn /\ occ' = NoConn /\ UNCHANGED known /\ late' = (known # occ)
    BY <1>2 DEF Leave, Close, gameVars
  <2>2. ~late' => Emptied'
    BY <2>1 DEF Emptied
  <2> QED BY <2>1, <2>2 DEF JoinInv
<1>3. CASE ~Leave /\ occ = NoConn
  <2>1. ~late' => Emptied
    BY <1>1, <1>3, LateStays DEF JoinInv
  <2> QED BY <1>1, <1>3, <2>1, EmptiedNext DEF JoinInv
<1>4. CASE ~Leave /\ occ # NoConn
  <2>1. ~late' => Seated
    BY <1>1, <1>4, LateStays DEF JoinInv
  <2>2. UNCHANGED occ
    BY <1>4 DEF Next, HostAppend, HostDelete, PeerEdit, NetReceivePeer, NetReceiveJoiner, Seat, Reconcile,
         HostPoll, Pop, OnLine, OnRequest, OnReady, JRequest, JLoad, JAnnounce, JReceive, JDrain, JPoll,
         netVars
  <2>3. ~late' => Seated'
    BY <1>1, <1>4, <2>1, SeatedNext
  <2> QED BY <1>4, <2>2, <2>3 DEF JoinInv
<1> QED BY <1>2, <1>3, <1>4

-----------------------------------------------------------------------------
(* The theorems.                                                           *)

\* The initial states.
LEMMA InitSafe ==
  ASSUME Init
  PROVE  SafeInv
<1>1. PICK S \in Saves : store = [r \in Rows |-> IF r \in S THEN 1 ELSE 0]
  BY DEF Init, Each
<1>2. /\ landed = [r \in Rows |-> 0] /\ tombs = {} /\ fresh = {} /\ gone = {} /\ got = 0
      /\ occ = NoConn /\ eligible = NoConn /\ inbox = <<>> /\ popped = <<>> /\ known = NoConn
      /\ ready = FALSE /\ snap = NoSnap /\ blob = NoSnap
      /\ has = RowsOf(store) \cap PeerRows /\ peerNet = <<>>
      /\ stage = "none" /\ up = <<>> /\ link = <<>>
      /\ jStore = [r \in Rows |-> 0] /\ jLanded = [r \in Rows |-> 0] /\ jTombs = {}
      /\ jGot = 0 /\ jPark = <<>> /\ primed = FALSE
      /\ edits = 0 /\ seats = 0 /\ seeded = FALSE /\ late = FALSE /\ murky = {}
  BY DEF Init
<1>3. Parts \in Nat \ {0} /\ MaxEdits \in Nat /\ MaxSeats \in Nat
  BY RowsAssumption
<1>4. store \in [Rows -> 0..1]
  BY <1>1
<1>5. [r \in Rows |-> 0] \in [Rows -> 0..1] /\ [r \in Rows |-> 0] \in [Rows -> Nat]
  OBVIOUS
<1>6. TypeOK
  <2>1. LaneTypes
    BY <1>2, <1>3, <1>4, <1>5 DEF LaneTypes
  <2>2. NetTypes /\ PeerTypes /\ StageTypes /\ link \in Seq(Line)
    BY <1>2 DEF NetTypes, PeerTypes, StageTypes
  <2>3. GameTypes
    BY <1>2, SnapFacts DEF GameTypes
  <2>4. ArrayTypes
    <3>1. <<>> \in Seq(Rows) /\ 0 \in 0..Parts /\ {} \subseteq Rows
      BY <1>3
    <3> QED BY <1>2, <1>5, <3>1 DEF ArrayTypes
  <2>5. CountTypes
    <3>1. 0 \in 0..MaxEdits /\ 0 \in 0..MaxSeats
      BY <1>3
    <3> QED BY <1>2, <3>1 DEF CountTypes
  <2> QED BY <2>1, <2>2, <2>3, <2>4, <2>5, TypeParts
<1>7. HostRowsInv
  BY <1>2 DEF HostRowsInv, Rows
<1>8. PeerRowsInv
  <2> SUFFICES ASSUME NEW r \in PeerRows
               PROVE  /\ landed[r] <= store[r]
                      /\ \E m \in 0..1 : /\ Path(Bits(r), 0..1, Held(r), popped, inbox, m)
                                         /\ Runs(Bits(r), m, peerNet, Bit(r \in has))
    BY DEF PeerRowsInv
  <2>1. r \in Rows /\ store[r] \in 0..1 /\ landed[r] = 0
    BY <1>2, <1>4 DEF Rows
  <2>2. Held(r) = store[r]
    <3>1. Held(r) = store[r] - Bit(r \in tombs) /\ Bit(r \in tombs) = 0
      BY <1>2, HeldIs DEF Bit
    <3> QED BY <2>1, <3>1
  <2>3. Bit(r \in has) = store[r]
    BY <1>2, <2>1 DEF Bit, RowsOf
  <2>4. store[r] \in Int /\ inbox = <<>> /\ popped = <<>>
    BY <1>2, <2>1
  <2>5. Runs(Bits(r), store[r], <<>>, store[r])
    BY <2>4, RunsNone
  <2>6. Path(Bits(r), 0..1, store[r], <<>>, <<>>, store[r])
    BY <2>1, <2>4, <2>5, LinesInFew, PathMade
  <2> QED BY <1>2, <2>1, <2>2, <2>3, <2>5, <2>6
<1>9. StreamInv
  <2>1. Blobs(<<>>) /\ Before(<<>>) = 0
    BY DEF Blobs, Before
  <2>2. Runs(Turns({}), 0, <<>>, 0)
    BY RunsNone
  <2>3. Path(Turns({}), Int, 0, <<>>, <<>>, 0)
    BY <2>2, LinesInFew, PathMade
  <2> QED BY <1>2, <2>1, <2>3 DEF StreamInv
<1>10. ControlInv
  BY <1>2 DEF ControlInv
<1> QED BY <1>6, <1>7, <1>8, <1>9, <1>10 DEF SafeInv

LEMMA InitInv ==
  ASSUME Init
  PROVE  Inv
<1>1. ready = FALSE /\ snap = NoSnap /\ blob = NoSnap /\ popped = <<>> /\ occ = NoConn
  BY DEF Init
<1>2. Emptied
  BY <1>1, SilentFacts, SnapFacts DEF Emptied
<1> QED BY <1>1, <1>2, InitSafe DEF Inv, JoinInv

LEMMA Stutters ==
  ASSUME Inv, UNCHANGED vars
  PROVE  Inv'
<1>1. UNCHANGED <<store, landed, tombs, fresh, gone, got, occ, eligible, inbox, popped, known, ready,
                  snap, blob, has, peerNet, stage, up, jStore, jLanded, jTombs, jGot, jPark, primed,
                  link, edits, seats, seeded, late, murky>>
  BY DEF vars, laneVars, netVars, gameVars, peerVars, joinerVars, arrayVars, takenVars
<1>2. SafeInv /\ JoinInv /\ TypeOK
  BY DEF Inv, SafeInv
<1>3. TypeOK'
  BY <1>1, <1>2 DEF TypeOK
<1>4. HostRowsInv'
  BY <1>1, <1>2 DEF SafeInv, HostRowsInv
<1>5. \A r : Held(r)' = Held(r)
  BY <1>1, HeldIs
<1>6. PeerRowsInv'
  BY <1>1, <1>2, <1>5 DEF SafeInv, PeerRowsInv
<1>7. StreamInv'
  BY <1>1, <1>2 DEF SafeInv, StreamInv
<1>8. ControlInv'
  BY <1>1, <1>2 DEF SafeInv, ControlInv
<1>9. \A r : JoinerWillHave(r)' = JoinerWillHave(r) /\ HostWillHave(r)' = HostWillHave(r)
  BY <1>1, JoinerQuiet DEF HostWillHave
<1>10. Emptied' <=> Emptied
  BY <1>1 DEF Emptied
<1>11. /\ Closed' <=> Closed
       /\ NoMail' <=> NoMail
       /\ \A op : Msg(op)' = Msg(op)
       /\ Straddling' = Straddling
  BY <1>1 DEF Closed, NoMail, Msg, Straddling
<1>12. /\ \A op : MailUp(op)' <=> MailUp(op)
       /\ \A op : MailOut(op)' <=> MailOut(op)
       /\ \A op, u, v : MailIn(op, u, v)' <=> MailIn(op, u, v)
  BY <1>1, <1>11 DEF MailUp, MailOut, MailIn
<1>13. Relayed' <=> Relayed
  BY <1>1, <1>11 DEF Relayed
<1>14. /\ \A v : Behind(LinesIn(v))' <=> Behind(LinesIn(v))
       /\ Behind(LinesIn(inbox))' <=> Behind(LinesIn(inbox))
  BY <1>1, <1>9 DEF Behind
<1>15. Seated' <=> Seated
  <2>1. (Menu' <=> Menu) /\ (Asking' <=> Asking) /\ (Served' <=> Served) /\ (Loaded' <=> Loaded)
        /\ (Calling' <=> Calling)
    BY <1>1, <1>11, <1>12 DEF Menu, Asking, Served, Loaded, Calling, Holding
  <2>2. \A v : Heard(v)' <=> Heard(v)
    BY <1>1, <1>12, <1>13, <1>14 DEF Heard
  <2>3. Answering' <=> Answering
    BY <1>1, <1>12, <1>13, <1>14 DEF Answering
  <2>4. Answered' <=> Answered
    BY <1>1, <1>9, <1>11, <1>13 DEF Answered
  <2> QED BY <1>1, <2>1, <2>2, <2>3, <2>4 DEF Seated
<1>16. JoinInv'
  BY <1>1, <1>2, <1>10, <1>15 DEF JoinInv
<1> QED BY <1>3, <1>4, <1>6, <1>7, <1>8, <1>16 DEF Inv, SafeInv

\* Each step keeps the invariant.
LEMMA InvNext ==
  Inv /\ [Next]_vars => Inv'
<1>1. ASSUME Inv, Next PROVE Inv'
  <2>1. SafeInv'
    BY <1>1, SafeNext DEF Inv
  <2> QED BY <1>1, <2>1, JoinNext DEF Inv
<1> QED BY <1>1, Stutters

\* The inductive invariant: whatever the net thread, the game thread, the other
\* peer, the joiner and the occupants of the slot do, the lines on every path
\* bring each row in its turn and each occupant is in one of the stages above.
THEOREM JoinInvariant == Spec => []Inv
<1>1. Init => Inv
  BY InitInv
<1> QED BY <1>1, InvNext, PTL DEF Spec

\* Every state is well typed.  In particular the host's array never holds a row
\* twice or takes away what it has not (signal_sync.cpp:105-162), and the eligible
\* handle is the occupant's or none (session_status.cpp:624-650 clears it).
THEOREM TypeCorrect == Spec => []TypeOK
<1>1. Inv => TypeOK
  BY DEF Inv, SafeInv
<1> QED BY <1>1, JoinInvariant, PTL

\* An occupant without a world has been sent no line, waits for none and parks
\* none (session_relay.cpp:83-90, session.h:332): neither its predecessor's flag
\* nor that one's late announce opens a gate for it, if the game thread saw the
\* predecessor out before it sat down (~late).
THEOREM WorldlessJoiners == Spec => []WorldlessHearsNothing
<1>1. Inv => WorldlessHearsNothing
  <2> SUFFICES ASSUME Inv, stage \in {"menu", "asked", "loaded"}, ~late
               PROVE  link = <<>> /\ jPark = <<>> /\ jTombs = {}
    BY DEF WorldlessHearsNothing
  <2>1. occ # NoConn
    BY DEF Inv, SafeInv, ControlInv
  <2>2. Seated
    BY <2>1 DEF Inv, JoinInv
  <2>3. Closed
    BY <2>2 DEF Seated, Menu, Asking, Served, Loaded
  <2> QED BY <2>3 DEF Closed
<1> QED BY <1>1, JoinInvariant, PTL

\* Once a joiner is seeded (join_seed.h:4-20), what it holds and what is on its way
\* to it are what the host holds and what is on its way to the host, for every
\* row the lane does not lose count of: no row twice, none missing, on whichever
\* side of the photograph, of the announce's receipt (session.cpp:695-705) and of
\* its dispatch a line fell, if the game thread saw its predecessor out before it
\* sat down.
THEOREM JoinersInStep == Spec => []InStep
<1>1. Inv => InStep
  <2> SUFFICES ASSUME Inv, seeded, ~late, NEW r \in Rows \ murky
               PROVE  JoinerWillHave(r) = HostWillHave(r)
    BY DEF InStep
  <2>1. occ # NoConn
    BY DEF Inv, SafeInv, ControlInv
  <2>2. Seated /\ stage # "none" /\ stage \in {"none", "menu", "asked", "loaded", "announced"}
    BY <2>1 DEF Inv, SafeInv, ControlInv, TypeOK, JoinInv
  <2>3. ~Closed /\ ~Answering /\ \A v : ~Heard(v)
    BY DEF Closed, Answering, Heard
  <2>4. Answered
    BY <2>2, <2>3 DEF Seated, Menu, Asking, Served, Loaded, Calling
  <2> QED BY <2>4 DEF Answered
<1> QED BY <1>1, JoinInvariant, PTL

=============================================================================
