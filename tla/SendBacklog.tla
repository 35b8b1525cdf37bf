---------------------------- MODULE SendBacklog ----------------------------
(***************************************************************************)
(* The reliable send path of one slot (send_backlog.cpp and its callers in *)
(* session.cpp, session_relay.cpp, session_status.cpp, save_transfer.cpp). *)
(*                                                                         *)
(* GNS refuses a message that does not fit a connection's send buffer.     *)
(* The backlog keeps such messages, first in first out in each lane, and   *)
(* the net thread's loop pushes them in as the buffer empties, or closes   *)
(* the connection when that takes too long.  Slots share nothing here:     *)
(* each has its own mutex and queues.                                      *)
(*                                                                         *)
(* A critical section of the backlog's mutex is one step.  What happens    *)
(* before it, reading the slot's handle, is another step of the thread,    *)
(* so the handle may be out of date by the time it is used.                *)
(***************************************************************************)
EXTENDS Naturals, Sequences, FiniteSets

CONSTANTS
  NumConns,    \* bound: connections that come to hold the slot
  NumLanes,    \* kLaneCount; lane 1 is High
  BufSize,     \* sendBufBytes_, in messages
  Reserve,     \* kReserve, in messages
  PassCap,     \* kDrainPassCap
  ByteCap,     \* kMaxBytesPerSlot, in messages
  NoProgress,  \* kNoProgress, in ticks of a clock slower than the net loop
  MaxSends,    \* bound: reliable messages promised, to all connections
  MaxKicks,    \* bound: kicks not for the backlog's sake
  MaxMoved     \* bound: how far "moved" counts

ASSUME SizesAssumption ==
  /\ {NumConns, NumLanes, Reserve, PassCap, ByteCap, NoProgress} \subseteq Nat \ {0}
  /\ {BufSize, MaxSends, MaxKicks, MaxMoved} \subseteq Nat
  /\ Reserve < BufSize
  /\ PassCap < ByteCap

\* GNS handles, numbered as they are admitted and never reused.
Conns   == 1..NumConns
NoConn  == 0
Lanes   == 1..NumLanes
Threads == {"net", "game"}

\* A message: the connection it was promised to (the code keeps the bytes
\* alone) and its number in that connection's lane.
Message == [to : Conns, n : 1..MaxSends]

VARIABLES
  peerConns,  \* peerConns_ of the slot
  link,       \* GNS: "parked", "open", "dead" (callback on the way), "closed"
  pending,    \* GNS: messages in a connection's send buffer
  stream,     \* history: what entered a connection's stream, by lane
  promised,   \* history: messages SendOrQueue answered true for, by lane
  queue,      \* lanes[].q
  stamp,      \* hConn of the SlotQ
  total,      \* totalBytes
  fatal,      \* fatal
  stalled,    \* ticks since lastProgress, while something is queued
  passed,     \* the loop has been at this backlog since the last tick
  moved,      \* history: messages GNS has sent out since lastProgress
  pc,         \* where each thread is
  held,       \* the handle each thread works with
  kicks       \* kicks so far

gnsVars     == <<link, pending, stream>>
backlogVars == <<queue, stamp, total, fatal, stalled, moved>>
vars == <<peerConns, link, pending, stream, promised, queue, stamp, total, fatal,
          stalled, passed, moved, pc, held, kicks>>

EmptyQueue == [l \in Lanes |-> <<>>]

\* The places of the backlog that are taken: lane, position in its queue.
Queued == UNION {{l} \X DOMAIN queue[l] : l \in Lanes}

TypeOK ==
  /\ peerConns \in Conns \cup {NoConn}
  /\ link \in [Conns -> {"parked", "open", "dead", "closed"}]
  /\ pending \in [Conns -> 0..BufSize]
  /\ stream \in [Conns -> [Lanes -> Seq(Message)]]
  /\ promised \in [Conns -> [Lanes -> 0..MaxSends]]
  /\ queue \in [Lanes -> Seq(Message)]
  /\ stamp \in Conns \cup {NoConn}
  /\ total = Cardinality(Queued)
  /\ fatal \in BOOLEAN
  /\ stalled \in 0..NoProgress + 1
  /\ passed \in BOOLEAN
  /\ moved \in 0..MaxMoved
  /\ pc \in [Threads -> {"idle", "send", "drain", "check", "kick", "free", "release"}]
  /\ held \in [Threads -> Conns \cup {NoConn}]
  /\ kicks \in 0..MaxKicks

Init ==
  /\ peerConns = NoConn
  /\ link = [c \in Conns |-> "parked"]
  /\ pending = [c \in Conns |-> 0]
  /\ stream = [c \in Conns |-> EmptyQueue]
  /\ promised = [c \in Conns |-> [l \in Lanes |-> 0]]
  /\ queue = EmptyQueue
  /\ stamp = NoConn
  /\ total = 0
  /\ fatal = FALSE
  /\ stalled = 0
  /\ passed = FALSE
  /\ moved = 0
  /\ pc = [t \in Threads |-> "idle"]
  /\ held = [t \in Threads |-> NoConn]
  /\ kicks = 0

\* Thread t goes from l to m with handle c; an idle thread holds none.
StepWith(t, l, m, c) ==
  /\ pc[t] = l
  /\ pc' = [pc EXCEPT ![t] = m]
  /\ held' = [held EXCEPT ![t] = IF m = "idle" THEN NoConn ELSE c]
Step(t, l, m) == StepWith(t, l, m, held[t])

\* Variants: a verdict outlives its queue; the byte count is forgotten.
ResetButVerdict ==
  /\ queue' = EmptyQueue
  /\ stamp' = NoConn
  /\ total' = 0
  /\ stalled' = 0
  /\ moved' = 0
  /\ UNCHANGED fatal
ResetButTotal ==
  /\ queue' = EmptyQueue
  /\ stamp' = NoConn
  /\ fatal' = FALSE
  /\ stalled' = 0
  /\ moved' = 0
  /\ UNCHANGED total

\* ResetLocked_.
Reset ==
  /\ queue' = EmptyQueue
  /\ stamp' = NoConn
  /\ total' = 0
  /\ fatal' = FALSE
  /\ stalled' = 0
  /\ moved' = 0

-----------------------------------------------------------------------------
(* Sending: a game-thread author or the net thread's relay.                *)

Room(c) == link[c] = "open" /\ pending[c] < BufSize
Promised == UNION {{<<c, l>>} \X (1..promised[c][l]) : c \in Conns, l \in Lanes}
Sending  == {t \in Threads : pc[t] = "send"}

\* The sender reads the slot's handle, having decided to send (its pre-world
\* gate is passed).
LoadHandle(t) ==
  /\ peerConns # NoConn
  /\ Cardinality(Promised) + Cardinality(Sending) < MaxSends
  /\ StepWith(t, "idle", "send", peerConns)
  /\ UNCHANGED <<peerConns, gnsVars, promised, backlogVars, passed, kicks>>

\* Variants: another connection's backlog is not recognised; the test is inverted.
NeverForeign(c) == FALSE
OwnForeign(c)   == total > 0 /\ stamp = c

\* A backlog stamped for another connection than the sender's is discarded.
Foreign(c) == total > 0 /\ stamp # c

\* What SendOrQueue finds in the lane after that.
LaneClear(l, c) == Foreign(c) \/ queue[l] = <<>>
DiscardForeign(c) == IF Foreign(c) THEN Reset ELSE UNCHANGED backlogVars

Fresh(c, l) == [to |-> c, n |-> promised[c][l] + 1]
Promise(c, l) == promised' = [promised EXCEPT ![c][l] = @ + 1]

\* Variant: the attempt is made whether or not the lane has a queue.
SendOvertaking(t, l) ==
  LET c == held[t]
  IN  /\ Step(t, "send", "idle")
      /\ Room(c)
      /\ DiscardForeign(c)
      /\ stream' = [stream EXCEPT ![c][l] = Append(@, Fresh(c, l))]
      /\ pending' = [pending EXCEPT ![c] = @ + 1]
      /\ Promise(c, l)
      /\ UNCHANGED <<peerConns, link, passed, kicks>>

\* SendOrQueue, fast path: the lane is empty and GNS takes the message.
SendThrough(t, l) ==
  LET c == held[t]
  IN  /\ Step(t, "send", "idle")
      /\ LaneClear(l, c)
      /\ Room(c)
      /\ DiscardForeign(c)
      /\ stream' = [stream EXCEPT ![c][l] = Append(@, Fresh(c, l))]
      /\ pending' = [pending EXCEPT ![c] = @ + 1]
      /\ Promise(c, l)
      /\ UNCHANGED <<peerConns, link, passed, kicks>>

\* A connection that is gone refuses for good: false, and nothing is queued.
SendRefused(t, l) ==
  LET c == held[t]
  IN  /\ Step(t, "send", "idle")
      /\ LaneClear(l, c)
      /\ link[c] # "open"
      /\ DiscardForeign(c)
      /\ UNCHANGED <<peerConns, gnsVars, promised, passed, kicks>>

\* Behind what the lane has queued, or when the buffer is full.  Over the cap
\* the message is queued all the same and the slot is condemned.  A new episode
\* starts the clock.
SendQueued(t, l) ==
  LET c    == held[t]
      kept == IF Foreign(c) THEN EmptyQueue ELSE queue
      size == IF Foreign(c) THEN 0 ELSE total
  IN  /\ Step(t, "send", "idle")
      /\ \/ ~LaneClear(l, c)
         \/ link[c] = "open" /\ ~Room(c)
      /\ queue' = [kept EXCEPT ![l] = Append(@, Fresh(c, l))]
      /\ total' = size + 1
      /\ fatal' = (size + 1 > ByteCap \/ (fatal /\ ~Foreign(c)))
      /\ stalled' = IF size = 0 THEN 0 ELSE stalled
      /\ moved' = IF size = 0 THEN 0 ELSE moved
      /\ stamp' = c
      /\ Promise(c, l)
      /\ UNCHANGED <<peerConns, gnsVars, passed, kicks>>

\* The save pump, which does not queue: refused, it tries again at its next
\* tick.  A chunk is not larger than the reserve.
TrySendReliableToSlot ==
  /\ pc["game"] = "idle"
  /\ peerConns # NoConn
  /\ Room(peerConns)
  /\ pending' = [pending EXCEPT ![peerConns] = @ + 1]
  /\ UNCHANGED <<peerConns, link, stream, promised, backlogVars, passed, pc, held, kicks>>

-----------------------------------------------------------------------------
(* The net thread's pass over the slot, and the teardown of a connection.  *)

BeginPass ==
  /\ peerConns # NoConn
  /\ StepWith("net", "idle", "drain", peerConns)
  /\ UNCHANGED <<peerConns, gnsVars, promised, backlogVars, passed, kicks>>

Least(a, b) == IF a < b THEN a ELSE b

\* How many messages a pass may send: the reserve gate, and the pass cap.
Budget(c) ==
  IF link[c] = "open" /\ pending[c] + Reserve < BufSize
  THEN Least(BufSize - Reserve - pending[c], PassCap)
  ELSE 0

\* Variant: the lanes are served in the wrong order.
AheadReversed(l) == {e \in Queued : e[1] > l}

\* How many of them come from lane l: the higher lanes go first.
Ahead(l) == {e \in Queued : e[1] < l}
Share(c, l) ==
  LET ahead == Cardinality(Ahead(l))
  IN  IF ahead < Budget(c) THEN Least(Len(queue[l]), Budget(c) - ahead) ELSE 0
Sent(c) == Cardinality({e \in Queued : e[2] <= Share(c, e[1])})

\* Variant: every pass counts as progress.
AnyPass(c) == TRUE

Progressed(c) == Sent(c) > 0

\* Drain, for the connection the backlog belongs to.
Drain ==
  LET c == held["net"]
  IN  /\ Step("net", "drain", "check")
      /\ ~Foreign(c)
      /\ stream' = [stream EXCEPT ![c] = [l \in Lanes |->
                      @[l] \o SubSeq(queue[l], 1, Share(c, l))]]
      /\ queue' = [l \in Lanes |->
                      SubSeq(queue[l], Share(c, l) + 1, Len(queue[l]))]
      /\ total' = total - Sent(c)
      /\ pending' = [pending EXCEPT ![c] = @ + Sent(c)]
      /\ stalled' = IF Progressed(c) THEN 0 ELSE stalled
      /\ moved' = IF Progressed(c) THEN 0 ELSE moved
      /\ UNCHANGED <<peerConns, link, promised, stamp, fatal, passed, kicks>>

\* Drain, for one that is gone: its backlog is dropped.
DrainForeign ==
  /\ Step("net", "drain", "check")
  /\ Foreign(held["net"])
  /\ Reset
  /\ UNCHANGED <<peerConns, gnsVars, promised, passed, kicks>>

\* CheckFatal: over the cap, or no progress for too long.
Condemned == total > 0 /\ (fatal \/ stalled > NoProgress)

CheckFatal ==
  /\ Step("net", "check", IF Condemned THEN "kick" ELSE "idle")
  /\ fatal' = (fatal \/ Condemned)
  /\ passed' = (total > 0)
  /\ UNCHANGED <<peerConns, gnsVars, promised, queue, stamp, total, stalled, moved, kicks>>

\* FatalCloseSlot: claim what the slot holds, by exchange.
FatalCloseSlot ==
  /\ StepWith("net", "kick", IF peerConns = NoConn THEN "idle" ELSE "free", peerConns)
  /\ peerConns' = NoConn
  /\ UNCHANGED <<gnsVars, promised, backlogVars, passed, kicks>>

\* Any other kick: an admin's or a refused Join's on the game thread, a
\* supersession on the net thread.
Kick(t) ==
  /\ kicks < MaxKicks
  /\ peerConns # NoConn
  /\ StepWith(t, "idle", "free", peerConns)
  /\ peerConns' = NoConn
  /\ kicks' = kicks + 1
  /\ UNCHANGED <<gnsVars, promised, backlogVars, passed>>

\* The close callback of the slot's connection.
ClosedEdge ==
  /\ peerConns # NoConn
  /\ link[peerConns] = "dead"
  /\ StepWith("net", "idle", "free", peerConns)
  /\ peerConns' = NoConn
  /\ UNCHANGED <<gnsVars, promised, backlogVars, passed, kicks>>

\* The teardown: the backlog is freed by slot number, then the handle is closed.
FreeSlot(t) ==
  /\ Step(t, "free", "release")
  /\ Reset
  /\ UNCHANGED <<peerConns, gnsVars, promised, passed, kicks>>

CloseConnection(t) ==
  /\ StepWith(t, "release", "idle", NoConn)
  /\ link' = [link EXCEPT ![held[t]] = "closed"]
  /\ pending' = [pending EXCEPT ![held[t]] = 0]
  /\ UNCHANGED <<peerConns, stream, promised, backlogVars, passed, kicks>>

\* AdmitPending: the next proved joiner takes the free slot.
AdmitPending(c) ==
  /\ pc["net"] = "idle"
  /\ peerConns = NoConn
  /\ \A d \in Conns : link[d] = "parked" <=> d >= c
  /\ peerConns' = c
  /\ link' = [link EXCEPT ![c] = "open"]
  /\ UNCHANGED <<pending, stream, promised, backlogVars, passed, pc, held, kicks>>

-----------------------------------------------------------------------------
(* The environment: GNS and the clock.                                     *)

\* GNS puts a message of the buffer on the wire.
Transmit(c) ==
  /\ link[c] = "open"
  /\ pending[c] > 0
  /\ pending' = [pending EXCEPT ![c] = @ - 1]
  /\ moved' = IF total > 0 /\ c = stamp /\ moved < MaxMoved THEN moved + 1 ELSE moved
  /\ UNCHANGED <<peerConns, link, stream, promised, queue, stamp, total, fatal, stalled,
                 passed, pc, held, kicks>>

LinkDies(c) ==
  /\ link[c] = "open"
  /\ link' = [link EXCEPT ![c] = "dead"]
  /\ UNCHANGED <<peerConns, pending, stream, promised, backlogVars, passed, pc, held, kicks>>

\* The loop passes many times in a tick.
Tick ==
  /\ total > 0
  /\ passed
  /\ stalled <= NoProgress
  /\ stalled' = stalled + 1
  /\ passed' = FALSE
  /\ UNCHANGED <<peerConns, gnsVars, promised, queue, stamp, total, fatal, moved, pc, held,
                 kicks>>

SendOrQueue(t) == \E l \in Lanes :
  \/ SendThrough(t, l)
  \/ SendRefused(t, l)
  \/ SendQueued(t, l)

Pass == BeginPass \/ Drain \/ DrainForeign \/ CheckFatal \/ FatalCloseSlot

Work(t) == SendOrQueue(t) \/ FreeSlot(t) \/ CloseConnection(t)

Gns == \E c \in Conns : Transmit(c) \/ LinkDies(c) \/ AdmitPending(c)

Next ==
  \/ \E t \in Threads : LoadHandle(t) \/ Work(t) \/ Kick(t)
  \/ TrySendReliableToSlot
  \/ Pass
  \/ ClosedEdge
  \/ Gns
  \/ Tick

Spec == Init /\ [][Next]_vars

\* A thread finishes what it began, the net loop comes round to the slot however
\* much it relays in between, and time passes.  The link need not move and the
\* pump need not pause.
FairSpec ==
  /\ Spec
  /\ WF_vars(Pass \/ Work("net"))
  /\ SF_vars(BeginPass)
  /\ WF_vars(Work("game"))
  /\ WF_vars(Tick)

-----------------------------------------------------------------------------
(* Properties.                                                             *)

\* A connection's stream holds its own messages alone, in each lane in the
\* order they were promised and none twice, whichever thread sent them and
\* whoever held the slot before (send_backlog.h: FIFO-once-nonempty; person Y
\* must never receive person X's queued state).
StreamInOrder ==
  \A c \in Conns, l \in Lanes :
    LET s == stream[c][l]
    IN  /\ \A i \in DOMAIN s : s[i].to = c
        /\ \A i, j \in DOMAIN s : i < j => s[i].n < s[j].n

\* Nothing promised to c is lost: it is in the stream or in the backlog.
Whole(c) == \A l \in Lanes : \A n \in 1..promised[c][l] :
  \E m \in {stream[c][l][i] : i \in DOMAIN stream[c][l]}
           \cup {queue[l][i] : i \in DOMAIN queue[l]} : m = [to |-> c, n |-> n]

\* While a connection holds the slot, what it was promised is lost only by a
\* thread that still works for an earlier occupant: a sender with an old handle,
\* or a teardown that frees the slot late.  No refusal, cap, pass or recycling
\* loses a message by itself.
LostByStrangersOnly ==
  [][\A c \in Conns : peerConns = c /\ peerConns' = c /\ Whole(c) /\ ~Whole(c)'
       => \E t \in Threads : pc[t] \in {"send", "free"} /\ held[t] # c /\ pc'[t] # pc[t]]_vars

\* A connection is condemned for its own backlog, never for a predecessor's.
CondemnedByItsOwn ==
  [][pc["net"] = "check" /\ pc'["net"] = "kick" => stamp = held["net"]]_vars

\* A condemned slot still has its queue: the verdict cannot outlive the queue
\* it is about and hit the next, harmless episode.
VerdictHasQueue == fatal => total > 0

\* What waits for connection c in a lane.
Waiting(c, l) == IF stamp = c THEN queue[l] ELSE <<>>

\* To each connection the slot's one recycled backlog is a channel of its own:
\* in each lane nothing overtakes, a pass serves the higher lanes first, and
\* what waits is lost in all lanes together or not at all.
Channel(c) ==
  INSTANCE LaneChannel WITH Conn <- c, stream <- stream[c], promised <- promised[c],
                            waiting <- [l \in Lanes |-> Waiting(c, l)]
PrivateChannels ==
  /\ \A c \in Conns : Channel(c)!Init
  /\ [][\A c \in Conns : [Channel(c)!Next]_(Channel(c)!vars)]_vars

\* Nothing waits forever behind a living connection: the backlog empties or the
\* connection is closed, even when the link never moves again.
SentOrClosed ==
  \A c \in Conns : (peerConns = c /\ total > 0) ~> (peerConns # c \/ total = 0)

\* Refuted: the no-progress bound spares a link that moves: a slot is condemned
\* for it only if GNS has not sent out more than a whole buffer since the last
\* progress (send_backlog.h: a slow-but-DRAINING link never trips it).
DrainingLinkSpared ==
  [][pc["net"] = "check" /\ pc'["net"] = "kick" /\ ~fatal => moved <= BufSize]_vars
=============================================================================
